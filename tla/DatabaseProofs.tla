---------------------------- MODULE DatabaseProofs ----------------------------
(***************************************************************************)
(* What the database of the server keeps, in two parts.                    *)
(*                                                                         *)
(* The first is about the rows of SessionRegistry: its type correctness    *)
(* and its four properties, for any boats, windows, requests and numbers   *)
(* of rows: a repeated request gets its upload again, an outing is one     *)
(* session, a session covers what its uploads declared, and goes only when *)
(* a user deletes it.                                                      *)
(*                                                                         *)
(* The second is about the schema under them, SchemaMigrations: its three  *)
(* properties for any values the releases may write and any number of      *)
(* them.  Its steps are the 34 revisions, each worked through table by     *)
(* table.                                                                  *)
(***************************************************************************)
EXTENDS SessionRegistry, SchemaMigrations, FiniteSetTheorems, TLAPS

\* The steps at work on an upload, and those that attach a session.
Uploading == {"bind", "list", "find", "solo", "create", "widen", "key", "insert"}
Attaching == {"count", "target", "drop"}

\* What a request holds at each of its steps.
HandlerOK(r) ==
    /\ r.pc = "idle" <=> r.op = "none"
    /\ r.pc \in {"race", "newRace"} =>
         /\ r.race \in Races
         /\ r.op = "match" \/ (r.op = "gpx" /\ r.boat \in Boats /\ r.win \in Windows)
    /\ r.pc \in Uploading => r.op \in {"device", "import", "gpx"} /\ r.boat \in Boats /\ r.win \in Windows
    /\ r.pc \in {"bind", "list", "create"} => r.act \in Activities /\ activity[r.act].stage # "unused"
    /\ r.pc \in {"widen", "key", "insert"} =>
         /\ r.sid \in Sessions /\ session[r.sid].stage # "unused"
         /\ session[r.sid].stage = "live" => session[r.sid].boat = r.boat
    /\ r.pc \in {"overlaps", "move"} =>
         r.op = "match" /\ r.act \in Activities /\ activity[r.act].stage # "unused"
    /\ r.pc = "move" => \A x \in r.left : session[x.sid].stage # "unused"
    /\ r.pc \in Attaching =>
         /\ r.op = "attach"
         /\ r.sid \in Sessions /\ session[r.sid].stage # "unused"
         /\ r.act \in Activities /\ activity[r.act].stage # "unused"
         /\ r.asked \in Activities /\ activity[r.asked].stage # "unused"
    /\ r.pc \in {"bind", "list"} => r.asked # None \/ r.race # None
    /\ r.pc \in {"find", "solo"} => r.asked = None
    /\ r.op = "device" => r.race = None /\ r.key \in Keys
    /\ r.op # "device" => r.key = None
    /\ r.op = "device" /\ r.asked # None /\ r.pc \in {"bind", "list", "create"} => r.act = r.asked

\* Foreign keys: a session is in an activity, an upload in a session.
RowsInv ==
    /\ \A s \in Sessions : session[s].stage = "live" =>
         session[s].boat \in Boats /\ session[s].act \in Activities
         /\ activity[session[s].act].stage = "live"
    /\ \A u \in Uploads : upload[u].stage = "live" =>
         upload[u].session \in Sessions /\ session[upload[u].session].stage = "live"
         /\ upload[u].win \in Windows
    /\ \A a \in Activities : activity[a].race # None => activity[a].from \in Int /\ activity[a].to \in Int

\* Two requests at work on one boat have disturbed it.
Works(r) == IF r.pc = "idle" THEN {} ELSE Touched(r)
AloneInv == \A g, h \in Handlers : g # h => Works(handler[g]) \cap Works(handler[h]) \subseteq disturbed

\* The activity a session is taken from has no other, and at last none.
TakenFrom(r) ==
    LET others == {s \in Sessions : session[s].stage = "live" /\ session[s].act = r.act
                                    /\ session[s].boat \notin disturbed}
    IN /\ r.pc = "count" => \/ activity[r.act].stage = "gone" \/ Boats \subseteq disturbed
                            \/ session[r.sid].stage = "live" /\ session[r.sid].act = r.act
       /\ r.pc = "target" => others \subseteq {r.sid}
       /\ r.pc = "drop" => r.asked = r.act \/ others = {}

\* The session an upload is in, or will be in, covers its window.
Covers(row, w) == /\ row.from # None /\ row.from <= w.from
                  /\ w.to # None => row.to # None /\ row.to >= w.to
WillCover(r) ==
    r.pc \in {"key", "insert"} =>
       \/ r.boat \in disturbed \/ session[r.sid].stage = "gone"
       \/ Covers(session[r.sid], r.win)
IsCovered(u) ==
    upload[u].stage = "live" =>
       LET row == session[upload[u].session] IN row.boat \in disturbed \/ Covers(row, upload[u].win)

\* A request that opens a standalone session has no other of the same outing.
OpensApart(r) ==
    r.pc \in {"solo", "create"} /\ r.asked = None /\ r.race = None /\ r.boat \notin disturbed =>
       \A s \in Sessions : session[s].stage = "live" /\ session[s].boat = r.boat
                             => ~SameOuting(session[s], r.win)

\* A repeated request finds the session of the first.
Excused(b, w, a) == b \in disturbed \/ <<b, w, a>> \in ambiguous
Finds(row, w, a) == IF a = None THEN Near(row, w) ELSE row.act = a
Repeats(r, u) == /\ upload[u].stage = "live" /\ upload[u].key = r.key /\ upload[u].win = r.win
                 /\ upload[u].asked = r.asked /\ session[upload[u].session].boat = r.boat
IsFound(u) ==
    LET row == session[upload[u].session]  w == upload[u].win  a == upload[u].asked IN
    upload[u].stage = "live" /\ upload[u].key # None => Excused(row.boat, w, a) \/ Finds(row, w, a)
WillBeFound(r) ==
    r.op = "device" /\ r.pc \in {"widen", "key", "insert"} /\ session[r.sid].stage = "live" =>
       Excused(r.boat, r.win, r.asked) \/ Finds(session[r.sid], r.win, r.asked)
Repeated(r) ==
    r.op = "device" /\ ~Excused(r.boat, r.win, r.asked) =>
       \A u \in Uploads : Repeats(r, u) =>
          /\ r.pc \notin {"solo", "create"}
          /\ r.pc \in {"widen", "key", "insert"} => upload[u].session = r.sid
Pair(u, v) ==
    /\ u # v /\ upload[u].stage = "live" /\ upload[v].stage = "live" /\ upload[u].key # None
    /\ upload[u].key = upload[v].key /\ upload[u].win = upload[v].win
    /\ upload[u].asked = upload[v].asked
    /\ session[upload[v].session].boat = session[upload[u].session].boat
    => Excused(session[upload[u].session].boat, upload[u].win, upload[u].asked)

RequestInv(r) == /\ HandlerOK(r) /\ TakenFrom(r) /\ WillCover(r) /\ OpensApart(r)
                 /\ WillBeFound(r) /\ Repeated(r)
RequestsInv == \A h \in Handlers : RequestInv(handler[h])
UploadsInv == /\ \A u \in Uploads : IsCovered(u) /\ IsFound(u)
              /\ \A u, v \in Uploads : Pair(u, v)
IInv == TypeOK /\ RowsInv /\ AloneInv /\ RequestsInv /\ UploadsInv

-----------------------------------------------------------------------------
(* The tables and the requests.                                            *)

LEMMA Ids ==
    /\ None \notin Sessions /\ None \notin Activities /\ None \notin Uploads
    /\ None \notin Int /\ None \notin Boats /\ None \notin Races /\ None \notin Keys
    /\ Gap \in Nat /\ MaxRequests \in Nat
    /\ Sessions \subseteq Int /\ Activities \subseteq Int /\ Uploads \subseteq Int
BY RegistryAssumption DEF Sessions, Activities, Uploads

LEMMA WindowType ==
    ASSUME NEW w \in Windows
    PROVE  /\ w \in [from : Int, to : Maybe(Int)]
           /\ w.from \in Int /\ w.to \in Int \cup {None} /\ (w.to # None => w.from <= w.to)
           /\ End(w) \in Int /\ w.from <= End(w)
<1>1. w \in [from : Int, to : Maybe(Int)] /\ (w.to # None => w.from <= w.to)
  BY RegistryAssumption
<1>2. w.from \in Int /\ w.to \in Int \cup {None}
  BY <1>1 DEF Maybe
<1> QED BY <1>1, <1>2 DEF End

LEMMA StoredIs ==
    ASSUME TypeOK
    PROVE  /\ Stored(session) = {s \in Sessions : session[s].stage = "live"}
           /\ Stored(activity) = {a \in Activities : activity[a].stage = "live"}
           /\ Stored(upload) = {u \in Uploads : upload[u].stage = "live"}
           /\ Known(activity) = {a \in Activities : activity[a].stage # "unused"}
           /\ \A s \in Fresh(session) : s \in Sessions /\ session[s].stage = "unused"
           /\ \A a \in Fresh(activity) : a \in Activities /\ activity[a].stage = "unused"
           /\ \A u \in Fresh(upload) : u \in Uploads /\ upload[u].stage = "unused"
<1>1. DOMAIN session = Sessions /\ DOMAIN activity = Activities /\ DOMAIN upload = Uploads
  BY DEF TypeOK
<1> QED BY <1>1 DEF Stored, Known, Fresh

LEMMA HandlerSet ==
    ASSUME TypeOK, NEW h \in Handlers, NEW r \in Request, handler' = [handler EXCEPT ![h] = r]
    PROVE  /\ handler' \in [Handlers -> Request]
           /\ handler'[h] = r /\ \A g \in Handlers : g # h => handler'[g] = handler[g]
BY DEF TypeOK

\* A step of a request keeps what was asked.
Same(r, q) == /\ r.op = q.op /\ r.boat = q.boat /\ r.win = q.win /\ r.key = q.key
              /\ r.race = q.race /\ r.asked = q.asked
Steps == {"idle", "race", "newRace", "bind", "list", "find", "solo", "create", "widen",
          "key", "insert", "overlaps", "move", "count", "target", "drop"}
Turns(h, r) == handler' = [handler EXCEPT ![h] = r]

LEMMA HandlerType == ASSUME TypeOK, NEW h \in Handlers PROVE handler[h] \in Request
BY DEF TypeOK

LEMMA GotoCase ==
    ASSUME TypeOK, NEW h \in Handlers, NEW pc \in Steps, Goto(h, pc)
    PROVE  \E r \in Request : Turns(h, r) /\ r.pc = pc /\ Same(r, handler[h])
                              /\ r.act = handler[h].act /\ r.sid = handler[h].sid
<1> DEFINE r == [handler[h] EXCEPT !.pc = pc]
<1>1. handler[h] \in Request
  BY HandlerType
<1>2. r \in Request /\ r.pc = pc /\ Same(r, handler[h]) /\ r.act = handler[h].act /\ r.sid = handler[h].sid
  BY <1>1 DEF Request, Same, Steps
<1>3. Turns(h, r)
  BY DEF Goto, Turns
<1> QED BY <1>2, <1>3

LEMMA IdleType == Idle \in Request /\ Idle.pc = "idle" /\ Idle.op = "none" /\ Idle.key = None
<1>1. Idle.pc = "idle" /\ Idle.op = "none" /\ Idle.key = None
  BY DEF Idle
<1>2. Idle \in Request
  BY DEF Idle, Request, Maybe
<1> QED BY <1>1, <1>2

LEMMA IdleOK == RequestInv(Idle)'
<1>1. HandlerOK(Idle)'
  BY IdleType DEF HandlerOK, Uploading, Attaching
<1>2. TakenFrom(Idle)' /\ WillCover(Idle)' /\ OpensApart(Idle)' /\ WillBeFound(Idle)' /\ Repeated(Idle)'
  BY IdleType DEF TakenFrom, WillCover, OpensApart, WillBeFound, Repeated
<1> QED BY <1>1, <1>2 DEF RequestInv

LEMMA AloneKept ==
    ASSUME IInv, NEW h \in Handlers, NEW r \in Request, Turns(h, r), disturbed \subseteq disturbed',
           r.pc = "idle" \/ (handler[h].pc # "idle" /\ r.op = handler[h].op /\ r.boat = handler[h].boat)
    PROVE  AloneInv'
<1>1. \A g \in Handlers : handler'[g] = IF g = h THEN r ELSE handler[g]
  BY DEF Turns, IInv, TypeOK
<1>2. Works(r) \subseteq Works(handler[h])
  BY DEF Works, Touched
<1>3. \A g \in Handlers : Works(handler'[g]) \subseteq Works(handler[g])
  BY <1>1, <1>2
<1> QED BY <1>3 DEF IInv, AloneInv

\* What one request changes leaves the others alone, or disturbs their boat.
Elsewhere(h, b) == \A g \in Handlers \ {h} : b \in Works(handler[g]) => b \in disturbed'

LEMMA OthersElsewhere ==
    ASSUME IInv, NEW h \in Handlers, NEW b \in Works(handler[h]), disturbed \subseteq disturbed'
    PROVE  Elsewhere(h, b)
BY DEF IInv, AloneInv, Elsewhere

LEMMA Together ==
    ASSUME TypeOK, NEW h \in Handlers, NEW r \in Request, Turns(h, r),
           TypeOK', RowsInv', AloneInv', UploadsInv', RequestInv(r)',
           \A g \in Handlers \ {h} : \A q : q = handler[g] => RequestInv(q)'
    PROVE  IInv'
<1>1. \A g \in Handlers : handler'[g] = IF g = h THEN r ELSE handler[g]
  BY DEF Turns, TypeOK
<1>2. ASSUME NEW g \in Handlers PROVE RequestInv(handler[g])'
  <2>1. CASE g = h
    BY <1>1, <2>1
  <2>2. CASE g # h
    BY <1>1, <2>2
  <2> QED BY <2>1, <2>2
<1> QED BY <1>2 DEF IInv, RequestsInv

-----------------------------------------------------------------------------
(* What the other requests and the uploads keep when rows change.          *)

More == disturbed \subseteq disturbed' /\ ambiguous \subseteq ambiguous'
\* Rows are inserted and removed; the boat of a session stays.
Ages ==
    /\ \A s \in Sessions : session[s].stage # "unused" =>
         /\ session'[s].stage # "unused"
         /\ session'[s].stage = "live" => session[s].stage = "live" /\ session'[s].boat = session[s].boat
    /\ \A a \in Activities : activity[a].stage # "unused" => activity'[a].stage # "unused"

LEMMA AgesOK == ASSUME Ages, NEW r \in Request, HandlerOK(r) PROVE HandlerOK(r)'
<1>1. \A x \in r.left : x.sid \in Sessions
  BY DEF Request, Listed
<1> QED BY <1>1 DEF Ages, HandlerOK

LEMMA ExcusedMore == ASSUME More, NEW b, NEW w, NEW a, Excused(b, w, a) PROVE Excused(b, w, a)'
BY DEF More, Excused

\* Neither sessions nor uploads change.
LEMMA ActivitiesChange ==
    ASSUME More, UNCHANGED <<session, upload>>,
           \A a \in Activities : activity[a].stage # "unused" => activity'[a].stage = activity[a].stage
    PROVE  /\ \A r \in Request : RequestInv(r) => RequestInv(r)'
           /\ UploadsInv => UploadsInv'
<1>1. Ages
  BY DEF Ages
<1>2. ASSUME NEW r \in Request, RequestInv(r) PROVE RequestInv(r)'
  <2>1. HandlerOK(r) /\ HandlerOK(r)'
    BY <1>1, <1>2, AgesOK DEF RequestInv
  <2>2. TakenFrom(r)'
    <3>1. r.pc \in Attaching => activity'[r.act].stage = activity[r.act].stage
      BY <2>1 DEF HandlerOK
    <3> QED BY <1>2, <3>1 DEF RequestInv, TakenFrom, Attaching, More
  <2>3. WillCover(r)' /\ OpensApart(r)'
    BY <1>2 DEF RequestInv, WillCover, OpensApart, More, SameOuting, Covers
  <2>4. WillBeFound(r)' /\ Repeated(r)'
    BY <1>2, ExcusedMore DEF RequestInv, WillBeFound, Repeated, Finds, Repeats
  <2> QED BY <2>1, <2>2, <2>3, <2>4 DEF RequestInv
<1>3. ASSUME UploadsInv PROVE UploadsInv'
  BY <1>3, ExcusedMore DEF UploadsInv, IsCovered, IsFound, Pair, More, Finds
<1> QED BY <1>2, <1>3

\* A session is inserted.
LEMMA NewRow ==
    ASSUME TypeOK, RowsInv, More, UNCHANGED <<activity, upload>>,
           NEW s \in Sessions, session[s].stage = "unused",
           NEW row \in SessionRow, row.stage = "live", row.boat \in Boats,
           session' = [session EXCEPT ![s] = row]
    PROVE  /\ \A r \in Request : RequestInv(r) /\ (row.boat \in Works(r) => row.boat \in disturbed')
                                    => RequestInv(r)'
           /\ UploadsInv => UploadsInv'
<1>1. session'[s] = row /\ \A t \in Sessions : t # s => session'[t] = session[t]
  BY DEF TypeOK
<1>2. Ages
  BY <1>1 DEF Ages
<1>3. ASSUME NEW r \in Request, RequestInv(r), row.boat \in Works(r) => row.boat \in disturbed'
      PROVE  RequestInv(r)'
  <2>1. HandlerOK(r) /\ HandlerOK(r)'
    BY <1>2, <1>3, AgesOK DEF RequestInv
  <2>2. r.pc \in {"widen", "key", "insert"} \cup Attaching => r.sid \in Sessions /\ r.sid # s
    BY <2>1 DEF HandlerOK
  <2>3. r.pc \in Attaching => row.boat \in disturbed'
    BY <1>3, <2>1 DEF HandlerOK, Works, Touched, ByHand, Attaching
  <2>4. TakenFrom(r)'
    BY <1>1, <1>3, <2>2, <2>3 DEF RequestInv, TakenFrom, Attaching, More
  <2>5. WillCover(r)'
    BY <1>1, <1>3, <2>2 DEF RequestInv, WillCover, More, Covers
  <2>6. OpensApart(r)'
    <3>1. r.pc \in {"solo", "create"} => Works(r) = {r.boat}
      BY <2>1 DEF HandlerOK, Uploading, Works, Touched, ByHand
    <3> QED BY <1>1, <1>3, <3>1 DEF RequestInv, OpensApart, More, SameOuting
  <2>7. WillBeFound(r)'
    BY <1>1, <1>3, <2>2, ExcusedMore DEF RequestInv, WillBeFound, Finds
  <2>8. Repeated(r)'
    <3>1. \A u \in Uploads : Repeats(r, u)' => Repeats(r, u)
      BY <1>1 DEF RowsInv, Repeats
    <3> QED BY <1>3, <3>1, ExcusedMore DEF RequestInv, Repeated
  <2> QED BY <2>1, <2>4, <2>5, <2>6, <2>7, <2>8 DEF RequestInv
<1>4. ASSUME UploadsInv PROVE UploadsInv'
  <2>1. \A u \in Uploads : upload[u].stage = "live" =>
           upload[u].session \in Sessions /\ session'[upload[u].session] = session[upload[u].session]
    BY <1>1 DEF RowsInv
  <2>2. \A u \in Uploads : IsCovered(u)' /\ IsFound(u)'
    BY <1>4, <2>1, ExcusedMore DEF UploadsInv, IsCovered, IsFound, Finds, More, Covers
  <2>3. \A u, v \in Uploads : Pair(u, v)'
    BY <1>4, <2>1, ExcusedMore DEF UploadsInv, Pair
  <2> QED BY <2>2, <2>3 DEF UploadsInv
<1> QED BY <1>3, <1>4

\* A session is given another window: a wider one, or its boat is disturbed.
Wider(old, new) ==
    /\ \A w \in Windows : Covers(old, w) => Covers(new, w)
    /\ \A w \in Windows : Near(old, w) => Near(new, w)

LEMMA WindowChanges ==
    ASSUME TypeOK, RowsInv, More, UNCHANGED <<activity, upload>>,
           NEW s \in Sessions, session[s].stage = "live",
           NEW row \in SessionRow, row.stage = "live", row.boat = session[s].boat, row.act = session[s].act,
           session' = [session EXCEPT ![s] = row],
           Wider(session[s], row) \/ row.boat \in disturbed'
    PROVE  /\ \A r \in Request : RequestInv(r) /\ (row.boat \in Works(r) => row.boat \in disturbed')
                                    => RequestInv(r)'
           /\ UploadsInv => UploadsInv'
<1>1. session'[s] = row /\ \A t \in Sessions : t # s => session'[t] = session[t]
  BY DEF TypeOK
<1>2. /\ Ages
      /\ \A t \in Sessions : session'[t].stage = session[t].stage /\ session'[t].boat = session[t].boat
                             /\ session'[t].act = session[t].act
  BY <1>1 DEF Ages
<1>3. ASSUME NEW r \in Request, RequestInv(r), row.boat \in Works(r) => row.boat \in disturbed'
      PROVE  RequestInv(r)'
  <2>1. HandlerOK(r) /\ HandlerOK(r)'
    BY <1>2, <1>3, AgesOK DEF RequestInv
  <2>2. /\ r.pc \in Uploading => Works(r) = {r.boat} /\ r.win \in Windows
        /\ r.pc \in {"widen", "key", "insert"} =>
             r.sid \in Sessions /\ session[r.sid].stage # "unused"
             /\ (session[r.sid].stage = "live" => session[r.sid].boat = r.boat)
    BY <2>1 DEF HandlerOK, Uploading, Works, Touched, ByHand
  <2>3. TakenFrom(r)'
    <3>1. r.pc \in Attaching => r.sid \in Sessions /\ r.act \in Activities
      BY <2>1 DEF HandlerOK
    <3> QED BY <1>2, <1>3, <3>1 DEF RequestInv, TakenFrom, Attaching, More
  <2>4. WillCover(r)'
    <3> SUFFICES ASSUME r.pc \in {"key", "insert"}
                 PROVE  \/ r.boat \in disturbed' \/ session'[r.sid].stage = "gone"
                        \/ Covers(session'[r.sid], r.win)
      BY DEF WillCover, Covers
    <3>1. CASE r.sid = s
      BY <1>3, <2>2, <3>1 DEF Uploading
    <3>2. CASE r.sid # s
      BY <1>1, <1>3, <2>2, <3>2 DEF RequestInv, WillCover, More
    <3> QED BY <3>1, <3>2
  <2>5. OpensApart(r)'
    <3> SUFFICES ASSUME r.pc \in {"solo", "create"}, r.asked = None, r.race = None, r.boat \notin disturbed',
                        NEW t \in Sessions, session'[t].stage = "live", session'[t].boat = r.boat
                 PROVE  ~SameOuting(session'[t], r.win)
      BY DEF OpensApart, SameOuting
    <3>1. t # s
      BY <1>2, <1>3, <2>2 DEF Uploading
    <3> QED BY <1>1, <1>3, <3>1 DEF RequestInv, OpensApart, More
  <2>6. WillBeFound(r)'
    <3> SUFFICES ASSUME r.op = "device", r.pc \in {"widen", "key", "insert"}, session'[r.sid].stage = "live",
                        ~Excused(r.boat, r.win, r.asked)'
                 PROVE  Finds(session'[r.sid], r.win, r.asked)
      BY DEF WillBeFound, Finds, Near
    <3>1. r.sid # s
      BY <1>2, <1>3, <2>2 DEF Uploading, Excused
    <3>2. session'[r.sid] = session[r.sid] /\ ~Excused(r.boat, r.win, r.asked)
      BY <1>1, <2>2, <3>1, ExcusedMore
    <3> QED BY <1>3, <3>2 DEF RequestInv, WillBeFound
  <2>7. Repeated(r)'
    <3>1. \A u \in Uploads : Repeats(r, u)' => Repeats(r, u)
      BY <1>2 DEF RowsInv, Repeats
    <3> QED BY <1>3, <3>1, ExcusedMore DEF RequestInv, Repeated
  <2> QED BY <2>1, <2>3, <2>4, <2>5, <2>6, <2>7 DEF RequestInv
<1>4. ASSUME UploadsInv PROVE UploadsInv'
  <2>1. ASSUME NEW u \in Uploads, upload[u].stage = "live"
        PROVE  /\ upload[u].session \in Sessions /\ upload[u].win \in Windows
               /\ session'[upload[u].session].boat = session[upload[u].session].boat
               /\ session'[upload[u].session].act = session[upload[u].session].act
               /\ \/ session'[upload[u].session].boat \in disturbed'
                  \/ /\ Covers(session[upload[u].session], upload[u].win)
                           => Covers(session'[upload[u].session], upload[u].win)
                     /\ Near(session[upload[u].session], upload[u].win)
                           => Near(session'[upload[u].session], upload[u].win)
    <3>1. upload[u].session \in Sessions /\ upload[u].win \in Windows
      BY <2>1 DEF RowsInv
    <3>2. CASE upload[u].session = s
      BY <1>1, <3>1, <3>2 DEF Wider
    <3>3. CASE upload[u].session # s
      BY <1>1, <3>1, <3>3
    <3> QED BY <1>2, <3>1, <3>2, <3>3
  <2>2. ASSUME NEW u \in Uploads PROVE IsCovered(u)'
    <3> SUFFICES ASSUME upload[u].stage = "live", session'[upload[u].session].boat \notin disturbed'
                 PROVE  Covers(session'[upload[u].session], upload[u].win)
      BY DEF IsCovered, Covers
    <3> QED BY <1>4, <2>1 DEF UploadsInv, IsCovered, More
  <2>3. ASSUME NEW u \in Uploads PROVE IsFound(u)'
    <3> SUFFICES ASSUME upload[u].stage = "live", upload[u].key # None,
                        ~Excused(session[upload[u].session].boat, upload[u].win, upload[u].asked)'
                 PROVE  Finds(session'[upload[u].session], upload[u].win, upload[u].asked)
      BY DEF IsFound, Finds, Near
    <3>1. /\ ~Excused(session[upload[u].session].boat, upload[u].win, upload[u].asked)
          /\ session'[upload[u].session].boat \notin disturbed'
      BY <2>1, ExcusedMore DEF Excused
    <3> QED BY <1>4, <2>1, <3>1 DEF UploadsInv, IsFound, Finds
  <2>4. \A u, v \in Uploads : Pair(u, v)'
    BY <1>4, <2>1, ExcusedMore DEF UploadsInv, Pair
  <2> QED BY <2>2, <2>3, <2>4 DEF UploadsInv
<1> QED BY <1>3, <1>4

\* A session is moved: what asked for it under its old activity is excused.
LEMMA Moves ==
    ASSUME TypeOK, RowsInv, More, UNCHANGED <<activity, upload>>,
           NEW s \in Sessions, session[s].stage = "live", NEW row \in SessionRow,
           row.stage = "live", row.boat = session[s].boat,
           row.boat \in disturbed' \/ (row.from = session[s].from /\ row.to = session[s].to),
           session' = [session EXCEPT ![s] = row],
           Moved({s}) \subseteq ambiguous'
    PROVE  /\ \A r \in Request : RequestInv(r) /\ (r.op = "attach" => Boats \subseteq disturbed')
                                    => RequestInv(r)'
           /\ UploadsInv => UploadsInv'
<1>1. /\ \A t \in Sessions : session'[t].stage = session[t].stage /\ session'[t].boat = session[t].boat
                             /\ \/ session'[t].boat \in disturbed'
                                \/ session'[t].from = session[t].from /\ session'[t].to = session[t].to
      /\ \A t \in Sessions : t # s => session'[t] = session[t]
  BY DEF TypeOK, SessionRow
<1>2. Ages
  BY <1>1 DEF Ages
<1>3. \A w \in Windows, x \in Maybe(Activities) : <<session[s].boat, w, x>> \in ambiguous'
  BY DEF Moved
<1>4. \A w : \A t \in Sessions : session'[t].boat \notin disturbed' =>
         /\ Covers(session'[t], w) <=> Covers(session[t], w)
         /\ Near(session'[t], w) <=> Near(session[t], w)
         /\ SameOuting(session'[t], w) <=> SameOuting(session[t], w)
  BY <1>1 DEF Covers, Near, SameOuting, End
<1>5. ASSUME NEW r \in Request, RequestInv(r), r.op = "attach" => Boats \subseteq disturbed'
      PROVE  RequestInv(r)'
  <2>1. HandlerOK(r) /\ HandlerOK(r)'
    BY <1>2, <1>5, AgesOK DEF RequestInv
  <2>2. r.pc \in {"widen", "key", "insert"} =>
             r.sid \in Sessions /\ r.win \in Windows /\ r.asked \in Maybe(Activities)
             /\ (session[r.sid].stage = "live" => session[r.sid].boat = r.boat)
    BY <2>1 DEF HandlerOK, Uploading, Request
  <2>3. TakenFrom(r)'
    <3>1. r.pc \in Attaching => Boats \subseteq disturbed' /\ \A t \in Sessions :
                                   session'[t].stage = "live" => session'[t].boat \in Boats
      BY <1>1, <1>5, <2>1 DEF HandlerOK, RowsInv
    <3> QED BY <3>1 DEF TakenFrom, Attaching
  <2>4. WillCover(r)'
    BY <1>1, <1>4, <1>5, <2>2 DEF RequestInv, WillCover, More
  <2>5. OpensApart(r)'
    BY <1>1, <1>4, <1>5 DEF RequestInv, OpensApart, More
  <2>6. WillBeFound(r)'
    <3> SUFFICES ASSUME r.op = "device", r.pc \in {"widen", "key", "insert"}, session'[r.sid].stage = "live",
                        ~Excused(r.boat, r.win, r.asked)'
                 PROVE  Finds(session'[r.sid], r.win, r.asked)
      BY DEF WillBeFound, Finds, Near
    <3>1. r.sid # s
      BY <1>1, <1>3, <2>2 DEF Excused
    <3>2. session'[r.sid] = session[r.sid] /\ ~Excused(r.boat, r.win, r.asked)
      BY <1>1, <2>2, <3>1, ExcusedMore
    <3> QED BY <1>5, <3>2 DEF RequestInv, WillBeFound
  <2>7. Repeated(r)'
    <3>1. \A u \in Uploads : Repeats(r, u)' => Repeats(r, u)
      BY <1>1 DEF RowsInv, Repeats
    <3> QED BY <1>5, <3>1, ExcusedMore DEF RequestInv, Repeated
  <2> QED BY <2>1, <2>3, <2>4, <2>5, <2>6, <2>7 DEF RequestInv
<1>6. ASSUME UploadsInv PROVE UploadsInv'
  <2>1. \A u \in Uploads : upload[u].stage = "live" =>
           /\ upload[u].session \in Sessions /\ upload[u].win \in Windows
           /\ upload[u].asked \in Maybe(Activities)
           /\ session'[upload[u].session].boat = session[upload[u].session].boat
    BY <1>1 DEF RowsInv, TypeOK, UploadRow
  <2>2. ASSUME NEW u \in Uploads PROVE IsCovered(u)'
    BY <1>4, <1>6, <2>1 DEF UploadsInv, IsCovered, More
  <2>3. ASSUME NEW u \in Uploads PROVE IsFound(u)'
    <3> SUFFICES ASSUME upload[u].stage = "live", upload[u].key # None,
                        ~Excused(session[upload[u].session].boat, upload[u].win, upload[u].asked)'
                 PROVE  Finds(session'[upload[u].session], upload[u].win, upload[u].asked)
      BY DEF IsFound, Finds, Near
    <3>1. ~Excused(session[upload[u].session].boat, upload[u].win, upload[u].asked)
      BY <2>1, ExcusedMore
    <3>2. upload[u].session # s
      BY <1>3, <2>1 DEF Excused
    <3> QED BY <1>1, <1>6, <2>1, <3>1, <3>2 DEF UploadsInv, IsFound
  <2>4. \A u, v \in Uploads : Pair(u, v)'
    BY <1>6, <2>1, ExcusedMore DEF UploadsInv, Pair
  <2> QED BY <2>2, <2>3, <2>4 DEF UploadsInv
<1> QED BY <1>5, <1>6

\* Sessions go, with their uploads.
LEMMA Drops ==
    ASSUME TypeOK, RowsInv, More, NEW S \in SUBSET Sessions, \A s \in S : session[s].stage = "live",
           DropSessions(S),
           \A a \in Activities : activity[a].stage # "unused" => activity'[a].stage \in {activity[a].stage, "gone"}
    PROVE  /\ \A r \in Request :
                RequestInv(r) /\ (r.op = "attach" /\ session[r.sid].act = r.act /\ r.sid \in S =>
                                     Boats \subseteq disturbed' \/ activity'[r.act].stage = "gone")
                   => RequestInv(r)'
           /\ UploadsInv => UploadsInv'
           /\ session' \in [Sessions -> SessionRow] /\ upload' \in [Uploads -> UploadRow]
           /\ \A s \in Sessions : session'[s].stage = "live" <=> session[s].stage = "live" /\ s \notin S
           /\ \A s \in Sessions : session'[s].stage = "live" => session'[s] = session[s]
           /\ \A u \in Uploads : upload'[u].stage = "live" =>
                upload'[u] = upload[u] /\ session'[upload[u].session] = session[upload[u].session]
                /\ upload[u].session \in Sessions /\ upload[u].session \notin S
<1>1. /\ session' \in [Sessions -> SessionRow] /\ upload' \in [Uploads -> UploadRow]
      /\ \A s \in Sessions : session'[s] = IF s \in S THEN [NoSession EXCEPT !.stage = "gone"] ELSE session[s]
      /\ \A u \in Uploads : upload'[u] = IF upload[u].session \in S
                                         THEN [NoUpload EXCEPT !.stage = "gone"] ELSE upload[u]
  <2>1. [NoSession EXCEPT !.stage = "gone"] \in SessionRow /\ [NoUpload EXCEPT !.stage = "gone"] \in UploadRow
    BY DEF NoSession, NoUpload, SessionRow, UploadRow, Stage, Maybe
  <2> QED BY <2>1 DEF DropSessions, TypeOK
<1>2. [NoSession EXCEPT !.stage = "gone"].stage = "gone" /\ [NoUpload EXCEPT !.stage = "gone"].stage = "gone"
  BY DEF NoSession, NoUpload
<1>3. /\ \A s \in Sessions : session'[s].stage = "live" <=> session[s].stage = "live" /\ s \notin S
      /\ \A s \in Sessions : session'[s].stage = "live" => session'[s] = session[s]
      /\ \A s \in Sessions : session'[s] = session[s] \/ (s \in S /\ session'[s].stage = "gone")
  BY <1>1, <1>2
<1>4. \A u \in Uploads : upload'[u].stage = "live" =>
         /\ upload[u].stage = "live" /\ upload'[u] = upload[u]
         /\ session'[upload[u].session] = session[upload[u].session]
         /\ upload[u].session \in Sessions /\ upload[u].session \notin S
  BY <1>1, <1>2 DEF RowsInv
<1>5. Ages
  BY <1>3 DEF Ages
<1>6. ASSUME NEW r \in Request, RequestInv(r),
             r.op = "attach" /\ session[r.sid].act = r.act /\ r.sid \in S =>
                Boats \subseteq disturbed' \/ activity'[r.act].stage = "gone"
      PROVE  RequestInv(r)'
  <2>1. HandlerOK(r) /\ HandlerOK(r)'
    BY <1>5, <1>6, AgesOK DEF RequestInv
  <2>2. r.pc \in {"widen", "key", "insert"} \cup Attaching => r.sid \in Sessions
    BY <2>1 DEF HandlerOK
  <2>3. TakenFrom(r)'
    <3> DEFINE others == {s \in Sessions : session[s].stage = "live" /\ session[s].act = r.act
                                           /\ session[s].boat \notin disturbed}
    <3>1. others' \subseteq others
      BY <1>3 DEF More
    <3>2. r.pc = "count" => \/ activity'[r.act].stage = "gone" \/ Boats \subseteq disturbed'
                            \/ session'[r.sid].stage = "live" /\ session'[r.sid].act = r.act
      <4>1. r.pc = "count" => r.op = "attach" /\ r.act \in Activities /\ r.sid \in Sessions
        BY <2>1 DEF HandlerOK, Attaching
      <4> SUFFICES ASSUME r.pc = "count"
                   PROVE  \/ activity'[r.act].stage = "gone" \/ Boats \subseteq disturbed'
                          \/ session'[r.sid].stage = "live" /\ session'[r.sid].act = r.act
        OBVIOUS
      <4>2. \/ activity[r.act].stage = "gone" \/ Boats \subseteq disturbed
            \/ session[r.sid].stage = "live" /\ session[r.sid].act = r.act
        BY <1>6 DEF RequestInv, TakenFrom
      <4>3. CASE activity[r.act].stage = "gone"
        BY <4>1, <4>3
      <4>4. CASE Boats \subseteq disturbed
        BY <4>4 DEF More
      <4>5. CASE session[r.sid].stage = "live" /\ session[r.sid].act = r.act
        <5>1. CASE r.sid \in S
          BY <1>6, <4>1, <4>5, <5>1
        <5>2. CASE r.sid \notin S
          BY <1>3, <4>1, <4>5, <5>2
        <5> QED BY <5>1, <5>2
      <4> QED BY <4>2, <4>3, <4>4, <4>5
    <3>3. r.pc = "target" => others \subseteq {r.sid}
      BY <1>6 DEF RequestInv, TakenFrom
    <3>4. r.pc = "drop" => r.asked = r.act \/ others = {}
      BY <1>6 DEF RequestInv, TakenFrom
    <3> QED BY <3>1, <3>2, <3>3, <3>4 DEF TakenFrom
  <2>4. WillCover(r)'
    BY <1>3, <1>6, <2>2 DEF RequestInv, WillCover, More, Covers
  <2>5. OpensApart(r)'
    BY <1>3, <1>6 DEF RequestInv, OpensApart, More, SameOuting
  <2>6. WillBeFound(r)'
    BY <1>3, <1>6, <2>2, ExcusedMore DEF RequestInv, WillBeFound, Finds
  <2>7. Repeated(r)'
    <3>1. \A u \in Uploads : Repeats(r, u)' => Repeats(r, u) /\ upload'[u] = upload[u]
      BY <1>4 DEF Repeats
    <3> QED BY <1>6, <3>1, ExcusedMore DEF RequestInv, Repeated
  <2> QED BY <2>1, <2>3, <2>4, <2>5, <2>6, <2>7 DEF RequestInv
<1>7. ASSUME UploadsInv PROVE UploadsInv'
  <2>1. \A u \in Uploads : IsCovered(u)' /\ IsFound(u)'
    BY <1>4, <1>7, ExcusedMore DEF UploadsInv, IsCovered, IsFound, Finds, More, Covers
  <2>2. \A u, v \in Uploads : Pair(u, v)'
    BY <1>4, <1>7, ExcusedMore DEF UploadsInv, Pair
  <2> QED BY <2>1, <2>2 DEF UploadsInv
<1> QED BY <1>1, <1>3, <1>4, <1>6, <1>7

-----------------------------------------------------------------------------
(* Requests begin, and look.                                               *)

LEMMA Begins ==
    ASSUME IInv, NEW h \in Handlers, NEW r \in Request, Begin(h, r), r.boat \in Maybe(Boats), RequestInv(r)'
    PROVE  IInv'
<1>1. /\ Turns(h, r) /\ UNCHANGED data /\ UNCHANGED ambiguous /\ handler[h].pc = "idle"
      /\ requests < MaxRequests /\ requests' = requests + 1
      /\ disturbed' = disturbed \cup (Touched(r) \cap Busy)
  BY DEF Begin, Turns
<1>2. TypeOK /\ RowsInv /\ AloneInv /\ RequestsInv /\ UploadsInv /\ More
  BY <1>1 DEF IInv, More
<1>3. \A g \in Handlers : handler[g] \in Request
  BY <1>2, HandlerType
<1>4. \A g \in Handlers : Works(handler[g]) \subseteq Boats \cup {None}
  BY <1>2, <1>3 DEF Works, Touched, Request, Maybe
<1>5. \A g \in Handlers : Works(handler[g]) \subseteq Busy
  BY DEF Works, Busy
<1>6. Busy \subseteq Boats
  <2>1. ASSUME NEW g \in Handlers, handler[g].pc # "idle" PROVE Touched(handler[g]) \subseteq Boats
    <3>1. HandlerOK(handler[g])
      BY <1>2 DEF RequestsInv, RequestInv
    <3>2. handler[g] \in Request
      BY <1>3
    <3>3. ByHand(handler[g].op) \/ handler[g].boat \in Boats
      BY <2>1, <3>1, <3>2 DEF HandlerOK, ByHand, Request, Uploading, Attaching
    <3> QED BY <3>3 DEF Touched
  <2> QED BY <2>1 DEF Busy
<1>7. TypeOK'
  <2>1. disturbed' \subseteq Boats /\ requests' \in 0..MaxRequests
    BY <1>1, <1>2, <1>6, Ids DEF TypeOK
  <2>2. handler' \in [Handlers -> Request]
    BY <1>1, <1>2, HandlerSet DEF Turns
  <2> QED BY <1>1, <1>2, <2>1, <2>2 DEF TypeOK, data
<1>8. RowsInv'
  BY <1>1, <1>2 DEF RowsInv, data
<1>9. AloneInv'
  <2>1. \A g \in Handlers : handler'[g] = IF g = h THEN r ELSE handler[g]
    BY <1>1, <1>2 DEF Turns, TypeOK
  <2>2. ASSUME NEW g \in Handlers, g # h
        PROVE  Works(r) \cap Works(handler[g]) \subseteq disturbed'
    BY <1>1, <1>5 DEF Works
  <2> QED BY <1>1, <1>2, <2>1, <2>2 DEF AloneInv
<1>10. /\ \A q \in Request : RequestInv(q) => RequestInv(q)'
       /\ UploadsInv'
  BY <1>1, <1>2, ActivitiesChange DEF data
<1>11. \A g \in Handlers \ {h} : \A q : q = handler[g] => RequestInv(q)'
  BY <1>2, <1>3, <1>10 DEF RequestsInv
<1> QED BY <1>1, <1>2, <1>7, <1>8, <1>9, <1>10, <1>11, Together

\* A step that changes no session and no upload.
LEMMA Turned ==
    ASSUME IInv, NEW h \in Handlers, NEW r \in Request, Turns(h, r),
           UNCHANGED <<session, upload, requests, disturbed>>,
           ambiguous \subseteq ambiguous', ambiguous' \subseteq Boats \X Windows \X Maybe(Activities),
           activity' \in [Activities -> ActivityRow],
           \A a \in Activities : activity[a].stage # "unused" => activity'[a].stage = activity[a].stage,
           \A a \in Activities : activity'[a].race # None => activity'[a].from \in Int /\ activity'[a].to \in Int,
           r.pc = "idle" \/ (handler[h].pc # "idle" /\ r.op = handler[h].op /\ r.boat = handler[h].boat),
           RequestInv(r)'
    PROVE  IInv'
<1>1. TypeOK /\ RowsInv /\ AloneInv /\ RequestsInv /\ UploadsInv /\ More
  BY DEF IInv, More
<1>2. TypeOK'
  <2>1. handler' \in [Handlers -> Request]
    BY <1>1, HandlerSet DEF Turns
  <2> QED BY <1>1, <2>1 DEF TypeOK
<1>3. RowsInv'
  BY <1>1 DEF RowsInv
<1>4. AloneInv'
  BY AloneKept
<1>5. (\A q \in Request : RequestInv(q) => RequestInv(q)') /\ UploadsInv'
  BY <1>1, ActivitiesChange
<1>6. \A g \in Handlers \ {h} : \A q : q = handler[g] => RequestInv(q)'
  BY <1>1, <1>5, HandlerType DEF RequestsInv
<1> QED BY <1>1, <1>2, <1>3, <1>4, <1>5, <1>6, Together

\* ... nor an activity.
LEMMA Looked ==
    ASSUME IInv, NEW h \in Handlers, NEW r \in Request, Turns(h, r), UNCHANGED <<data, history>>,
           r.pc = "idle" \/ (handler[h].pc # "idle" /\ r.op = handler[h].op /\ r.boat = handler[h].boat),
           RequestInv(r)'
    PROVE  IInv'
<1>1. UNCHANGED <<session, upload, activity, requests, disturbed, ambiguous>>
  BY DEF data, history
<1>2. activity \in [Activities -> ActivityRow] /\ ambiguous \subseteq Boats \X Windows \X Maybe(Activities)
      /\ \A a \in Activities : activity[a].race # None => activity[a].from \in Int /\ activity[a].to \in Int
  BY DEF IInv, TypeOK, RowsInv
<1> QED BY <1>1, <1>2, Turned

LEMMA DoneKeeps == ASSUME IInv, NEW h \in Handlers, Done(h), UNCHANGED <<data, history>> PROVE IInv'
<1>1. Turns(h, Idle)
  BY DEF Done, Turns
<1> QED BY <1>1, IdleType, IdleOK, Looked

\* A request that only looks, or has just begun, promises nothing yet.
LEMMA NoPromise ==
    ASSUME NEW r, r.pc \in {"race", "newRace", "bind", "list", "find", "overlaps", "move"}
    PROVE  TakenFrom(r)' /\ WillCover(r)' /\ OpensApart(r)' /\ WillBeFound(r)' /\ Repeated(r)'
<1>1. TakenFrom(r)' /\ WillCover(r)' /\ OpensApart(r)' /\ WillBeFound(r)'
  BY DEF TakenFrom, WillCover, OpensApart, WillBeFound
<1>2. Repeated(r)'
  BY DEF Repeated
<1> QED BY <1>1, <1>2

LEMMA UploadBegins ==
    ASSUME IInv, NEW h \in Handlers, NEW r \in Request, Begin(h, r), r.boat \in Boats, r.win \in Windows,
           r.asked \in Maybe(Known(activity)), r.act = r.asked,
           r.pc = IF r.asked = None THEN "find" ELSE "bind",
           (r.op = "device" /\ r.key \in Keys) \/ (r.op = "import" /\ r.key = None), r.race = None
    PROVE  IInv'
<1>1. UNCHANGED data /\ TypeOK
  BY DEF Begin, IInv
<1>2. r.asked \in Maybe(Activities) /\ (r.asked # None => r.asked \in Activities /\ activity'[r.asked].stage # "unused")
  BY <1>1, StoredIs DEF Maybe, data
<1>4. HandlerOK(r)'
  BY <1>2 DEF HandlerOK, Uploading, Attaching
<1>5. RequestInv(r)'
  BY <1>4, NoPromise DEF RequestInv
<1> QED BY <1>5, Begins DEF Maybe

LEMMA DeviceUploads ==
    ASSUME IInv, NEW h \in Handlers, NEW b \in Boats, NEW w \in Windows, NEW k \in Keys,
           NEW a \in Maybe(Known(activity)), DeviceUpload(h, b, w, k, a)
    PROVE  IInv'
<1> DEFINE r == [Idle EXCEPT !.op = "device", !.boat = b, !.win = w, !.key = k, !.asked = a,
                   !.act = a, !.pc = IF a = None THEN "find" ELSE "bind"]
<1>1. Begin(h, r)
  BY DEF DeviceUpload
<1>2. /\ r.pc = IF a = None THEN "find" ELSE "bind"
      /\ r.op = "device" /\ r.boat = b /\ r.win = w /\ r.key = k /\ r.race = None
      /\ r.asked = a /\ r.act = a
  BY DEF Idle
<1>3. r \in Request
  <2>1. w \in Maybe([from : Int, to : Maybe(Int)])
    BY WindowType DEF Maybe
  <2>2. a \in Maybe(Activities)
    BY StoredIs DEF Maybe, IInv
  <2> QED BY <2>1, <2>2 DEF Request, Idle, Maybe
<1> HIDE DEF r
<1> QED BY <1>1, <1>2, <1>3, UploadBegins

LEMMA Imports ==
    ASSUME IInv, NEW h \in Handlers, NEW b \in Boats, NEW w \in Windows,
           NEW a \in Maybe(Known(activity)), Import(h, b, w, a)
    PROVE  IInv'
<1> DEFINE r == [Idle EXCEPT !.op = "import", !.boat = b, !.win = w, !.asked = a, !.act = a,
                   !.pc = IF a = None THEN "find" ELSE "bind"]
<1>1. Begin(h, r)
  BY DEF Import
<1>2. /\ r.pc = IF a = None THEN "find" ELSE "bind"
      /\ r.op = "import" /\ r.boat = b /\ r.win = w /\ r.key = None /\ r.race = None
      /\ r.asked = a /\ r.act = a
  BY DEF Idle
<1>3. r \in Request
  <2>1. w \in Maybe([from : Int, to : Maybe(Int)])
    BY WindowType DEF Maybe
  <2>2. a \in Maybe(Activities)
    BY StoredIs DEF Maybe, IInv
  <2> QED BY <2>1, <2>2 DEF Request, Idle, Maybe
<1> HIDE DEF r
<1> QED BY <1>1, <1>2, <1>3, UploadBegins

LEMMA ImportsInto ==
    ASSUME IInv, NEW h \in Handlers, NEW s \in Sessions, NEW w \in Windows, ImportInto(h, s, w)
    PROVE  IInv'
<1>0. PICK r : r = [Idle EXCEPT !.op = "import", !.boat = session[s].boat, !.win = w, !.sid = s,
                       !.pc = "widen"]
  OBVIOUS
<1>1. Begin(h, r) /\ session[s].stage = "live" /\ UNCHANGED data
  BY <1>0, StoredIs DEF ImportInto, Begin, IInv
<1>2. session[s].boat \in Boats
  BY <1>1 DEF IInv, RowsInv
<1>3. /\ r.pc = "widen" /\ r.op = "import" /\ r.boat = session[s].boat /\ r.win = w /\ r.key = None
      /\ r.race = None /\ r.asked = None /\ r.sid = s
  BY <1>0 DEF Idle
<1>4. r \in Request
  <2>1. w \in Maybe([from : Int, to : Maybe(Int)])
    BY WindowType DEF Maybe
  <2> QED BY <1>0, <1>2, <2>1 DEF Request, Idle, Maybe
<1>5. HandlerOK(r)'
  BY <1>1, <1>2, <1>3 DEF HandlerOK, Uploading, Attaching, data
<1>6. TakenFrom(r)' /\ WillCover(r)' /\ OpensApart(r)' /\ WillBeFound(r)' /\ Repeated(r)'
  BY <1>3 DEF TakenFrom, WillCover, OpensApart, WillBeFound, Repeated
<1> QED BY <1>1, <1>2, <1>3, <1>4, <1>5, <1>6, Begins DEF RequestInv, Maybe

LEMMA RaceAsks ==
    ASSUME IInv, NEW h \in Handlers, NEW e \in Races,
           MatchSessions(h, e) \/ \E b \in Boats, w \in Windows : RaceGpx(h, e, b, w)
    PROVE  IInv'
<1>1. CASE MatchSessions(h, e)
  <2> DEFINE r == [Idle EXCEPT !.op = "match", !.race = e, !.pc = "race"]
  <2>1. Begin(h, r)
    BY <1>1 DEF MatchSessions
  <2>2. /\ r.pc = "race" /\ r.op = "match" /\ r.boat = None /\ r.key = None /\ r.race = e
        /\ r \in Request
    BY DEF Idle, Request, Maybe
  <2> HIDE DEF r
  <2>3. HandlerOK(r)'
    BY <2>2 DEF HandlerOK, Uploading, Attaching
  <2>4. RequestInv(r)'
    BY <2>2, <2>3, NoPromise DEF RequestInv
  <2> QED BY <2>1, <2>2, <2>4, Begins DEF Maybe
<1>2. ASSUME NEW b \in Boats, NEW w \in Windows, RaceGpx(h, e, b, w) PROVE IInv'
  <2> DEFINE r == [Idle EXCEPT !.op = "gpx", !.race = e, !.boat = b, !.win = w, !.pc = "race"]
  <2>1. Begin(h, r)
    BY <1>2 DEF RaceGpx
  <2>2. /\ r.pc = "race" /\ r.op = "gpx" /\ r.boat = b /\ r.win = w /\ r.key = None /\ r.race = e
    BY DEF Idle
  <2>3. r \in Request
    <3>1. w \in Maybe([from : Int, to : Maybe(Int)])
      BY WindowType DEF Maybe
    <3> QED BY <3>1 DEF Request, Idle, Maybe
  <2> HIDE DEF r
  <2>4. HandlerOK(r)'
    BY <2>2 DEF HandlerOK, Uploading, Attaching
  <2>5. RequestInv(r)'
    BY <2>2, <2>4, NoPromise DEF RequestInv
  <2> QED BY <2>1, <2>2, <2>3, <2>5, Begins DEF Maybe
<1> QED BY <1>1, <1>2

LEMMA Attaches ==
    ASSUME IInv, NEW h \in Handlers, NEW s \in Sessions, NEW a \in Known(activity), Attach(h, s, a)
    PROVE  IInv'
<1>0. PICK r : r = [Idle EXCEPT !.op = "attach", !.sid = s, !.asked = a, !.act = session[s].act,
                       !.pc = "count"]
  OBVIOUS
<1>1. Begin(h, r) /\ session[s].stage = "live" /\ UNCHANGED data
  BY <1>0, StoredIs DEF Attach, Begin, IInv
<1>2. /\ session[s].act \in Activities /\ activity[session[s].act].stage = "live"
      /\ a \in Activities /\ activity[a].stage # "unused"
  BY <1>1, StoredIs DEF IInv, RowsInv
<1>3. /\ r.pc = "count" /\ r.op = "attach" /\ r.boat = None /\ r.key = None /\ r.sid = s
      /\ r.asked = a /\ r.act = session[s].act
  BY <1>0 DEF Idle
<1>4. r \in Request
  BY <1>0, <1>2 DEF Request, Idle, Maybe
<1>5. HandlerOK(r)'
  BY <1>1, <1>2, <1>3 DEF HandlerOK, Uploading, Attaching, data
<1>6. TakenFrom(r)'
  BY <1>1, <1>3 DEF TakenFrom, data
<1>7. WillCover(r)' /\ OpensApart(r)' /\ WillBeFound(r)' /\ Repeated(r)'
  BY <1>3 DEF WillCover, OpensApart, WillBeFound, Repeated
<1> QED BY <1>1, <1>3, <1>4, <1>5, <1>6, <1>7, Begins DEF RequestInv, Maybe

LEMMA Asks == ASSUME IInv, NEW h \in Handlers, Ask(h) PROVE IInv'
<1>1. ASSUME NEW b \in Boats, NEW w \in Windows, NEW a \in Maybe(Known(activity)),
             (\E k \in Keys : DeviceUpload(h, b, w, k, a)) \/ Import(h, b, w, a)
      PROVE  IInv'
  BY <1>1, DeviceUploads, Imports
<1> QED BY <1>1, ImportsInto, RaceAsks, Attaches DEF Ask

\* The races' activities.
LEMMA AtRace ==
    ASSUME IInv, NEW h \in Handlers, handler[h].pc \in {"race", "newRace"}, NEW a \in Activities,
           activity'[a].stage # "unused", NEW f \in Int, NEW t \in Int,
           Turns(h, WithRace(handler[h], a, f, t))
    PROVE  \E r \in Request : /\ Turns(h, r) /\ r.op = handler[h].op /\ r.boat = handler[h].boat
                              /\ RequestInv(r)'
<1>1. PICK q : q = handler[h]
  OBVIOUS
<1>2. q \in Request /\ HandlerOK(q)
  BY <1>1, HandlerType DEF IInv, RequestsInv, RequestInv
<1>3. q.race \in Races /\ (q.op = "match" \/ (q.op = "gpx" /\ q.boat \in Boats /\ q.win \in Windows)) /\ q.key = None
  BY <1>1, <1>2 DEF HandlerOK
<1>4. CASE q.op = "match"
  <2> DEFINE r == [q EXCEPT !.act = a, !.win = [from |-> f, to |-> t], !.pc = "overlaps"]
  <2>1. r.pc = "overlaps" /\ r.op = "match" /\ r.boat = q.boat /\ r.act = a /\ r.key = None
    BY <1>2, <1>3, <1>4 DEF Request
  <2>2. r \in Request
    BY <1>2 DEF Request, Maybe
  <2>3. Turns(h, r)
    BY <1>1, <1>4 DEF WithRace
  <2> HIDE DEF r
  <2>4. HandlerOK(r)'
    BY <2>1 DEF HandlerOK, Uploading, Attaching
  <2>5. RequestInv(r)'
    BY <2>1, <2>4, NoPromise DEF RequestInv
  <2> QED BY <1>1, <1>4, <2>1, <2>2, <2>3, <2>5
<1>5. CASE q.op = "gpx"
  <2> DEFINE r == [q EXCEPT !.act = a, !.pc = "bind"]
  <2>1. /\ r.pc = "bind" /\ r.op = "gpx" /\ r.boat = q.boat /\ r.win = q.win /\ r.act = a /\ r.key = None
        /\ r.race = q.race
    BY <1>2, <1>3, <1>5 DEF Request
  <2>2. r \in Request
    BY <1>2 DEF Request, Maybe
  <2>3. Turns(h, r)
    BY <1>1, <1>5 DEF WithRace
  <2> HIDE DEF r
  <2>4. HandlerOK(r)'
    BY <1>3, <1>5, <2>1, Ids DEF HandlerOK, Uploading, Attaching
  <2>5. RequestInv(r)'
    BY <2>1, <2>4, NoPromise DEF RequestInv
  <2> QED BY <1>1, <1>5, <2>1, <2>2, <2>3, <2>5
<1> QED BY <1>3, <1>4, <1>5

LEMMA FindRaceActivityKeeps == ASSUME IInv, NEW h \in Handlers, FindRaceActivity(h) PROVE IInv'
<1>1. handler[h].pc = "race" /\ UNCHANGED <<data, history>> /\ TypeOK /\ RowsInv /\ HandlerOK(handler[h])
  BY DEF FindRaceActivity, IInv, RequestsInv, RequestInv
<1>2. handler[h].race \in Races
  BY <1>1 DEF HandlerOK
<1>3. CASE Goto(h, "newRace")
  <2>1. PICK r \in Request : Turns(h, r) /\ r.pc = "newRace" /\ Same(r, handler[h])
    BY <1>1, <1>3, GotoCase DEF Steps
  <2>2. HandlerOK(r)'
    BY <1>1, <2>1 DEF HandlerOK, Uploading, Attaching, Same
  <2>3. RequestInv(r)'
    BY <2>1, <2>2, NoPromise DEF RequestInv
  <2> QED BY <1>1, <2>1, <2>3, Looked DEF Same
<1>4. ASSUME NEW a \in Tracking(handler[h].race),
             handler' = [handler EXCEPT ![h] = WithRace(@, a, activity[a].from, activity[a].to)]
      PROVE  IInv'
  <2>1. a \in Activities /\ activity[a].stage = "live" /\ activity[a].race = handler[h].race
    BY <1>1, <1>4, StoredIs DEF Tracking
  <2>2. activity[a].from \in Int /\ activity[a].to \in Int /\ activity'[a].stage # "unused"
    BY <1>1, <1>2, <2>1, Ids DEF RowsInv, data
  <2>3. Turns(h, WithRace(handler[h], a, activity[a].from, activity[a].to))
    BY <1>4 DEF Turns
  <2>4. PICK r \in Request : /\ Turns(h, r) /\ r.op = handler[h].op /\ r.boat = handler[h].boat
                             /\ RequestInv(r)'
    BY <1>1, <2>1, <2>2, <2>3, AtRace
  <2> QED BY <1>1, <2>4, Looked
<1> QED BY <1>3, <1>4 DEF FindRaceActivity

LEMMA NewRaceActivityKeeps == ASSUME IInv, NEW h \in Handlers, NewRaceActivity(h) PROVE IInv'
<1> DEFINE w == RaceWindow[handler[h].race]
<1>1. handler[h].pc = "newRace" /\ TypeOK /\ RowsInv /\ HandlerOK(handler[h])
      /\ UNCHANGED <<session, upload, requests, disturbed, ambiguous>>
  BY DEF NewRaceActivity, IInv, RequestsInv, RequestInv, history
<1>2. handler[h].race \in Races /\ w.from \in Int /\ w.to \in Int
  <2>1. handler[h].race \in Races
    BY <1>1 DEF HandlerOK
  <2> QED BY <2>1, RegistryAssumption
<1> DEFINE row == [NoActivity EXCEPT !.stage = "live", !.type = "race",
                     !.race = handler[h].race, !.from = w.from, !.to = w.to]
<1>3. PICK a \in Fresh(activity) : /\ activity' = [activity EXCEPT ![a] = row]
                                   /\ Turns(h, WithRace(handler[h], a, w.from, w.to))
  BY DEF NewRaceActivity, Turns
<1>4. a \in Activities /\ activity[a].stage = "unused"
  BY <1>1, StoredIs
<1>5. row \in ActivityRow /\ row.stage = "live" /\ row.from = w.from /\ row.to = w.to
  BY <1>2 DEF NoActivity, ActivityRow, Stage, Maybe
<1> HIDE DEF row
<1>6. /\ activity' \in [Activities -> ActivityRow] /\ activity'[a] = row
      /\ \A b \in Activities : b # a => activity'[b] = activity[b]
  BY <1>1, <1>3, <1>4, <1>5 DEF TypeOK
<1>7. PICK r \in Request : /\ Turns(h, r) /\ r.op = handler[h].op /\ r.boat = handler[h].boat
                           /\ RequestInv(r)'
  BY <1>1, <1>2, <1>3, <1>4, <1>5, <1>6, AtRace
<1>8. /\ \A b \in Activities : activity[b].stage # "unused" => activity'[b].stage = activity[b].stage
      /\ \A b \in Activities : activity'[b].race # None => activity'[b].from \in Int /\ activity'[b].to \in Int
  BY <1>1, <1>2, <1>4, <1>5, <1>6 DEF RowsInv
<1>9. ambiguous \subseteq Boats \X Windows \X Maybe(Activities)
  BY <1>1 DEF TypeOK
<1> QED BY <1>1, <1>6, <1>7, <1>8, <1>9, Turned

-----------------------------------------------------------------------------
(* find_or_create_session.                                                 *)

LEMMA WidenedBounds ==
    ASSUME NEW f \in Int \cup {None}, NEW t \in Int \cup {None}, NEW w \in Windows
    PROVE  /\ Least(f, w.from) \in Int /\ Least(f, w.from) <= w.from
           /\ f # None => Least(f, w.from) <= f
           /\ Most(t, w.to) \in Int \cup {None}
           /\ t # None => Most(t, w.to) \in Int /\ Most(t, w.to) >= t
           /\ w.to # None => Most(t, w.to) \in Int /\ Most(t, w.to) >= w.to
           /\ t = None /\ w.to = None => Most(t, w.to) = None
BY WindowType, Ids DEF Least, Most

LEMMA BindKeeps == ASSUME IInv, NEW h \in Handlers, Bind(h) PROVE IInv'
<1> DEFINE a == handler[h].act
           w == handler[h].win
<1>1. handler[h].pc = "bind" /\ Goto(h, "list") /\ TypeOK /\ RowsInv /\ HandlerOK(handler[h])
      /\ UNCHANGED <<session, upload, requests, disturbed, ambiguous>>
  BY DEF Bind, IInv, RequestsInv, RequestInv, history
<1>2. PICK r \in Request : Turns(h, r) /\ r.pc = "list" /\ Same(r, handler[h]) /\ r.act = a
  BY <1>1, GotoCase DEF Steps
<1>3. a \in Activities /\ w \in Windows
  BY <1>1 DEF HandlerOK, Uploading
<1>4. /\ activity' \in [Activities -> ActivityRow]
      /\ \A b \in Activities : activity'[b].stage = activity[b].stage /\ activity'[b].race = activity[b].race
      /\ \A b \in Activities : activity[b].from \in Int /\ activity[b].to \in Int
                                  => activity'[b].from \in Int /\ activity'[b].to \in Int
  <2>0. activity \in [Activities -> ActivityRow]
    BY <1>1 DEF TypeOK
  <2>1. CASE activity[a].stage = "live"
    <3> DEFINE row == Widened(activity[a], w)
    <3>1. activity' = [activity EXCEPT ![a] = row]
      BY <2>1 DEF Bind
    <3>2. activity[a] \in ActivityRow /\ activity[a].from \in Int \cup {None} /\ activity[a].to \in Int \cup {None}
      BY <1>3, <2>0 DEF ActivityRow, Maybe
    <3>3. row \in ActivityRow /\ row.stage = activity[a].stage /\ row.race = activity[a].race
          /\ row.from = Least(activity[a].from, w.from) /\ row.to = Most(activity[a].to, w.to)
      BY <1>3, <3>2, WidenedBounds DEF ActivityRow, Widened, Maybe
    <3>4. activity[a].from \in Int /\ activity[a].to \in Int => row.from \in Int /\ row.to \in Int
      BY <1>3, <3>2, <3>3, WidenedBounds, Ids
    <3> HIDE DEF row
    <3> QED BY <1>3, <2>0, <3>1, <3>3, <3>4
  <2>2. CASE activity[a].stage # "live"
    BY <2>0, <2>2 DEF Bind
  <2> QED BY <2>1, <2>2
<1>5. HandlerOK(r)'
  BY <1>1, <1>2, <1>4 DEF HandlerOK, Uploading, Attaching, Same
<1>6. RequestInv(r)'
  BY <1>2, <1>5, NoPromise DEF RequestInv
<1>7. ambiguous \subseteq Boats \X Windows \X Maybe(Activities)
      /\ \A b \in Activities : activity'[b].race # None => activity'[b].from \in Int /\ activity'[b].to \in Int
  BY <1>1, <1>4 DEF TypeOK, RowsInv
<1> QED BY <1>1, <1>2, <1>4, <1>6, <1>7, Turned DEF Same

\* One candidate, or the request is recorded as ambiguous.
LEMMA OneOfOne ==
    ASSUME NEW S \in SUBSET Sessions, NEW s \in S, NEW t \in S, ~(Cardinality(S) > 1)
    PROVE  s = t
<1>1. IsFiniteSet(S)
  <2>1. MaxSessions \in Int
    BY RegistryAssumption
  <2>2. IsFiniteSet(1..MaxSessions)
    BY <2>1, FS_Interval
  <2> QED BY <2>2, FS_Subset DEF Sessions
<1>2. {s, t} \subseteq S /\ IsFiniteSet({s, t})
  BY <1>1, FS_Subset
<1>3. Cardinality({s, t}) <= Cardinality(S) /\ Cardinality(S) \in Nat /\ Cardinality({s, t}) \in Nat
  BY <1>1, <1>2, FS_Subset, FS_CardinalityType
<1>4. s # t => Cardinality({s, t}) = 2
  <2>1. IsFiniteSet({s}) /\ Cardinality({s}) = 1
    BY FS_Singleton
  <2>2. t \notin {s} => Cardinality({s} \cup {t}) = Cardinality({s}) + 1
    BY <2>1, FS_AddElement
  <2>3. {s} \cup {t} = {s, t}
    OBVIOUS
  <2> QED BY <2>1, <2>2, <2>3
<1> QED BY <1>3, <1>4

LEMMA Chooses ==
    ASSUME IInv, NEW h \in Handlers, NEW S \in SUBSET Sessions, NEW otherwise \in {"create", "solo"},
           handler[h].pc \in {"list", "find"}, Choose(h, S, otherwise),
           handler[h].pc = "find" => otherwise = "solo",
           \A s \in S : session[s].stage = "live" /\ session[s].boat = handler[h].boat,
           handler[h].pc = "list" => \A s \in Sessions :
              s \in S <=> session[s].stage = "live" /\ session[s].act = handler[h].act
                          /\ session[s].boat = handler[h].boat,
           handler[h].pc = "list" => otherwise = "create",
           handler[h].pc = "find" => S = NearSessions(handler[h].boat, handler[h].win)
    PROVE  IInv'
<1> DEFINE q == handler[h]
<1>1. /\ q \in Request /\ HandlerOK(q) /\ TypeOK /\ RowsInv /\ UploadsInv
      /\ UNCHANGED <<session, upload, activity, requests, disturbed>>
  BY HandlerType DEF IInv, RequestsInv, RequestInv, Choose, data
<1>2. q.op \in {"device", "import", "gpx"} /\ q.boat \in Boats /\ q.win \in Windows
      /\ q.asked \in Maybe(Activities)
  BY <1>1 DEF HandlerOK, Uploading, Request
<1>3. /\ ambiguous \subseteq ambiguous' /\ ambiguous' \subseteq Boats \X Windows \X Maybe(Activities)
      /\ Cardinality(S) > 1 => <<q.boat, q.win, q.asked>> \in ambiguous'
  <2>1. ambiguous' = IF Cardinality(S) > 1 THEN ambiguous \cup {<<q.boat, q.win, q.asked>>} ELSE ambiguous
    BY DEF Choose
  <2>2. ambiguous \subseteq Boats \X Windows \X Maybe(Activities)
    BY <1>1 DEF TypeOK
  <2>3. <<q.boat, q.win, q.asked>> \in Boats \X Windows \X Maybe(Activities)
    BY <1>2
  <2> HIDE DEF q
  <2> QED BY <2>1, <2>2, <2>3
\* Who repeats a request is in a session that is a candidate.
<1>4. ASSUME NEW u \in Uploads, q.op = "device", ~Excused(q.boat, q.win, q.asked), Repeats(q, u)
      PROVE  upload[u].session \in S
  <2> DEFINE s == upload[u].session
  <2>1. /\ s \in Sessions /\ session[s].stage = "live" /\ session[s].boat = q.boat
        /\ upload[u].win = q.win /\ upload[u].asked = q.asked /\ upload[u].key # None
    BY <1>1, <1>4, Ids DEF RowsInv, Repeats, HandlerOK
  <2>2. Finds(session[s], q.win, q.asked)
    BY <1>1, <1>4, <2>1 DEF UploadsInv, IsFound, Repeats
  <2>3. CASE q.pc = "list"
    <3>1. q.asked # None /\ q.act = q.asked
      BY <1>1, <1>4, <2>3 DEF HandlerOK
    <3> QED BY <2>1, <2>2, <2>3, <3>1 DEF Finds
  <2>4. CASE q.pc = "find"
    <3>1. q.asked = None
      BY <1>1, <2>4 DEF HandlerOK
    <3> QED BY <1>1, <2>1, <2>2, <2>4, <3>1, StoredIs DEF Finds, NearSessions
  <2> QED BY <2>3, <2>4
<1>5. CASE S = {} /\ Goto(h, otherwise)
  <2>1. PICK r \in Request : Turns(h, r) /\ r.pc = otherwise /\ Same(r, q) /\ r.act = q.act
    BY <1>1, <1>5, GotoCase DEF Steps
  <2>2. HandlerOK(r)'
    BY <1>1, <1>2, <2>1 DEF HandlerOK, Uploading, Attaching, Same
  <2>3. TakenFrom(r)' /\ WillCover(r)' /\ WillBeFound(r)'
    BY <2>1 DEF TakenFrom, WillCover, WillBeFound
  <2>4. OpensApart(r)'
    <3> SUFFICES ASSUME r.asked = None, r.race = None, NEW s \in Sessions, session[s].stage = "live",
                        session[s].boat = r.boat
                 PROVE  ~SameOuting(session[s], r.win)
      BY <1>1 DEF OpensApart, SameOuting
    <3>1. q.pc = "find"
      BY <1>1, <2>1 DEF HandlerOK, Same
    <3>2. ~Near(session[s], q.win)
      BY <1>1, <1>5, <2>1, <3>1, StoredIs DEF NearSessions, Same
    <3>3. session[s].from \in Int \cup {None} /\ session[s].to \in Int \cup {None}
      BY <1>1 DEF TypeOK, SessionRow, Maybe
    <3>4. session[s].from # None => End(session[s]) \in Int /\ session[s].from \in Int
      BY <3>3 DEF End
    <3>5. q.win.from \in Int /\ End(q.win) \in Int
      BY <1>2, WindowType
    <3> QED BY <2>1, <3>2, <3>4, <3>5, Ids DEF Near, SameOuting, Same
  <2>5. Repeated(r)'
    <3> SUFFICES ASSUME r.op = "device", ~Excused(r.boat, r.win, r.asked)', NEW u \in Uploads, Repeats(r, u)'
                 PROVE  FALSE
      BY DEF Repeated
    <3>1. ~Excused(q.boat, q.win, q.asked) /\ Repeats(q, u) /\ q.op = "device"
      BY <1>1, <1>3, <2>1 DEF Excused, Repeats, Same
    <3> QED BY <1>4, <1>5, <3>1
  <2>6. r.op = q.op /\ r.boat = q.boat
    BY <2>1 DEF Same
  <2>7. activity' \in [Activities -> ActivityRow]
        /\ \A a \in Activities : activity'[a].race # None => activity'[a].from \in Int /\ activity'[a].to \in Int
    BY <1>1 DEF TypeOK, RowsInv
  <2>8. RequestInv(r)'
    BY <2>2, <2>3, <2>4, <2>5 DEF RequestInv
  <2> QED BY <1>1, <1>3, <2>1, <2>6, <2>7, <2>8, Turned
<1>6. ASSUME NEW s \in S, handler' = [handler EXCEPT ![h] = [@ EXCEPT !.sid = s, !.pc = "widen"]]
      PROVE  IInv'
  <2>1. PICK r : r = [q EXCEPT !.sid = s, !.pc = "widen"]
    OBVIOUS
  <2>2. r \in Request /\ r.pc = "widen" /\ r.sid = s /\ Same(r, q)
    BY <1>1, <2>1 DEF Request, Same, Maybe
  <2>3. Turns(h, r)
    BY <1>6, <2>1 DEF Turns
  <2>4. s \in Sessions /\ session[s].stage = "live" /\ session[s].boat = q.boat
    OBVIOUS
  <2>5. HandlerOK(r)'
    BY <1>1, <1>2, <2>2, <2>4 DEF HandlerOK, Uploading, Attaching, Same
  <2>6. TakenFrom(r)' /\ WillCover(r)' /\ OpensApart(r)'
    BY <2>2 DEF TakenFrom, WillCover, OpensApart
  <2>7. WillBeFound(r)'
    <3> SUFFICES ASSUME r.op = "device" PROVE Finds(session[s], r.win, r.asked)
      BY <1>1, <2>2 DEF WillBeFound, Finds, Near
    <3>1. CASE q.pc = "list"
      <4>1. q.asked # None /\ q.act = q.asked
        BY <1>1, <2>2, <3>1 DEF HandlerOK, Same
      <4> QED BY <2>2, <2>4, <3>1, <4>1 DEF Finds, Same
    <3>2. CASE q.pc = "find"
      <4>1. q.asked = None
        BY <1>1, <3>2 DEF HandlerOK
      <4> QED BY <2>2, <3>2, <4>1 DEF Finds, Same, NearSessions
    <3> QED BY <3>1, <3>2
  <2>8. Repeated(r)'
    <3> SUFFICES ASSUME r.op = "device", ~Excused(r.boat, r.win, r.asked)', NEW u \in Uploads, Repeats(r, u)'
                 PROVE  upload[u].session = r.sid
      BY <1>1, <2>2 DEF Repeated
    <3>1. ~Excused(q.boat, q.win, q.asked) /\ Repeats(q, u) /\ q.op = "device"
      BY <1>1, <1>3, <2>2 DEF Excused, Repeats, Same
    <3>2. ~(Cardinality(S) > 1)
      BY <1>3, <2>2 DEF Excused, Same
    <3> QED BY <1>4, <2>2, <3>1, <3>2, OneOfOne
  <2>9. r.op = q.op /\ r.boat = q.boat /\ RequestInv(r)'
    BY <2>2, <2>5, <2>6, <2>7, <2>8 DEF Same, RequestInv
  <2>10. activity' \in [Activities -> ActivityRow]
         /\ \A a \in Activities : activity'[a].race # None => activity'[a].from \in Int /\ activity'[a].to \in Int
    BY <1>1 DEF TypeOK, RowsInv
  <2> QED BY <1>1, <1>3, <2>2, <2>3, <2>9, <2>10, Turned
<1> QED BY <1>5, <1>6 DEF Choose

LEMMA ListKeeps == ASSUME IInv, NEW h \in Handlers, List(h) PROVE IInv'
<1> DEFINE S == {s \in Stored(session) : session[s].act = handler[h].act
                                          /\ session[s].boat = handler[h].boat}
<1>1. handler[h].pc = "list" /\ Choose(h, S, "create")
  BY DEF List
<1>2. /\ S \in SUBSET Sessions
      /\ \A s \in Sessions : s \in S <=> session[s].stage = "live" /\ session[s].act = handler[h].act
                                          /\ session[s].boat = handler[h].boat
  BY StoredIs DEF IInv
<1> HIDE DEF S
<1> QED BY <1>1, <1>2, Chooses

LEMMA FindKeeps == ASSUME IInv, NEW h \in Handlers, Find(h) PROVE IInv'
<1> DEFINE S == NearSessions(handler[h].boat, handler[h].win)
<1>1. handler[h].pc = "find" /\ Choose(h, S, "solo")
  BY DEF Find
<1>2. S \in SUBSET Sessions /\ \A s \in S : session[s].stage = "live" /\ session[s].boat = handler[h].boat
  BY StoredIs DEF IInv, NearSessions
<1> HIDE DEF S
<1>3. S = NearSessions(handler[h].boat, handler[h].win)
  BY DEF S
<1> QED BY <1>1, <1>2, <1>3, Chooses

LEMMA NewSoloKeeps == ASSUME IInv, NEW h \in Handlers, NewSolo(h) PROVE IInv'
<1>1. PICK q : q = handler[h]
  OBVIOUS
<1>2. /\ q \in Request /\ HandlerOK(q) /\ OpensApart(q) /\ Repeated(q) /\ TypeOK /\ RowsInv
      /\ q.pc = "solo" /\ UNCHANGED <<session, upload, requests, disturbed, ambiguous>>
  BY <1>1, HandlerType DEF NewSolo, IInv, RequestsInv, RequestInv, history
<1>3. q.boat \in Boats /\ q.win \in Windows /\ q.op \in {"device", "import", "gpx"} /\ q.asked = None
  BY <1>2 DEF HandlerOK, Uploading
<1> DEFINE row == [NoActivity EXCEPT !.stage = "live", !.from = q.win.from, !.to = q.win.to]
<1>4. PICK a \in Fresh(activity) : /\ activity' = [activity EXCEPT ![a] = row]
                                   /\ handler' = [handler EXCEPT ![h] = [@ EXCEPT !.act = a, !.pc = "create"]]
  BY <1>1 DEF NewSolo
<1>5. a \in Activities /\ activity[a].stage = "unused"
  BY <1>2, StoredIs
<1>6. row \in ActivityRow /\ row.stage = "live" /\ row.race = None
  BY <1>3, WindowType DEF NoActivity, ActivityRow, Stage, Maybe
<1> HIDE DEF row
<1>7. /\ activity' \in [Activities -> ActivityRow] /\ activity'[a] = row
      /\ \A b \in Activities : b # a => activity'[b] = activity[b]
  BY <1>2, <1>4, <1>5, <1>6 DEF TypeOK
<1>8. PICK r : r = [q EXCEPT !.act = a, !.pc = "create"]
  OBVIOUS
<1>9. r \in Request /\ r.pc = "create" /\ r.act = a /\ Same(r, q)
  BY <1>2, <1>5, <1>8 DEF Request, Same, Maybe
<1>10. Turns(h, r)
  BY <1>1, <1>4, <1>8 DEF Turns
<1>11. HandlerOK(r)'
  BY <1>2, <1>3, <1>5, <1>6, <1>7, <1>9 DEF HandlerOK, Uploading, Attaching, Same
<1>12. TakenFrom(r)' /\ WillCover(r)' /\ WillBeFound(r)'
  BY <1>9 DEF TakenFrom, WillCover, WillBeFound
<1>13. OpensApart(r)'
  BY <1>2, <1>9 DEF OpensApart, Same, SameOuting
<1>14. Repeated(r)'
  <2>1. \A u : Repeats(r, u)' <=> Repeats(q, u)
    BY <1>2, <1>9 DEF Repeats, Same
  <2> QED BY <1>2, <1>9, <2>1 DEF Repeated, Same, Excused
<1>15. RequestInv(r)' /\ r.op = handler[h].op /\ r.boat = handler[h].boat
  BY <1>1, <1>9, <1>11, <1>12, <1>13, <1>14 DEF RequestInv, Same
<1>16. /\ \A b \in Activities : activity[b].stage # "unused" => activity'[b].stage = activity[b].stage
       /\ \A b \in Activities : activity'[b].race # None => activity'[b].from \in Int /\ activity'[b].to \in Int
       /\ ambiguous \subseteq Boats \X Windows \X Maybe(Activities)
  BY <1>2, <1>5, <1>6, <1>7 DEF RowsInv, TypeOK
<1> QED BY <1>1, <1>2, <1>7, <1>9, <1>10, <1>15, <1>16, Turned

LEMMA NewSessionKeeps == ASSUME IInv, NEW h \in Handlers, NewSession(h) PROVE IInv'
<1>1. PICK q : q = handler[h]
  OBVIOUS
<1>2. /\ q \in Request /\ HandlerOK(q) /\ Repeated(q) /\ TypeOK /\ RowsInv /\ AloneInv /\ RequestsInv /\ UploadsInv
      /\ q.pc = "create" /\ UNCHANGED <<activity, upload, requests, disturbed, ambiguous>>
  BY <1>1, HandlerType DEF NewSession, IInv, RequestsInv, RequestInv, history
<1>3. /\ q.boat \in Boats /\ q.win \in Windows /\ q.op \in {"device", "import", "gpx"}
      /\ q.act \in Activities
  BY <1>2 DEF HandlerOK, Uploading
<1>4. CASE Done(h) /\ UNCHANGED session
  <2>1. UNCHANGED <<data, history>>
    BY <1>2, <1>4 DEF data, history
  <2> QED BY <1>4, <2>1, DoneKeeps
<1> DEFINE row == [stage |-> "live", boat |-> q.boat, act |-> q.act, from |-> q.win.from, to |-> q.win.to]
<1>5. ASSUME activity[q.act].stage = "live", NEW s \in Fresh(session),
             session' = [session EXCEPT ![s] = row],
             handler' = [handler EXCEPT ![h] = [@ EXCEPT !.sid = s, !.pc = "key"]]
      PROVE  IInv'
  <2>1. s \in Sessions /\ session[s].stage = "unused"
    BY <1>2, StoredIs
  <2>2. /\ row \in SessionRow /\ row.stage = "live" /\ row.boat = q.boat /\ row.act = q.act
        /\ row.from = q.win.from /\ row.to = q.win.to
    BY <1>3, WindowType DEF SessionRow, Stage, Maybe
  <2> HIDE DEF row
  <2>3. /\ session' \in [Sessions -> SessionRow] /\ session'[s] = row
        /\ \A t \in Sessions : t # s => session'[t] = session[t]
    BY <1>2, <1>5, <2>1, <2>2 DEF TypeOK
  <2>4. PICK r : r = [q EXCEPT !.sid = s, !.pc = "key"]
    OBVIOUS
  <2>5. r \in Request /\ r.pc = "key" /\ r.sid = s /\ Same(r, q)
    BY <1>2, <2>1, <2>4 DEF Request, Same, Maybe
  <2>6. Turns(h, r)
    BY <1>1, <1>5, <2>4 DEF Turns
  <2>7. More /\ q.boat \in Works(handler[h])
    BY <1>1, <1>2, <1>3 DEF More, Works, Touched, ByHand
  <2>8. Elsewhere(h, q.boat)
    BY <2>7, OthersElsewhere DEF More
  <2>9. /\ \A p \in Request : RequestInv(p) /\ (row.boat \in Works(p) => row.boat \in disturbed')
                                 => RequestInv(p)'
        /\ UploadsInv'
    BY <1>2, <1>3, <1>5, <2>1, <2>2, <2>7, NewRow
  <2>10. \A g \in Handlers \ {h} : \A p : p = handler[g] => RequestInv(p)'
    BY <1>2, <2>2, <2>8, <2>9, HandlerType DEF RequestsInv, Elsewhere
  <2>11. TypeOK'
    BY <1>2, <2>3, <2>5, <2>6, HandlerSet DEF TypeOK, Turns
  <2>12. RowsInv'
    BY <1>2, <1>3, <1>5, <2>2, <2>3 DEF RowsInv
  <2>13. AloneInv'
    BY <1>1, <1>2, <2>5, <2>6, <2>7, AloneKept DEF Same, More
  <2>14. HandlerOK(r)'
    BY <1>2, <1>3, <2>1, <2>2, <2>3, <2>5 DEF HandlerOK, Uploading, Attaching, Same
  <2>15. q.win.from \in Int /\ End(q.win) \in Int /\ q.win.from <= End(q.win) /\ q.win.to \in Int \cup {None}
    BY <1>3, WindowType
  <2>16. WillCover(r)'
    <3>1. Covers(row, q.win)
      BY <2>2, <2>15, Ids DEF Covers
    <3> QED BY <2>3, <2>5, <3>1 DEF WillCover, Same, Covers
  <2>17. WillBeFound(r)'
    <3> SUFFICES ASSUME r.op = "device" PROVE Finds(row, r.win, r.asked)
      BY <2>3, <2>5 DEF WillBeFound, Finds, Near
    <3>1. CASE r.asked = None
      <4>1. End(row) = End(q.win)
        BY <2>2 DEF End
      <4>2. Near(row, q.win)
        BY <2>2, <2>15, <4>1, Ids DEF Near
      <4> QED BY <2>5, <3>1, <4>2 DEF Finds, Same
    <3>2. CASE r.asked # None
      BY <1>2, <2>2, <2>5, <3>2 DEF HandlerOK, Same, Finds
    <3> QED BY <3>1, <3>2
  <2>18. Repeated(r)'
    <3>1. \A u \in Uploads : Repeats(r, u)' => Repeats(q, u)
      BY <1>2, <2>1, <2>3, <2>5 DEF Repeats, RowsInv, Same
    <3> QED BY <1>2, <2>5, <3>1 DEF Repeated, Same, Excused
  <2>19. TakenFrom(r)' /\ OpensApart(r)'
    BY <2>5 DEF TakenFrom, OpensApart
  <2>20. RequestInv(r)'
    BY <2>14, <2>16, <2>17, <2>18, <2>19 DEF RequestInv
  <2> QED BY <1>2, <2>5, <2>6, <2>9, <2>10, <2>11, <2>12, <2>13, <2>20, Together
<1> QED BY <1>1, <1>4, <1>5 DEF NewSession

LEMMA WidenWider ==
    ASSUME NEW row \in SessionRow, NEW w \in Windows, NEW wide \in SessionRow,
           wide.from = Least(row.from, w.from), wide.to = Most(row.to, w.to)
    PROVE  /\ Covers(wide, w)
           /\ Moments(row) \subseteq Moments(wide) => Wider(row, wide)
<1>1. row.from \in Int \cup {None} /\ row.to \in Int \cup {None} /\ w.from \in Int /\ w.to \in Int \cup {None}
  BY WindowType DEF SessionRow, Maybe
<1>2. /\ wide.from \in Int /\ wide.from <= w.from
      /\ row.from # None => wide.from <= row.from
      /\ wide.to \in Int \cup {None}
      /\ row.to # None => wide.to \in Int /\ wide.to >= row.to
      /\ w.to # None => wide.to \in Int /\ wide.to >= w.to
  <2>1. /\ Least(row.from, w.from) \in Int /\ Least(row.from, w.from) <= w.from
        /\ row.from # None => Least(row.from, w.from) <= row.from
        /\ Most(row.to, w.to) \in Int \cup {None}
        /\ row.to # None => Most(row.to, w.to) \in Int /\ Most(row.to, w.to) >= row.to
        /\ w.to # None => Most(row.to, w.to) \in Int /\ Most(row.to, w.to) >= w.to
    BY <1>1, WidenedBounds
  <2> QED BY <2>1
<1>3. Covers(wide, w)
  BY <1>2, Ids DEF Covers
<1>4. ASSUME NEW v \in Windows, Covers(row, v) PROVE Covers(wide, v)
  <2>1. v.from \in Int /\ v.to \in Int \cup {None}
    BY WindowType
  <2> QED BY <1>1, <1>2, <1>4, <2>1, Ids DEF Covers
<1>5. ASSUME Moments(row) \subseteq Moments(wide), NEW v \in Windows, Near(row, v) PROVE Near(wide, v)
  <2>1. v.from \in Int /\ End(v) \in Int
    BY WindowType
  <2>2. row.from \in Int
    BY <1>1, <1>5 DEF Near
  <2>3. End(row) \in Int /\ End(wide) \in Int
    BY <1>1, <1>2, <2>2 DEF End
  <2>4. End(wide) >= End(row)
    <3>1. CASE row.to # None
      <4>1. End(row) = row.to /\ End(wide) = wide.to
        BY <1>2, <3>1, Ids DEF End
      <4> QED BY <1>1, <1>2, <3>1, <4>1
    <3>2. CASE row.to = None
      <4>1. End(row) = row.from /\ row.from \in Moments(row)
        BY <2>2, <3>2, Ids DEF End, Moments
      <4>2. row.from \in Moments(wide)
        BY <1>5, <4>1
      <4>3. row.from \in wide.from..End(wide)
        BY <1>2, <4>2, Ids DEF Moments
      <4> QED BY <1>2, <2>2, <2>3, <4>1, <4>3
    <3> QED BY <3>1, <3>2
  <2> QED BY <1>2, <1>5, <2>1, <2>2, <2>3, <2>4, Ids DEF Near
<1> QED BY <1>3, <1>4, <1>5 DEF Wider

\* What a request at work on a known session still promises at its next step.
LEMMA WidenKeeps == ASSUME IInv, NEW h \in Handlers, Widen(h) PROVE IInv'
<1>1. PICK q : q = handler[h]
  OBVIOUS
<1>2. /\ q \in Request /\ RequestInv(q) /\ TypeOK /\ RowsInv /\ AloneInv /\ RequestsInv /\ UploadsInv
      /\ q.pc = "widen" /\ UNCHANGED <<activity, upload, requests, ambiguous>> /\ Goto(h, "key")
  BY <1>1, HandlerType DEF Widen, IInv, RequestsInv
<1> DEFINE s == q.sid
           w == q.win
<1>3. /\ q.boat \in Boats /\ w \in Windows /\ q.op \in {"device", "import", "gpx"} /\ HandlerOK(q)
      /\ s \in Sessions /\ session[s].stage # "unused"
      /\ session[s].stage = "live" => session[s].boat = q.boat
  BY <1>2 DEF HandlerOK, Uploading, RequestInv
<1>4. PICK r \in Request : Turns(h, r) /\ r.pc = "key" /\ Same(r, q) /\ r.sid = s /\ r.act = q.act
  BY <1>1, <1>2, GotoCase DEF Steps
<1>5. CASE session[s].stage # "live"
  <2>1. UNCHANGED <<session, disturbed>>
    BY <1>1, <1>5 DEF Widen
  <2>2. session[s].stage = "gone"
    BY <1>2, <1>3, <1>5 DEF TypeOK, SessionRow, Stage
  <2>3. HandlerOK(r)'
    BY <1>2, <1>3, <1>4, <2>1 DEF HandlerOK, Uploading, Attaching, Same
  <2>4. WillCover(r)' /\ WillBeFound(r)' /\ TakenFrom(r)' /\ OpensApart(r)'
    BY <1>4, <1>5, <2>1, <2>2 DEF WillCover, WillBeFound, TakenFrom, OpensApart
  <2>5. Repeated(r)'
    <3>1. \A u : Repeats(r, u)' <=> Repeats(q, u)
      BY <1>2, <1>4, <2>1 DEF Repeats, Same
    <3> QED BY <1>2, <1>4, <2>1, <3>1 DEF Repeated, Same, Excused, RequestInv
  <2>6. RequestInv(r)' /\ UNCHANGED <<data, history>> /\ r.op = handler[h].op /\ r.boat = handler[h].boat
    BY <1>1, <1>2, <1>4, <2>1, <2>3, <2>4, <2>5 DEF RequestInv, data, history, Same
  <2> QED BY <1>1, <1>2, <1>4, <2>6, Looked
<1>6. CASE session[s].stage = "live"
  <2>1. PICK row : row = Widened(session[s], w)
    OBVIOUS
  <2>2. session' = [session EXCEPT ![s] = row]
    BY <1>1, <1>6, <2>1 DEF Widen
  <2>3. session[s] \in SessionRow /\ session[s].from \in Int \cup {None} /\ session[s].to \in Int \cup {None}
    BY <1>2, <1>3 DEF TypeOK, SessionRow, Maybe
  <2>4. /\ row \in SessionRow /\ row.stage = "live" /\ row.boat = q.boat /\ row.act = session[s].act
        /\ row.from = Least(session[s].from, w.from) /\ row.to = Most(session[s].to, w.to)
    BY <1>3, <1>6, <2>1, <2>3, WidenedBounds DEF SessionRow, Widened, Maybe
  <2>5. /\ session' \in [Sessions -> SessionRow] /\ session'[s] = row
        /\ \A t \in Sessions : t # s => session'[t] = session[t]
    BY <1>2, <1>3, <2>2, <2>4 DEF TypeOK
  <2>6. /\ disturbed \subseteq disturbed' /\ disturbed' \subseteq Boats
        /\ Moments(session[s]) \subseteq Moments(row) \/ q.boat \in disturbed'
    <3>1. disturbed' = IF ~(Moments(session[s]) \subseteq Moments(session'[s]))
                       THEN disturbed \cup {session[s].boat} ELSE disturbed
      BY <1>1, <1>6 DEF Widen
    <3> QED BY <1>2, <1>3, <1>6, <2>5, <3>1 DEF TypeOK
  <2>7. Covers(row, w) /\ (Wider(session[s], row) \/ q.boat \in disturbed')
    BY <1>3, <2>3, <2>4, <2>6, WidenWider
  <2>8. More /\ q.boat \in Works(handler[h])
    BY <1>1, <1>2, <1>3, <2>6 DEF More, Works, Touched, ByHand
  <2>9. Elsewhere(h, q.boat)
    BY <2>6, <2>8, OthersElsewhere
  <2>10. /\ \A p \in Request : RequestInv(p) /\ (row.boat \in Works(p) => row.boat \in disturbed')
                                 => RequestInv(p)'
         /\ UploadsInv'
    BY <1>2, <1>3, <1>6, <2>2, <2>4, <2>7, <2>8, WindowChanges
  <2>11. \A g \in Handlers \ {h} : \A p : p = handler[g] => RequestInv(p)'
    BY <1>2, <2>4, <2>9, <2>10, HandlerType DEF RequestsInv, Elsewhere
  <2>12. TypeOK'
    BY <1>2, <1>4, <2>5, <2>6, HandlerSet DEF TypeOK, Turns
  <2>13. RowsInv'
    BY <1>2, <1>3, <1>6, <2>4, <2>5 DEF RowsInv
  <2>14. AloneInv'
    BY <1>1, <1>2, <1>4, <2>6, AloneKept DEF Same
  <2>15. HandlerOK(r)'
    BY <1>3, <1>2, <1>4, <2>4, <2>5 DEF HandlerOK, Uploading, Attaching, Same
  <2>16. WillCover(r)' /\ TakenFrom(r)' /\ OpensApart(r)'
    BY <1>4, <2>5, <2>7 DEF WillCover, TakenFrom, OpensApart, Same, Covers
  <2>17. WillBeFound(r)'
    <3> SUFFICES ASSUME r.op = "device", ~Excused(r.boat, r.win, r.asked)'
                 PROVE  Finds(row, r.win, r.asked)
      BY <1>4, <2>5 DEF WillBeFound, Finds, Near
    <3>1. q.boat \notin disturbed' /\ ~Excused(q.boat, w, q.asked) /\ q.op = "device"
      BY <1>2, <1>4, <2>6 DEF Excused, Same
    <3>2. Finds(session[s], w, q.asked)
      BY <1>2, <1>6, <3>1 DEF RequestInv, WillBeFound
    <3> QED BY <1>3, <1>4, <2>4, <2>7, <3>1, <3>2 DEF Finds, Wider, Same
  <2>18. Repeated(r)'
    <3>1. \A u \in Uploads : Repeats(r, u)' => Repeats(q, u)
      BY <1>2, <1>4, <1>6, <2>4, <1>3, <2>5 DEF Repeats, RowsInv, Same
    <3>2. ~Excused(r.boat, r.win, r.asked)' => ~Excused(q.boat, q.win, q.asked)
      BY <1>4, <2>8, ExcusedMore DEF Same
    <3> QED BY <1>2, <1>4, <3>1, <3>2 DEF Repeated, Same, RequestInv
  <2>19. RequestInv(r)'
    BY <2>15, <2>16, <2>17, <2>18 DEF RequestInv
  <2> QED BY <1>2, <1>4, <2>10, <2>11, <2>12, <2>13, <2>14, <2>19, Together
<1> QED BY <1>5, <1>6

-----------------------------------------------------------------------------
(* The upload is inserted.                                                 *)

LEMMA LookupKeyKeeps == ASSUME IInv, NEW h \in Handlers, LookupKey(h) PROVE IInv'
<1>1. PICK q : q = handler[h]
  OBVIOUS
<1>2. q \in Request /\ RequestInv(q) /\ TypeOK /\ q.pc = "key" /\ UNCHANGED <<data, history>>
  BY <1>1, HandlerType DEF LookupKey, IInv, RequestsInv
<1>3. CASE Done(h)
  BY <1>2, <1>3, DoneKeeps
<1>4. CASE Goto(h, "insert")
  <2>1. PICK r \in Request : Turns(h, r) /\ r.pc = "insert" /\ Same(r, q) /\ r.sid = q.sid /\ r.act = q.act
    BY <1>1, <1>2, <1>4, GotoCase DEF Steps
  <2>2. UNCHANGED <<session, activity, upload, disturbed, ambiguous>>
    BY <1>2 DEF data, history
  <2>3. HandlerOK(r)'
    BY <1>2, <2>1, <2>2 DEF HandlerOK, Uploading, Attaching, Same, RequestInv
  <2>4. WillCover(r)' /\ TakenFrom(r)' /\ OpensApart(r)'
    BY <1>2, <2>1, <2>2 DEF WillCover, TakenFrom, OpensApart, Same, Covers, RequestInv
  <2>5. WillBeFound(r)'
    BY <1>2, <2>1, <2>2 DEF WillBeFound, Excused, Finds, Near, Same, RequestInv
  <2>6. Repeated(r)'
    <3>1. \A u : Repeats(r, u)' <=> Repeats(q, u)
      BY <2>1, <2>2 DEF Repeats, Same
    <3> QED BY <1>2, <2>1, <2>2, <3>1 DEF Repeated, Same, Excused, RequestInv
  <2>7. RequestInv(r)' /\ r.op = handler[h].op /\ r.boat = handler[h].boat
    BY <1>1, <2>1, <2>3, <2>4, <2>5, <2>6 DEF RequestInv, Same
  <2> QED BY <1>1, <1>2, <2>1, <2>7, Looked
<1> QED BY <1>3, <1>4 DEF LookupKey

LEMMA InsertUploadKeeps == ASSUME IInv, NEW h \in Handlers, InsertUpload(h) PROVE IInv'
<1>1. PICK q : q = handler[h]
  OBVIOUS
<1>2. /\ q \in Request /\ RequestInv(q) /\ HandlerOK(q) /\ TypeOK /\ RowsInv /\ AloneInv /\ RequestsInv /\ UploadsInv
      /\ q.pc = "insert" /\ Done(h) /\ UNCHANGED <<session, activity, requests, disturbed, ambiguous>>
  BY <1>1, HandlerType DEF InsertUpload, IInv, RequestsInv, RequestInv, history
<1>3. CASE UNCHANGED upload
  <2>1. UNCHANGED <<data, history>>
    BY <1>2, <1>3 DEF data, history
  <2> QED BY <1>2, <2>1, DoneKeeps
<1> DEFINE row == [stage |-> "live", session |-> q.sid, key |-> q.key, win |-> q.win, asked |-> q.asked]
<1>4. ASSUME session[q.sid].stage = "live", q.key = None \/ WithKey(q.sid, q.key) = {},
             NEW x \in Fresh(upload), upload' = [upload EXCEPT ![x] = row]
      PROVE  IInv'
  <2>1. x \in Uploads /\ upload[x].stage = "unused"
    BY <1>2, StoredIs
  <2>2. /\ q.boat \in Boats /\ q.win \in Windows /\ q.sid \in Sessions /\ session[q.sid].boat = q.boat
        /\ q.op \in {"device", "import", "gpx"} /\ q.asked \in Maybe(Activities)
        /\ q.key \in Maybe(Keys)
    BY <1>2, <1>4 DEF HandlerOK, Uploading, Request
  <2>3. /\ row \in UploadRow /\ row.stage = "live" /\ row.session = q.sid /\ row.key = q.key
        /\ row.win = q.win /\ row.asked = q.asked
    BY <2>2 DEF UploadRow, Stage, Maybe
  <2> HIDE DEF row
  <2>4. /\ upload' \in [Uploads -> UploadRow] /\ upload'[x] = row
        /\ \A u \in Uploads : u # x => upload'[u] = upload[u]
    BY <1>2, <1>4, <2>1, <2>3 DEF TypeOK
  <2>5. Turns(h, Idle)
    BY <1>2 DEF Done, Turns
  <2>6. TypeOK'
    BY <1>2, <2>4, <2>5, IdleType, HandlerSet DEF TypeOK, Turns
  <2>7. RowsInv'
    BY <1>2, <1>4, <2>2, <2>3, <2>4 DEF RowsInv
  <2>8. AloneInv'
    BY <1>2, <2>5, IdleType, AloneKept
  <2>9. q.boat \in Works(handler[h]) /\ Elsewhere(h, q.boat)
    BY <1>1, <1>2, <2>2, OthersElsewhere DEF Works, Touched, ByHand
  <2>10. ASSUME NEW g \in Handlers \ {h}, NEW p, p = handler[g] PROVE RequestInv(p)'
    <3>1. p \in Request /\ RequestInv(p) /\ HandlerOK(p)
      BY <1>2, <2>10, HandlerType DEF RequestsInv, RequestInv
    <3>2. HandlerOK(p)' /\ TakenFrom(p)' /\ WillCover(p)' /\ OpensApart(p)' /\ WillBeFound(p)'
      BY <1>2, <3>1 DEF RequestInv, HandlerOK, TakenFrom, WillCover, OpensApart, WillBeFound,
                        SameOuting, Covers, Excused, Finds, Near
    <3>3. Repeated(p)'
      <4> SUFFICES ASSUME p.op = "device", ~Excused(p.boat, p.win, p.asked), NEW u \in Uploads, Repeats(p, u)'
                   PROVE  /\ p.pc \notin {"solo", "create"}
                          /\ p.pc \in {"widen", "key", "insert"} => upload'[u].session = p.sid
        BY <1>2 DEF Repeated, Excused
      <4>1. CASE u # x
        <5>1. Repeats(p, u)
          BY <1>2, <2>4, <4>1 DEF Repeats
        <5> QED BY <2>4, <3>1, <4>1, <5>1 DEF RequestInv, Repeated
      <4>2. CASE u = x
        <5>1. p.boat = q.boat
          BY <1>2, <2>2, <2>3, <2>4, <4>2 DEF Repeats
        <5>2. p.pc \in {"solo", "create", "widen", "key", "insert"} => q.boat \in Works(p)
          BY <5>1 DEF Works, Touched, ByHand
        <5>3. q.boat \in Works(p) => FALSE
          BY <1>2, <2>9, <2>10, <5>1 DEF Elsewhere, Excused
        <5> QED BY <5>2, <5>3
      <4> QED BY <4>1, <4>2
    <3> QED BY <3>2, <3>3 DEF RequestInv
  <2>11. ASSUME NEW u \in Uploads PROVE IsCovered(u)' /\ IsFound(u)'
    <3>1. CASE u # x
      BY <1>2, <2>4, <3>1 DEF UploadsInv, IsCovered, IsFound, Covers, Excused, Finds, Near
    <3>2. CASE u = x
      <4>1. IsCovered(u)'
        BY <1>2, <1>4, <2>2, <2>3, <2>4, <3>2 DEF IsCovered, Covers, RequestInv, WillCover
      <4>2. q.key # None => q.op = "device"
        BY <1>2 DEF HandlerOK
      <4>3. IsFound(u)'
        BY <1>2, <1>4, <2>2, <2>3, <2>4, <3>2, <4>2 DEF IsFound, Excused, Finds, Near, RequestInv, WillBeFound
      <4> QED BY <4>1, <4>3
    <3> QED BY <3>1, <3>2
  <2>12. ASSUME NEW v \in Uploads, v # x, upload[v].stage = "live", q.key # None, upload[v].key = q.key,
                upload[v].win = q.win, upload[v].asked = q.asked,
                session[upload[v].session].boat = q.boat
         PROVE  Excused(q.boat, q.win, q.asked)
    <3>1. Repeats(q, v) /\ q.op = "device"
      BY <1>2, <2>12 DEF Repeats, HandlerOK
    <3>2. upload[v].session = q.sid => FALSE
      BY <1>2, <1>4, <2>12, StoredIs DEF WithKey
    <3> QED BY <1>2, <3>1, <3>2 DEF RequestInv, Repeated
  <2>13. ASSUME NEW u \in Uploads, NEW v \in Uploads PROVE Pair(u, v)'
    <3>1. CASE u # x /\ v # x
      BY <1>2, <2>4, <3>1 DEF UploadsInv, Pair, Excused
    <3>2. CASE u = x
      <4> SUFFICES ASSUME v # x, upload[v].stage = "live", q.key # None, upload[v].key = q.key,
                          upload[v].win = q.win, upload[v].asked = q.asked,
                          session[upload[v].session].boat = q.boat
                   PROVE  Excused(q.boat, q.win, q.asked)
        BY <1>2, <2>2, <2>3, <2>4, <3>2 DEF Pair, Excused
      <4> QED BY <2>12
    <3>3. CASE v = x /\ u # x
      <4> SUFFICES ASSUME upload[u].stage = "live", q.key # None, upload[u].key = q.key,
                          upload[u].win = q.win, upload[u].asked = q.asked,
                          session[upload[u].session].boat = q.boat
                   PROVE  Excused(q.boat, q.win, q.asked)
        BY <1>2, <2>2, <2>3, <2>4, <3>3 DEF Pair, Excused
      <4> QED BY <2>12, <3>3
    <3> QED BY <3>1, <3>2, <3>3
  <2>14. UploadsInv'
    BY <2>11, <2>13 DEF UploadsInv
  <2> QED BY <1>2, <2>5, <2>6, <2>7, <2>8, <2>10, <2>14, IdleType, IdleOK, Together
<1> QED BY <1>1, <1>3, <1>4 DEF InsertUpload

-----------------------------------------------------------------------------
(* Users move sessions.                                                    *)

LEMMA ChooseBestKeeps == ASSUME IInv, NEW h \in Handlers, ChooseBest(h) PROVE IInv'
<1>1. PICK q : q = handler[h]
  OBVIOUS
<1>2. q \in Request /\ HandlerOK(q) /\ TypeOK /\ q.pc = "overlaps" /\ UNCHANGED <<data, history>>
  BY <1>1, HandlerType DEF ChooseBest, IInv, RequestsInv, RequestInv
<1>3. PICK S \in SUBSET Stored(session) :
        handler' = [handler EXCEPT ![h] = [@ EXCEPT !.pc = "move",
                      !.left = {[sid |-> s, from |-> session[s].from, to |-> session[s].to] : s \in S}]]
  BY DEF ChooseBest
<1> DEFINE listed == {[sid |-> s, from |-> session[s].from, to |-> session[s].to] : s \in S}
<1>4. /\ \A s \in S : s \in Sessions /\ session[s].stage = "live" /\ session[s] \in SessionRow
      /\ listed \subseteq Listed /\ \A x \in listed : session[x.sid].stage = "live"
  <2>1. \A s \in S : s \in Sessions /\ session[s].stage = "live" /\ session[s] \in SessionRow
    BY <1>2, StoredIs DEF TypeOK
  <2> QED BY <2>1 DEF Listed, SessionRow
<1>5. PICK r : r = [q EXCEPT !.pc = "move", !.left = listed]
  OBVIOUS
<1> HIDE DEF listed
<1>6. r \in Request /\ r.pc = "move" /\ r.left = listed /\ r.act = q.act /\ Same(r, q)
  BY <1>2, <1>4, <1>5 DEF Request, Same
<1>7. Turns(h, r)
  BY <1>1, <1>3, <1>5 DEF Turns, listed
<1>8. HandlerOK(r)'
  BY <1>2, <1>4, <1>6 DEF HandlerOK, Uploading, Attaching, Same, data
<1>9. RequestInv(r)' /\ r.op = handler[h].op /\ r.boat = handler[h].boat
  BY <1>1, <1>6, <1>8, NoPromise DEF RequestInv, Same
<1> QED BY <1>1, <1>2, <1>6, <1>7, <1>9, Looked

\* A session is moved by a request that works on every boat.
LEMMA MovesOne ==
    ASSUME IInv, NEW h \in Handlers, NEW r \in Request, Turns(h, r), handler[h].pc # "idle",
           ByHand(handler[h].op), r.op = handler[h].op, r.boat = handler[h].boat,
           NEW s \in Sessions, session[s].stage = "live",
           NEW row \in SessionRow, row.stage = "live", row.boat = session[s].boat,
           row.act \in Activities, activity[row.act].stage = "live",
           row.boat \in disturbed' \/ (row.from = session[s].from /\ row.to = session[s].to),
           session' = [session EXCEPT ![s] = row],
           disturbed' \in {disturbed, disturbed \cup {row.boat}},
           ambiguous' = ambiguous \cup Moved({s}),
           UNCHANGED <<activity, upload, requests>>, RequestInv(r)'
    PROVE  IInv'
<1>1. TypeOK /\ RowsInv /\ AloneInv /\ RequestsInv /\ UploadsInv /\ More
  BY DEF IInv, More
<1>2. Works(handler[h]) = Boats
  BY DEF Works, Touched
<1>3. /\ session[s].boat \in Boats
      /\ Moved({s}) \subseteq Boats \X Windows \X Maybe(Activities)
      /\ Moved({s}) \subseteq ambiguous'
  <2>1. session[s].boat \in Boats
    BY <1>1 DEF RowsInv
  <2> QED BY <2>1 DEF Moved
<1>4. ASSUME NEW g \in Handlers \ {h}, NEW p, p = handler[g] PROVE RequestInv(p)'
  <2>1. p \in Request /\ RequestInv(p) /\ HandlerOK(p)
    BY <1>1, <1>4, HandlerType DEF RequestsInv, RequestInv
  <2>2. p.op = "attach" => Works(p) = Boats
    BY <2>1 DEF HandlerOK, Works, Touched, ByHand
  <2>3. Works(p) \cap Works(handler[h]) \subseteq disturbed
    BY <1>1, <1>4 DEF AloneInv
  <2>4. p.op = "attach" => Boats \subseteq disturbed'
    BY <1>1, <1>2, <2>2, <2>3 DEF More
  <2> QED BY <1>1, <1>3, <2>1, <2>4, Moves
<1>5. UploadsInv'
  BY <1>1, <1>3, Moves
<1>6. session' \in [Sessions -> SessionRow] /\ session'[s] = row
      /\ \A t \in Sessions : /\ session'[t].stage = session[t].stage /\ session'[t].boat = session[t].boat
                             /\ t # s => session'[t] = session[t]
  BY <1>1 DEF TypeOK, SessionRow, Maybe
<1>7. TypeOK'
  BY <1>1, <1>6, <1>3, HandlerSet DEF TypeOK, Turns
<1>8. RowsInv'
  BY <1>1, <1>6 DEF RowsInv
<1>9. AloneInv'
  BY <1>1, AloneKept DEF More
<1> QED BY <1>1, <1>4, <1>5, <1>7, <1>8, <1>9, Together

LEMMA MoveBestKeeps == ASSUME IInv, NEW h \in Handlers, MoveBest(h) PROVE IInv'
<1>1. PICK q : q = handler[h]
  OBVIOUS
<1>2. /\ q \in Request /\ HandlerOK(q) /\ TypeOK /\ RowsInv /\ q.pc = "move"
      /\ UNCHANGED <<activity, upload, requests>>
  BY <1>1, HandlerType DEF MoveBest, IInv, RequestsInv, RequestInv
<1>3. CASE Done(h) /\ UNCHANGED <<session, disturbed, ambiguous>>
  <2>1. UNCHANGED <<data, history>>
    BY <1>2, <1>3 DEF data, history
  <2> QED BY <1>3, <2>1, DoneKeeps
<1>4. ASSUME NEW x \in q.left, NEW s, s = x.sid,
             ~(session[s].stage = "live" /\ activity[q.act].stage = "gone"),
             session' = IF session[s].stage = "live"
                        THEN [session EXCEPT ![s] = [Widened(@, x) EXCEPT !.act = q.act]] ELSE session,
             disturbed' = IF Bounds(session'[s]) # Bounds(session[s])
                          THEN disturbed \cup {session[s].boat} ELSE disturbed,
             ambiguous' = ambiguous \cup Moved({s} \cap Stored(session)),
             handler' = [handler EXCEPT ![h].left = @ \ {x}]
      PROVE  IInv'
  <2>1. /\ s \in Sessions /\ x.from \in Maybe(Int) /\ x.to \in Maybe(Int)
        /\ q.act \in Activities /\ activity[q.act].stage # "unused" /\ q.op = "match"
    BY <1>2, <1>4 DEF HandlerOK, Request, Listed
  <2>2. PICK r : r = [q EXCEPT !.left = q.left \ {x}]
    OBVIOUS
  <2>3. r \in Request /\ r.pc = "move" /\ r.left \subseteq q.left /\ r.act = q.act /\ Same(r, q)
    BY <1>2, <2>2 DEF Request, Same
  <2>4. Turns(h, r)
    BY <1>1, <1>4, <2>2 DEF Turns
  <2>5. \A t \in Sessions : session'[t].stage = session[t].stage
    BY <1>2, <1>4, <2>1 DEF TypeOK, SessionRow, Widened
  <2>6. \A y \in q.left : y.sid \in Sessions
    BY <1>2 DEF Request, Listed
  <2>7. HandlerOK(r)'
    BY <1>2, <2>1, <2>3, <2>5, <2>6 DEF HandlerOK, Uploading, Attaching, Same
  <2>8. RequestInv(r)' /\ r.op = handler[h].op /\ r.boat = handler[h].boat
    BY <1>1, <2>3, <2>7, NoPromise DEF RequestInv, Same
  <2>9. CASE session[s].stage = "live"
    <3>1. activity[q.act].stage = "live"
      BY <1>2, <1>4, <2>1, <2>9 DEF TypeOK, ActivityRow, Stage
    <3>2. {s} \cap Stored(session) = {s}
      BY <1>2, <2>1, <2>9, StoredIs
    <3>3. PICK row : row = [Widened(session[s], x) EXCEPT !.act = q.act]
      OBVIOUS
    <3>4. session' = [session EXCEPT ![s] = row] /\ session'[s] = row
          /\ ambiguous' = ambiguous \cup Moved({s})
      BY <1>2, <1>4, <2>1, <2>9, <3>2, <3>3 DEF TypeOK
    <3>5. session[s] \in SessionRow
      BY <1>2, <2>1 DEF TypeOK
    <3>6. Least(session[s].from, x.from) \in Maybe(Int) /\ Most(session[s].to, x.to) \in Maybe(Int)
      BY <2>1, <3>5 DEF SessionRow, Least, Most, Maybe
    <3>7. /\ row \in SessionRow /\ row.stage = "live" /\ row.boat = session[s].boat /\ row.act = q.act
      BY <2>1, <2>9, <3>3, <3>5, <3>6 DEF SessionRow, Widened, Maybe
    <3>8. /\ row.boat \in disturbed' \/ (row.from = session[s].from /\ row.to = session[s].to)
          /\ disturbed' \in {disturbed, disturbed \cup {row.boat}}
      BY <1>4, <3>4, <3>7 DEF Bounds
    <3>9. ByHand(handler[h].op)
      BY <1>1, <2>1 DEF ByHand
    <3> QED BY <1>1, <1>2, <2>1, <2>3, <2>4, <2>8, <2>9, <3>1, <3>4, <3>7, <3>8, <3>9, MovesOne
  <2>10. CASE session[s].stage # "live"
    <3>1. {s} \cap Stored(session) = {}
      BY <1>2, <2>1, <2>10, StoredIs
    <3>2. Moved({}) = {}
      BY DEF Moved
    <3>3. UNCHANGED <<data, history>>
      BY <1>2, <1>4, <2>10, <3>1, <3>2 DEF data, history
    <3> QED BY <1>1, <1>2, <2>3, <2>4, <2>8, <3>3, Looked
  <2> QED BY <2>9, <2>10
<1> QED BY <1>1, <1>3, <1>4 DEF MoveBest

LEMMA CountKeeps == ASSUME IInv, NEW h \in Handlers, Count(h) PROVE IInv'
<1>1. PICK q : q = handler[h]
  OBVIOUS
<1>2. /\ q \in Request /\ HandlerOK(q) /\ TakenFrom(q) /\ TypeOK /\ RowsInv /\ q.pc = "count"
      /\ UNCHANGED <<data, history>>
  BY <1>1, HandlerType DEF Count, IInv, RequestsInv, RequestInv
<1> DEFINE there == {s \in Stored(session) : session[s].act = q.act}
<1>3. CASE Done(h)
  BY <1>2, <1>3, DoneKeeps
<1>4. CASE activity[q.act].stage = "live" /\ Cardinality(there) = 1 /\ Goto(h, "target")
  <2>1. PICK r \in Request : Turns(h, r) /\ r.pc = "target" /\ Same(r, q) /\ r.sid = q.sid /\ r.act = q.act
    BY <1>1, <1>2, <1>4, GotoCase DEF Steps
  <2>2. UNCHANGED <<session, activity, upload, disturbed, ambiguous>>
    BY <1>2 DEF data, history
  <2>3. HandlerOK(r)'
    BY <1>2, <2>1, <2>2 DEF HandlerOK, Uploading, Attaching, Same
  <2>4. TakenFrom(r)'
    <3>1. \/ Boats \subseteq disturbed
          \/ session[q.sid].stage = "live" /\ session[q.sid].act = q.act
      BY <1>2, <1>4 DEF TakenFrom
    <3> SUFFICES ASSUME NEW s \in Sessions, session[s].stage = "live", session[s].act = q.act,
                        session[s].boat \notin disturbed
                 PROVE  s = q.sid
      BY <2>1, <2>2 DEF TakenFrom
    <3>2. session[s].boat \in Boats
      BY <1>2 DEF RowsInv
    <3>3. q.sid \in Sessions /\ session[q.sid].stage = "live" /\ session[q.sid].act = q.act
      BY <1>2, <3>1, <3>2 DEF HandlerOK, Attaching
    <3>4. there \in SUBSET Sessions /\ s \in there /\ q.sid \in there
      BY <1>2, <3>3, StoredIs
    <3>5. ~(Cardinality(there) > 1)
      BY <1>4
    <3> HIDE DEF there
    <3> QED BY <3>4, <3>5, OneOfOne
  <2>5. WillCover(r)' /\ OpensApart(r)' /\ WillBeFound(r)'
    BY <2>1 DEF WillCover, OpensApart, WillBeFound
  <2>6. Repeated(r)'
    BY <1>2, <2>1 DEF Repeated, HandlerOK, Attaching, Same
  <2>7. RequestInv(r)' /\ r.op = handler[h].op /\ r.boat = handler[h].boat
    BY <1>1, <2>1, <2>3, <2>4, <2>5, <2>6 DEF RequestInv, Same
  <2> QED BY <1>1, <1>2, <2>1, <2>7, Looked
<1> QED BY <1>1, <1>3, <1>4 DEF Count

LEMMA MoveToTargetKeeps == ASSUME IInv, NEW h \in Handlers, MoveToTarget(h) PROVE IInv'
<1>1. PICK q : q = handler[h]
  OBVIOUS
<1>2. /\ q \in Request /\ HandlerOK(q) /\ TakenFrom(q) /\ TypeOK /\ RowsInv /\ q.pc = "target" /\ q.op = "attach"
      /\ UNCHANGED <<activity, upload, requests, disturbed>>
      /\ q.sid \in Sessions /\ q.asked \in Activities
  BY <1>1, HandlerType DEF MoveToTarget, IInv, RequestsInv, RequestInv, HandlerOK, Attaching
<1>3. CASE Done(h) /\ UNCHANGED <<session, ambiguous>>
  <2>1. UNCHANGED <<data, history>>
    BY <1>2, <1>3 DEF data, history
  <2> QED BY <1>3, <2>1, DoneKeeps
<1>4. CASE /\ Goto(h, "drop") /\ activity[q.asked].stage = "live"
           /\ \/ /\ session[q.sid].stage = "live" /\ session' = [session EXCEPT ![q.sid].act = q.asked]
                 /\ ambiguous' = ambiguous \cup Moved({q.sid})
              \/ session[q.sid].stage = "gone" /\ UNCHANGED <<session, ambiguous>>
  <2>1. PICK r \in Request : Turns(h, r) /\ r.pc = "drop" /\ Same(r, q) /\ r.sid = q.sid /\ r.act = q.act
    BY <1>1, <1>2, <1>4, GotoCase DEF Steps
  <2>2. /\ \A t \in Sessions : session'[t].stage = session[t].stage /\ session'[t].boat = session[t].boat
        /\ \A t \in Sessions : t # q.sid => session'[t] = session[t]
        /\ session[q.sid].stage = "live" => session'[q.sid].act = q.asked
    BY <1>2, <1>4 DEF TypeOK, SessionRow
  <2>3. HandlerOK(r)'
    BY <1>2, <2>1, <2>2 DEF HandlerOK, Uploading, Attaching, Same
  <2>4. TakenFrom(r)'
    <3> SUFFICES ASSUME r.asked # r.act, NEW s \in Sessions, session'[s].stage = "live",
                        session'[s].act = r.act, session'[s].boat \notin disturbed
                 PROVE  FALSE
      BY <1>2, <2>1 DEF TakenFrom
    <3>1. s # q.sid
      BY <2>1, <2>2 DEF Same
    <3> QED BY <1>2, <2>1, <2>2, <3>1 DEF TakenFrom
  <2>5. WillCover(r)' /\ OpensApart(r)' /\ WillBeFound(r)'
    BY <2>1 DEF WillCover, OpensApart, WillBeFound
  <2>6. Repeated(r)'
    BY <1>2, <2>1 DEF Repeated, Same
  <2>7. RequestInv(r)' /\ r.op = handler[h].op /\ r.boat = handler[h].boat
    BY <1>1, <2>1, <2>3, <2>4, <2>5, <2>6 DEF RequestInv, Same
  <2>8. CASE session[q.sid].stage = "live"
    <3>1. PICK row : row = [session[q.sid] EXCEPT !.act = q.asked]
      OBVIOUS
    <3>2. /\ row \in SessionRow /\ row.stage = "live" /\ row.boat = session[q.sid].boat /\ row.act = q.asked
          /\ row.from = session[q.sid].from /\ row.to = session[q.sid].to
      BY <1>2, <2>8, <3>1 DEF TypeOK, SessionRow, Maybe
    <3>3. session' = [session EXCEPT ![q.sid] = row] /\ ambiguous' = ambiguous \cup Moved({q.sid})
      BY <1>2, <1>4, <2>8, <3>1
    <3>4. disturbed' \in {disturbed, disturbed \cup {row.boat}} /\ activity[row.act].stage = "live"
      BY <1>2, <1>4, <3>2
    <3>5. r.op = "attach" /\ ByHand(handler[h].op) /\ handler[h].pc # "idle"
      BY <1>1, <1>2, <2>1 DEF ByHand, Same
    <3> QED BY <1>1, <1>2, <2>1, <2>7, <2>8, <3>2, <3>3, <3>4, <3>5, MovesOne
  <2>9. CASE session[q.sid].stage # "live"
    <3>1. UNCHANGED <<data, history>>
      BY <1>2, <1>4, <2>9 DEF data, history
    <3> QED BY <1>1, <1>2, <2>1, <2>7, <3>1, Looked
  <2> QED BY <2>8, <2>9
<1> QED BY <1>1, <1>3, <1>4 DEF MoveToTarget

-----------------------------------------------------------------------------
(* Rows are deleted and edited.                                            *)

LEMMA ActivityDropped ==
    ASSUME TypeOK, RowsInv, NEW a \in Activities, DropActivity(a)
    PROVE  /\ activity' \in [Activities -> ActivityRow]
           /\ activity'[a].stage = "gone" /\ \A b \in Activities : b # a => activity'[b] = activity[b]
           /\ \A b \in Activities : activity'[b].race # None => activity'[b].from \in Int /\ activity'[b].to \in Int
<1> DEFINE gone == [NoActivity EXCEPT !.stage = "gone"]
<1>1. gone \in ActivityRow /\ gone.stage = "gone" /\ gone.race = None
  BY DEF NoActivity, ActivityRow, Stage, Maybe
<1>2. activity' = [activity EXCEPT ![a] = gone]
  BY DEF DropActivity
<1> HIDE DEF gone
<1> QED BY <1>1, <1>2 DEF TypeOK, RowsInv

LEMMA DropOldKeeps == ASSUME IInv, NEW h \in Handlers, DropOld(h) PROVE IInv'
<1>1. PICK q : q = handler[h]
  OBVIOUS
<1> DEFINE S == {s \in Stored(session) : session[s].act = q.act}
<1>2. /\ q \in Request /\ HandlerOK(q) /\ TypeOK /\ RowsInv /\ AloneInv /\ RequestsInv /\ UploadsInv /\ q.pc = "drop"
      /\ UNCHANGED <<requests, disturbed, ambiguous>> /\ DropActivity(q.act) /\ Turns(h, Idle) /\ More
  BY <1>1, HandlerType DEF DropOld, IInv, RequestsInv, RequestInv, history, Done, Turns, More
<1>3. q.act \in Activities /\ q.op = "attach" /\ Works(handler[h]) = Boats
  BY <1>1, <1>2 DEF HandlerOK, Attaching, Works, Touched, ByHand
<1>4. S \in SUBSET Sessions /\ \A s \in Sessions : s \in S <=> session[s].stage = "live" /\ session[s].act = q.act
  BY <1>2, StoredIs
<1>5. DropSessions(S)
  BY <1>2 DEF DropActivity
<1> HIDE DEF S
<1>6. /\ activity' \in [Activities -> ActivityRow]
      /\ activity'[q.act].stage = "gone" /\ \A b \in Activities : b # q.act => activity'[b] = activity[b]
      /\ \A b \in Activities : activity'[b].race # None => activity'[b].from \in Int /\ activity'[b].to \in Int
  BY <1>2, <1>3, ActivityDropped
<1>7. \A b \in Activities : activity[b].stage # "unused" => activity'[b].stage \in {activity[b].stage, "gone"}
  BY <1>6
<1>8. /\ \A r \in Request :
           RequestInv(r) /\ (r.op = "attach" /\ session[r.sid].act = r.act /\ r.sid \in S =>
                                Boats \subseteq disturbed' \/ activity'[r.act].stage = "gone")
              => RequestInv(r)'
      /\ UploadsInv'
      /\ session' \in [Sessions -> SessionRow] /\ upload' \in [Uploads -> UploadRow]
      /\ \A s \in Sessions : session'[s].stage = "live" <=> session[s].stage = "live" /\ s \notin S
      /\ \A s \in Sessions : session'[s].stage = "live" => session'[s] = session[s]
      /\ \A u \in Uploads : upload'[u].stage = "live" =>
           upload'[u] = upload[u] /\ session'[upload[u].session] = session[upload[u].session]
           /\ upload[u].session \in Sessions /\ upload[u].session \notin S
  BY <1>2, <1>4, <1>5, <1>7, Drops
<1>9. ASSUME NEW g \in Handlers \ {h}, NEW p, p = handler[g] PROVE RequestInv(p)'
  <2>1. p \in Request /\ RequestInv(p) /\ HandlerOK(p)
    BY <1>2, <1>9, HandlerType DEF RequestsInv, RequestInv
  <2>2. p.op = "attach" => Works(p) = Boats
    BY <2>1 DEF HandlerOK, Works, Touched, ByHand
  <2>3. Works(p) \cap Works(handler[h]) \subseteq disturbed
    BY <1>2, <1>9 DEF AloneInv
  <2>4. p.op = "attach" => Boats \subseteq disturbed'
    BY <1>2, <1>3, <2>2, <2>3
  <2> QED BY <1>8, <2>1, <2>4
<1>10. TypeOK'
  BY <1>2, <1>6, <1>8, IdleType, HandlerSet DEF TypeOK, Turns
<1>11. RowsInv'
  <2>1. \A s \in Sessions : session'[s].stage = "live" =>
           session'[s].boat \in Boats /\ session'[s].act \in Activities
           /\ activity'[session'[s].act].stage = "live"
    BY <1>2, <1>4, <1>6, <1>8 DEF RowsInv
  <2>2. \A u \in Uploads : upload'[u].stage = "live" =>
           upload'[u].session \in Sessions /\ session'[upload'[u].session].stage = "live"
           /\ upload'[u].win \in Windows
    BY <1>2, <1>8 DEF RowsInv
  <2> QED BY <1>6, <2>1, <2>2 DEF RowsInv
<1>12. AloneInv'
  BY <1>2, IdleType, AloneKept
<1> QED BY <1>2, <1>8, <1>9, <1>10, <1>11, <1>12, IdleType, IdleOK, Together

LEMMA ByUserKeeps ==
    ASSUME IInv, NEW B \in SUBSET Boats, ByUser(B),
           session' \in [Sessions -> SessionRow], activity' \in [Activities -> ActivityRow],
           upload' \in [Uploads -> UploadRow], RowsInv', UploadsInv',
           \A g \in Handlers : \A p : p = handler[g] => RequestInv(p)'
    PROVE  IInv'
<1>1. /\ requests < MaxRequests /\ requests' = requests + 1
      /\ disturbed' = disturbed \cup B /\ UNCHANGED <<handler, ambiguous>> /\ TypeOK
  BY DEF ByUser, IInv
<1>2. requests' \in 0..MaxRequests
  BY <1>1, Ids DEF TypeOK
<1>3. TypeOK'
  BY <1>1, <1>2 DEF TypeOK
<1>4. AloneInv'
  BY <1>1 DEF IInv, AloneInv
<1>5. RequestsInv'
  BY <1>1 DEF RequestsInv
<1> QED BY <1>3, <1>4, <1>5 DEF IInv

LEMMA UserParts ==
    ASSUME IInv, NEW B, ByUser(B)
    PROVE  /\ TypeOK /\ RowsInv /\ RequestsInv /\ UploadsInv /\ More
           /\ disturbed' = disturbed \cup B
           /\ \A g \in Handlers : handler[g] \in Request /\ RequestInv(handler[g]) /\ HandlerOK(handler[g])
BY HandlerType DEF IInv, ByUser, More, RequestsInv, RequestInv

LEMMA DeletesSession == ASSUME IInv, NEW s \in Sessions, DeleteSession(s) PROVE IInv'
<1>1. PICK B \in SUBSET Boats : ByUser(B) /\ (BeingAttached(s) => B = Boats)
  BY DEF DeleteSession
<1>2. session[s].stage = "live" /\ DropSessions({s}) /\ UNCHANGED activity
  BY StoredIs DEF DeleteSession, IInv
<1>3. /\ TypeOK /\ RowsInv /\ RequestsInv /\ UploadsInv /\ More /\ disturbed' = disturbed \cup B
      /\ \A g \in Handlers : handler[g] \in Request /\ RequestInv(handler[g]) /\ HandlerOK(handler[g])
  BY <1>1, UserParts
<1>4. /\ \A r \in Request :
           RequestInv(r) /\ (r.op = "attach" /\ session[r.sid].act = r.act /\ r.sid \in {s} =>
                                Boats \subseteq disturbed' \/ activity'[r.act].stage = "gone")
              => RequestInv(r)'
      /\ UploadsInv'
      /\ session' \in [Sessions -> SessionRow] /\ upload' \in [Uploads -> UploadRow]
      /\ \A t \in Sessions : session'[t].stage = "live" <=> session[t].stage = "live" /\ t \notin {s}
      /\ \A t \in Sessions : session'[t].stage = "live" => session'[t] = session[t]
      /\ \A u \in Uploads : upload'[u].stage = "live" =>
           upload'[u] = upload[u] /\ session'[upload[u].session] = session[upload[u].session]
           /\ upload[u].session \in Sessions /\ upload[u].session \notin {s}
  BY <1>2, <1>3, Drops
<1>5. ASSUME NEW g \in Handlers, NEW p, p = handler[g] PROVE RequestInv(p)'
  <2>1. p.op = "attach" /\ p.sid \in {s} => Boats \subseteq disturbed'
    BY <1>1, <1>3, <1>5 DEF BeingAttached
  <2> QED BY <1>3, <1>4, <1>5, <2>1
<1>6. RowsInv'
  <2>1. \A t \in Sessions : session'[t].stage = "live" =>
           session'[t].boat \in Boats /\ session'[t].act \in Activities
           /\ activity'[session'[t].act].stage = "live"
    BY <1>2, <1>3, <1>4 DEF RowsInv
  <2>2. \A u \in Uploads : upload'[u].stage = "live" =>
           upload'[u].session \in Sessions /\ session'[upload'[u].session].stage = "live"
           /\ upload'[u].win \in Windows
    BY <1>3, <1>4 DEF RowsInv
  <2> QED BY <1>2, <1>3, <2>1, <2>2 DEF RowsInv
<1>7. activity' \in [Activities -> ActivityRow]
  BY <1>2, <1>3 DEF TypeOK
<1> QED BY <1>1, <1>4, <1>5, <1>6, <1>7, ByUserKeeps

LEMMA DeletesActivity == ASSUME IInv, NEW a \in Activities, DeleteActivity(a) PROVE IInv'
<1> DEFINE S == {s \in Stored(session) : session[s].act = a}
<1>1. ByUser({}) /\ DropActivity(a) /\ activity[a].stage = "live"
  BY StoredIs DEF DeleteActivity, IInv
<1>2. /\ TypeOK /\ RowsInv /\ RequestsInv /\ UploadsInv /\ More
      /\ \A g \in Handlers : handler[g] \in Request /\ RequestInv(handler[g]) /\ HandlerOK(handler[g])
  BY <1>1, UserParts
<1>3. S \in SUBSET Sessions /\ \A s \in Sessions : s \in S <=> session[s].stage = "live" /\ session[s].act = a
  BY <1>2, StoredIs
<1>4. DropSessions(S)
  BY <1>1 DEF DropActivity
<1> HIDE DEF S
<1>5. /\ activity' \in [Activities -> ActivityRow]
      /\ activity'[a].stage = "gone" /\ \A b \in Activities : b # a => activity'[b] = activity[b]
      /\ \A b \in Activities : activity'[b].race # None => activity'[b].from \in Int /\ activity'[b].to \in Int
  BY <1>1, <1>2, ActivityDropped
<1>6. \A b \in Activities : activity[b].stage # "unused" => activity'[b].stage \in {activity[b].stage, "gone"}
  BY <1>5
<1>7. /\ \A r \in Request :
           RequestInv(r) /\ (r.op = "attach" /\ session[r.sid].act = r.act /\ r.sid \in S =>
                                Boats \subseteq disturbed' \/ activity'[r.act].stage = "gone")
              => RequestInv(r)'
      /\ UploadsInv'
      /\ session' \in [Sessions -> SessionRow] /\ upload' \in [Uploads -> UploadRow]
      /\ \A s \in Sessions : session'[s].stage = "live" <=> session[s].stage = "live" /\ s \notin S
      /\ \A s \in Sessions : session'[s].stage = "live" => session'[s] = session[s]
      /\ \A u \in Uploads : upload'[u].stage = "live" =>
           upload'[u] = upload[u] /\ session'[upload[u].session] = session[upload[u].session]
           /\ upload[u].session \in Sessions /\ upload[u].session \notin S
  BY <1>2, <1>3, <1>4, <1>6, Drops
<1>8. ASSUME NEW g \in Handlers, NEW p, p = handler[g] PROVE RequestInv(p)'
  <2>1. p.op = "attach" /\ session[p.sid].act = p.act /\ p.sid \in S => activity'[p.act].stage = "gone"
    BY <1>3, <1>5
  <2> QED BY <1>2, <1>7, <1>8, <2>1
<1>9. RowsInv'
  <2>1. \A s \in Sessions : session'[s].stage = "live" =>
           session'[s].boat \in Boats /\ session'[s].act \in Activities
           /\ activity'[session'[s].act].stage = "live"
    BY <1>2, <1>3, <1>5, <1>7 DEF RowsInv
  <2>2. \A u \in Uploads : upload'[u].stage = "live" =>
           upload'[u].session \in Sessions /\ session'[upload'[u].session].stage = "live"
           /\ upload'[u].win \in Windows
    BY <1>2, <1>7 DEF RowsInv
  <2> QED BY <1>5, <2>1, <2>2 DEF RowsInv
<1> QED BY <1>1, <1>5, <1>7, <1>8, <1>9, ByUserKeeps

LEMMA CreatesActivity ==
    ASSUME IInv, NEW type \in {"training", "solo"}, CreateActivity(type)
    PROVE  IInv'
<1> DEFINE row == [NoActivity EXCEPT !.stage = "live", !.type = type]
<1>1. ByUser({}) /\ UNCHANGED <<session, upload>>
  BY DEF CreateActivity
<1>2. PICK a \in Fresh(activity) : activity' = [activity EXCEPT ![a] = row]
  BY DEF CreateActivity
<1>3. /\ TypeOK /\ RowsInv /\ RequestsInv /\ UploadsInv /\ More
      /\ \A g \in Handlers : handler[g] \in Request /\ RequestInv(handler[g]) /\ HandlerOK(handler[g])
  BY <1>1, UserParts
<1>4. a \in Activities /\ activity[a].stage = "unused"
  BY <1>3, StoredIs
<1>5. row \in ActivityRow /\ row.stage = "live" /\ row.race = None
  BY DEF NoActivity, ActivityRow, Stage, Maybe
<1> HIDE DEF row
<1>6. /\ activity' \in [Activities -> ActivityRow] /\ activity'[a] = row
      /\ \A b \in Activities : b # a => activity'[b] = activity[b]
  BY <1>2, <1>3, <1>4, <1>5 DEF TypeOK
<1>7. \A b \in Activities : activity[b].stage # "unused" => activity'[b].stage = activity[b].stage
  BY <1>4, <1>6
<1>8. (\A p \in Request : RequestInv(p) => RequestInv(p)') /\ UploadsInv'
  BY <1>1, <1>3, <1>7, ActivitiesChange
<1>9. RowsInv'
  BY <1>1, <1>3, <1>4, <1>5, <1>6 DEF RowsInv
<1>10. \A g \in Handlers : \A p : p = handler[g] => RequestInv(p)'
  BY <1>3, <1>8
<1>11. session' \in [Sessions -> SessionRow] /\ upload' \in [Uploads -> UploadRow]
  BY <1>1, <1>3 DEF TypeOK
<1> QED BY <1>1, <1>6, <1>8, <1>9, <1>10, <1>11, ByUserKeeps

LEMMA CreatesSession ==
    ASSUME IInv, NEW a \in Activities, NEW b \in Boats, CreateSession(a, b)
    PROVE  IInv'
<1> DEFINE row == [NoSession EXCEPT !.stage = "live", !.boat = b, !.act = a]
<1>1. ByUser({b} \cap Busy) /\ activity[a].stage = "live" /\ UNCHANGED <<activity, upload>>
  BY StoredIs DEF CreateSession, IInv
<1>2. PICK s \in Fresh(session) : session' = [session EXCEPT ![s] = row]
  BY DEF CreateSession
<1>3. /\ TypeOK /\ RowsInv /\ RequestsInv /\ UploadsInv /\ More /\ disturbed' = disturbed \cup ({b} \cap Busy)
      /\ \A g \in Handlers : handler[g] \in Request /\ RequestInv(handler[g]) /\ HandlerOK(handler[g])
  BY <1>1, UserParts
<1>4. s \in Sessions /\ session[s].stage = "unused" /\ UNCHANGED ambiguous
  BY <1>1, <1>3, StoredIs DEF ByUser
<1>5. row \in SessionRow /\ row.stage = "live" /\ row.boat = b /\ row.act = a
  BY DEF NoSession, SessionRow, Stage, Maybe
<1> HIDE DEF row
<1>6. /\ session' \in [Sessions -> SessionRow] /\ session'[s] = row
      /\ \A t \in Sessions : t # s => session'[t] = session[t]
  BY <1>2, <1>3, <1>4, <1>5 DEF TypeOK
<1>7. /\ \A p \in Request : RequestInv(p) /\ (row.boat \in Works(p) => row.boat \in disturbed')
                               => RequestInv(p)'
      /\ UploadsInv'
  BY <1>1, <1>2, <1>3, <1>4, <1>5, NewRow
<1>8. ASSUME NEW g \in Handlers, NEW p, p = handler[g] PROVE RequestInv(p)'
  <2>1. b \in Works(p) => b \in Busy
    BY <1>8 DEF Works, Busy
  <2> QED BY <1>3, <1>5, <1>7, <1>8, <2>1
<1>9. RowsInv'
  BY <1>1, <1>3, <1>4, <1>5, <1>6 DEF RowsInv
<1>10. activity' \in [Activities -> ActivityRow] /\ upload' \in [Uploads -> UploadRow]
  BY <1>1, <1>3 DEF TypeOK
<1> QED BY <1>1, <1>6, <1>7, <1>8, <1>9, <1>10, ByUserKeeps

LEMMA UpdatesSession ==
    ASSUME IInv, NEW s \in Sessions, NEW w \in Windows, UpdateSession(s, w)
    PROVE  IInv'
<1>1. /\ session[s].stage = "live" /\ ByUser({session[s].boat}) /\ UNCHANGED <<activity, upload>>
      /\ session' = [session EXCEPT ![s] = [@ EXCEPT !.from = w.from, !.to = w.to]]
  BY StoredIs DEF UpdateSession, IInv
<1>2. /\ TypeOK /\ RowsInv /\ RequestsInv /\ UploadsInv /\ More /\ disturbed' = disturbed \cup {session[s].boat}
      /\ \A g \in Handlers : handler[g] \in Request /\ RequestInv(handler[g]) /\ HandlerOK(handler[g])
  BY <1>1, UserParts
<1>3. PICK row : row = [session[s] EXCEPT !.from = w.from, !.to = w.to]
  OBVIOUS
<1>4. session[s] \in SessionRow /\ session[s].boat \in Boats
  BY <1>1, <1>2 DEF TypeOK, RowsInv
<1>5. row \in SessionRow /\ row.stage = "live" /\ row.boat = session[s].boat /\ row.act = session[s].act
  BY <1>1, <1>3, <1>4, WindowType DEF SessionRow, Maybe
<1>6. session' = [session EXCEPT ![s] = row] /\ UNCHANGED ambiguous
  BY <1>1, <1>3 DEF ByUser
<1>7. /\ session' \in [Sessions -> SessionRow] /\ session'[s] = row
      /\ \A t \in Sessions : t # s => session'[t] = session[t]
  BY <1>2, <1>5, <1>6 DEF TypeOK
<1>8. /\ \A p \in Request : RequestInv(p) /\ (row.boat \in Works(p) => row.boat \in disturbed')
                               => RequestInv(p)'
      /\ UploadsInv'
  BY <1>1, <1>2, <1>5, <1>6, WindowChanges
<1>9. \A g \in Handlers : \A p : p = handler[g] => RequestInv(p)'
  BY <1>2, <1>5, <1>8
<1>10. RowsInv'
  BY <1>1, <1>2, <1>4, <1>5, <1>7 DEF RowsInv
<1>11. activity' \in [Activities -> ActivityRow] /\ upload' \in [Uploads -> UploadRow]
  BY <1>1, <1>2 DEF TypeOK
<1> QED BY <1>1, <1>4, <1>7, <1>8, <1>9, <1>10, <1>11, ByUserKeeps

-----------------------------------------------------------------------------
(* The invariant, and the properties it gives.                             *)

LEMMA Start == Init => IInv
<1> SUFFICES ASSUME Init PROVE IInv
  OBVIOUS
<1>1. /\ NoSession \in SessionRow /\ NoSession.stage = "unused"
      /\ NoUpload \in UploadRow /\ NoUpload.stage = "unused"
  BY DEF NoSession, SessionRow, NoUpload, UploadRow, Stage, Maybe
<1>2. \A a \in Activities : activity[a] \in ActivityRow /\ activity[a].race = None
  BY DEF Init, NoActivity, ActivityRow, Stage, Maybe
<1>3. /\ \A s \in Sessions : session[s] = NoSession
      /\ \A u \in Uploads : upload[u] = NoUpload
      /\ \A h \in Handlers : handler[h] = Idle
  BY DEF Init
<1>4. TypeOK
  BY <1>1, <1>2, IdleType, Ids DEF Init, TypeOK
<1>5. RowsInv
  BY <1>1, <1>2, <1>3 DEF RowsInv
<1>6. AloneInv
  BY <1>3, IdleType DEF AloneInv, Works
<1>7. HandlerOK(Idle)
  BY IdleType DEF HandlerOK, Uploading, Attaching
<1>8. TakenFrom(Idle) /\ WillCover(Idle) /\ OpensApart(Idle) /\ WillBeFound(Idle) /\ Repeated(Idle)
  BY IdleType DEF TakenFrom, WillCover, OpensApart, WillBeFound, Repeated
<1>9. RequestsInv
  BY <1>3, <1>7, <1>8 DEF RequestsInv, RequestInv
<1>10. UploadsInv
  BY <1>1, <1>3 DEF UploadsInv, IsCovered, IsFound, Pair
<1> QED BY <1>4, <1>5, <1>6, <1>9, <1>10 DEF IInv

LEMMA WorkKeeps == ASSUME IInv, NEW h \in Handlers, Work(h) PROVE IInv'
<1>1. CASE FindRaceActivity(h) \/ NewRaceActivity(h) \/ Bind(h) \/ List(h) \/ Find(h)
  BY <1>1, FindRaceActivityKeeps, NewRaceActivityKeeps, BindKeeps, ListKeeps, FindKeeps
<1>2. CASE NewSolo(h) \/ NewSession(h) \/ Widen(h) \/ LookupKey(h) \/ InsertUpload(h)
  BY <1>2, NewSoloKeeps, NewSessionKeeps, WidenKeeps, LookupKeyKeeps, InsertUploadKeeps
<1>3. CASE ChooseBest(h) \/ MoveBest(h) \/ Count(h) \/ MoveToTarget(h) \/ DropOld(h)
  BY <1>3, ChooseBestKeeps, MoveBestKeeps, CountKeeps, MoveToTargetKeeps, DropOldKeeps
<1> QED BY <1>1, <1>2, <1>3 DEF Work

LEMMA Stutters == ASSUME IInv, UNCHANGED vars PROVE IInv'
<1>1. UNCHANGED <<session, activity, upload, handler, requests, disturbed, ambiguous>>
  BY DEF vars
<1>2. TypeOK' /\ RowsInv' /\ AloneInv'
  BY <1>1 DEF IInv, TypeOK, RowsInv, AloneInv
<1>3. \A r : RequestInv(r) => RequestInv(r)'
  BY <1>1 DEF RequestInv, HandlerOK, TakenFrom, WillCover, OpensApart, WillBeFound, Repeated, Repeats,
              Excused
<1>4. RequestsInv'
  BY <1>1, <1>3 DEF IInv, RequestsInv
<1>5. UploadsInv'
  BY <1>1 DEF IInv, UploadsInv, IsCovered, IsFound, Pair, Excused
<1> QED BY <1>2, <1>4, <1>5 DEF IInv

LEMMA Inductive == IInv /\ [Next]_vars => IInv'
<1> SUFFICES ASSUME IInv, [Next]_vars PROVE IInv'
  OBVIOUS
<1>1. ASSUME NEW h \in Handlers, Ask(h) \/ Work(h) PROVE IInv'
  BY <1>1, Asks, WorkKeeps
<1>2. ASSUME NEW s \in Sessions, DeleteSession(s) \/ \E w \in Windows : UpdateSession(s, w) PROVE IInv'
  BY <1>2, DeletesSession, UpdatesSession
<1>3. ASSUME NEW a \in Activities, DeleteActivity(a) \/ \E b \in Boats : CreateSession(a, b) PROVE IInv'
  BY <1>3, DeletesActivity, CreatesSession
<1> QED BY <1>1, <1>2, <1>3, CreatesActivity, Stutters DEF Next

LEMMA Always == Spec => []IInv
<1> QED BY Start, Inductive, PTL DEF Spec

\* Every row and request has its type.
THEOREM TypeSafety == Spec => []TypeOK
<1>1. IInv => TypeOK
  BY DEF IInv
<1> QED BY <1>1, Always, PTL

\* A device that repeats a request is given the upload it has: a second row
\* for it only with overlapping requests, several near sessions or a move.
THEOREM RetriesFindTheirUpload == Spec => []RetrySameUpload
<1>1. IInv => RetrySameUpload
  BY StoredIs DEF IInv, UploadsInv, Pair, Excused, RetrySameUpload
<1> QED BY <1>1, Always, PTL

\* Uploads widen the session they are put in, so it holds what each declared.
THEOREM UploadsAreCovered == Spec => []SessionCoversUploads
<1>1. IInv => SessionCoversUploads
  BY StoredIs DEF IInv, UploadsInv, IsCovered, Covers, SessionCoversUploads
<1> QED BY <1>1, Always, PTL

\* A standalone session opens only when the boat has none of the same outing.
THEOREM OutingIsOneSession == Spec => OpensOnlyApart
<1>1. ASSUME IInv
      PROVE  \A h \in Handlers : LET r == handler[h] IN
               r.pc = "create" /\ r.asked = None /\ r.race = None /\ r.boat \notin disturbed
               => \A s \in Stored(session) : session[s].boat = r.boat => ~SameOuting(session[s], r.win)
  BY <1>1, StoredIs DEF IInv, RequestsInv, RequestInv, OpensApart
<1>2. IInv /\ [Next]_vars =>
        [\A h \in Handlers :
           LET r == handler[h] IN
           r.pc = "create" /\ session' # session /\ r.asked = None /\ r.race = None
           /\ handler'[h].sid # r.sid /\ r.boat \notin disturbed
              => \A s \in Stored(session) : session[s].boat = r.boat => ~SameOuting(session[s], r.win)]_vars
  BY <1>1
<1> QED BY <1>2, Always, PTL DEF Spec, OpensOnlyApart

\* The steps of a request that keep every session, and the one that may not.
LEMMA WorkKeepsSession ==
    ASSUME IInv, NEW h \in Handlers, Work(h), NEW s \in Sessions, session[s].stage = "live"
    PROVE  \/ session'[s].stage = "live" \/ session[s].boat \in disturbed
           \/ handler[h].pc = "drop" /\ handler[h].asked = handler[h].act
<1>1. CASE FindRaceActivity(h) \/ NewRaceActivity(h) \/ Bind(h) \/ NewSolo(h) \/ LookupKey(h) \/ InsertUpload(h)
           \/ ChooseBest(h) \/ Count(h)
  BY <1>1 DEF FindRaceActivity, NewRaceActivity, Bind, NewSolo, LookupKey, InsertUpload, ChooseBest, Count, data
<1>2. CASE List(h) \/ Find(h)
  BY <1>2 DEF List, Find, Choose, data
<1>3. CASE NewSession(h)
  <2>1. UNCHANGED session \/ \E t \in Fresh(session) : \E row : session' = [session EXCEPT ![t] = row]
    BY <1>3 DEF NewSession
  <2> QED BY <2>1, StoredIs DEF IInv, TypeOK
<1>4. CASE Widen(h)
  BY <1>4 DEF Widen, Widened, IInv, TypeOK, SessionRow
<1>5. CASE MoveBest(h) \/ MoveToTarget(h)
  <2>1. MoveToTarget(h) => UNCHANGED session \/ \E t, a : session' = [session EXCEPT ![t].act = a]
    BY DEF MoveToTarget
  <2>2. MoveToTarget(h) => session'[s].stage = "live"
    BY <2>1 DEF IInv, TypeOK, SessionRow
  <2>3. ASSUME NEW t, NEW a, NEW x, session' = [session EXCEPT ![t] = [Widened(@, x) EXCEPT !.act = a]]
        PROVE  session'[s].stage = "live"
    BY <2>3 DEF IInv, TypeOK, SessionRow, Widened
  <2>4. ASSUME NEW x \in handler[h].left,
               session' = IF session[x.sid].stage = "live"
                 THEN [session EXCEPT ![x.sid] = [Widened(@, x) EXCEPT !.act = handler[h].act]] ELSE session
        PROVE  session'[s].stage = "live"
    BY <2>3, <2>4
  <2>5. MoveBest(h) => session'[s].stage = "live"
    BY <2>4 DEF MoveBest
  <2> QED BY <1>5, <2>2, <2>5
<1>6. CASE DropOld(h)
  <2>1. TakenFrom(handler[h]) /\ handler[h].pc = "drop"
    BY <1>6 DEF IInv, RequestsInv, RequestInv, DropOld
  <2>2. session'[s] = session[s] \/ session[s].act = handler[h].act
    BY <1>6, StoredIs DEF DropOld, DropActivity, DropSessions, IInv
  <2> QED BY <2>1, <2>2 DEF TakenFrom
<1> QED BY <1>1, <1>2, <1>3, <1>4, <1>5, <1>6 DEF Work

\* A session and its uploads go only when a user deletes it or its activity;
\* attaching removes an emptied wrapper, and nothing else with it.
THEOREM SessionsStay == Spec => SessionsKept
<1> DEFINE Stay == \A s \in Stored(session) :
                      session'[s].stage = "live" \/ requests' # requests
                      \/ session[s].boat \in disturbed
                      \/ \E h \in Handlers : handler[h].pc = "drop" /\ handler[h].asked = handler[h].act
<1>1. ASSUME IInv, Next PROVE Stay
  <2>1. requests \in Int /\ Stored(session) = {s \in Sessions : session[s].stage = "live"}
    BY <1>1, StoredIs DEF IInv, TypeOK
  <2>2. ASSUME NEW h \in Handlers, Ask(h) PROVE requests' # requests
    <3>1. \A r : Begin(h, r) => requests' # requests
      BY <2>1 DEF Begin
    <3>2. \A b, w, k, a : DeviceUpload(h, b, w, k, a) \/ Import(h, b, w, a) => requests' # requests
      BY <3>1 DEF DeviceUpload, Import
    <3>3. \A s, w, a : ImportInto(h, s, w) \/ Attach(h, s, a) => requests' # requests
      BY <3>1 DEF ImportInto, Attach
    <3>4. \A e, b, w : MatchSessions(h, e) \/ RaceGpx(h, e, b, w) => requests' # requests
      BY <3>1 DEF MatchSessions, RaceGpx
    <3> QED BY <2>2, <3>2, <3>3, <3>4 DEF Ask
  <2>3. ASSUME NEW h \in Handlers, Work(h) PROVE Stay
    BY <1>1, <2>1, <2>3, WorkKeepsSession
  <2>4. ASSUME NEW B, ByUser(B) PROVE requests' # requests
    BY <2>1, <2>4 DEF ByUser
  <2>5. (\E h \in Handlers : Ask(h) \/ Work(h)) \/ \E B : ByUser(B)
    BY <1>1 DEF Next, DeleteSession, UpdateSession, DeleteActivity, CreateSession, CreateActivity
  <2> QED BY <2>2, <2>3, <2>4, <2>5
<1>2. IInv /\ [Next]_vars => [Stay]_vars
  BY <1>1
<1> QED BY <1>2, Always, PTL DEF Spec, SessionsKept

-----------------------------------------------------------------------------
(***************************************************************************)
(* The schema.  A schema is a set of facts and a fact names its table, so  *)
(* the proof first computes what each version says of each table (the      *)
(* lemmas named after tables), then what each revision needs and leaves,   *)
(* and only then looks at the rows.                                        *)
(***************************************************************************)

\* What a schema says of one table.
On(s, t) == {f \in s : f[2] = t}

\* Which table the facts of a declaration are about, and below, of which kind they are.
LEMMA FactTables ==
    /\ \A t, r, k, e, f : f \in Table(t, r, k, e) => f[2] = t
    /\ \A t, c, n, f : f \in Column(t, c, n) => f[2] = t
    /\ \A t, r, f : f \in Refs(t, r) => f[2] = t
    /\ \A t, e, f : f \in Enums(t, e) => f[2] = t
    /\ \A t, k, f : f \in UniqueKeys(t, k) => f[2] = t
    /\ \A t, n, cs, f : f \in Rule(t, n, cs) => f[2] = t
  BY DEF Table, Column, Refs, Enums, UniqueKeys, Rule

LEMMA FactKinds ==
    /\ \A t, r, k, e, f : f \in Table(t, r, k, e) =>
          /\ f[1] \in {"table", "ref", "key", "enum"}
          /\ f[1] = "ref" => f[3] \in DOMAIN r /\ f[4] = r[f[3]]
          /\ f[1] = "enum" => f[3] \in DOMAIN e /\ f[4] = e[f[3]]
    /\ \A t, r, k, f : f \in Table(t, r, k, NoFields) => f[1] \in {"table", "ref", "key"}
    /\ \A t, k, e, f : f \in Table(t, NoFields, k, e) => f[1] \in {"table", "key", "enum"}
    /\ \A t, c, n, f : f \in Column(t, c, n) => f[1] = "column" /\ f[3] \in c /\ f[4] = n
    /\ \A t, r, f : f \in Refs(t, r) => f[1] = "ref" /\ f[3] \in DOMAIN r /\ f[4] = r[f[3]]
    /\ \A t, e, f : f \in Enums(t, e) => f[1] = "enum" /\ f[3] \in DOMAIN e /\ f[4] = e[f[3]]
    /\ \A t, k, f : f \in UniqueKeys(t, k) => f[1] = "key"
    /\ \A t, n, cs, f : f \in Rule(t, n, cs) => f[1] = "rule" /\ f[3] = n
  BY DEF Table, Column, Refs, Enums, UniqueKeys, Rule, NoFields

\* Where the five kinds of foreign key lead, and which of them delete.
LEMMA LinkRules ==
    \A r : /\ \A k \in {PartOf(r), MaybePartOf(r)} : k[1] = r /\ k[2] = "CASCADE"
           /\ \A k \in {LinksTo(r), Needs(r), MaybeNeeds(r)} : k[1] = r /\ k[2] # "CASCADE"
  BY DEF PartOf, MaybePartOf, LinksTo, Needs, MaybeNeeds

\* The CHECKs of a table are facts of their own.
LEMMA EnumsApart == \A t, r, k, e : Table(t, r, k, e) = Table(t, r, k, NoFields) \cup Enums(t, e)
  BY DEF Table, Enums, NoFields

LEMMA NothingDeclared == \A t : Enums(t, NoFields) = {} /\ Refs(t, NoFields) = {} /\
    UniqueKeys(t, {}) = {}
  BY DEF Enums, Refs, UniqueKeys, NoFields

LEMMA ChainLength == Newest = 34
  BY DEF Newest, Revisions

\* g holds the schemas of the first n revisions.
ChainBegins(n, g) ==
    /\ g[0] = {}
    /\ \A v \in 1..n : g[v] = Changed(g[v - 1], Revisions[v].up)

LEMMA ChainExtended ==
    ASSUME NEW n \in Nat, \E g : ChainBegins(n, g)
    PROVE  \E g : ChainBegins(n + 1, g)
<1>1. PICK g : ChainBegins(n, g)
  OBVIOUS
<1>. DEFINE h == [v \in 0..n + 1 |->
                    IF v = n + 1 THEN Changed(g[n], Revisions[n + 1].up) ELSE g[v]]
<1>2. h[0] = {}
  BY <1>1 DEF ChainBegins
<1>3. ASSUME NEW v \in 1..n + 1
      PROVE  h[v] = Changed(h[v - 1], Revisions[v].up)
  <2>1. CASE v = n + 1
    BY <2>1
  <2>2. CASE v \in 1..n
    BY <1>1, <2>2 DEF ChainBegins
  <2>. QED BY <2>1, <2>2
<1>4. ChainBegins(n + 1, h)
  BY <1>2, <1>3 DEF ChainBegins
<1>. QED BY <1>4

\* SchemaAt is the function its recursion describes: TLA+ defines it by a choice.
LEMMA Chain ==
    /\ SchemaAt[0] = {}
    /\ \A v \in 1..34 : SchemaAt[v] = Changed(SchemaAt[v - 1], Revisions[v].up)
<1>. DEFINE P(n) == \E g : ChainBegins(n, g)
            Equation(g) == g = [v \in 0..34 |->
                IF v = 0 THEN {} ELSE Changed(g[v - 1], Revisions[v].up)]
<1>1. P(0)
  <2>. DEFINE h == [v \in 0..0 |-> {}]
  <2>1. ChainBegins(0, h)
    BY DEF ChainBegins
  <2>. QED BY <2>1
<1>2. \A n \in Nat : P(n) => P(n + 1)
  BY ChainExtended
<1>. HIDE DEF P
<1>3. P(10)
  BY <1>1, <1>2
<1>4. P(20)
  BY <1>3, <1>2
<1>5. P(34)
  BY <1>4, <1>2
<1>6. PICK g : ChainBegins(34, g)
  BY <1>5 DEF P
<1>. DEFINE h == [v \in 0..34 |-> g[v]]
<1>7. Equation(h)
  <2>1. ASSUME NEW v \in 0..34
        PROVE  h[v] = IF v = 0 THEN {} ELSE Changed(h[v - 1], Revisions[v].up)
    <3>1. CASE v = 0
      BY <1>6, <3>1 DEF ChainBegins
    <3>2. CASE v \in 1..34
      <4>1. v - 1 \in 0..34 /\ v # 0
        BY <3>2
      <4>2. g[v] = Changed(g[v - 1], Revisions[v].up)
        BY <1>6, <3>2 DEF ChainBegins
      <4>. QED BY <4>1, <4>2
    <3>. QED BY <3>1, <3>2
  <2>. QED BY <2>1
<1>8. SchemaAt = CHOOSE k : Equation(k)
  BY ChainLength DEF SchemaAt
<1>. HIDE DEF h
<1>9. Equation(SchemaAt)
  <2>. HIDE DEF Equation
  <2>. QED BY <1>7, <1>8
<1>10. ASSUME NEW v \in 0..34
       PROVE  SchemaAt[v] = IF v = 0 THEN {} ELSE Changed(SchemaAt[v - 1], Revisions[v].up)
  BY <1>9, Zenon
<1>11. SchemaAt[0] = {}
  BY <1>10
<1>12. ASSUME NEW v \in 1..34
       PROVE  SchemaAt[v] = Changed(SchemaAt[v - 1], Revisions[v].up)
  <2>1. v \in 0..34 /\ v # 0
    OBVIOUS
  <2>. QED BY <1>10, <2>1, Zenon
<1>. QED BY <1>11, <1>12

LEMMA TheRevisions ==
    /\ Revisions[1] = R0001 /\ Revisions[2] = R0002 /\ Revisions[3] = R0003
    /\ Revisions[4] = R0004 /\ Revisions[5] = R0005 /\ Revisions[6] = R0006
    /\ Revisions[7] = R0007 /\ Revisions[8] = R0008 /\ Revisions[9] = R0009
    /\ Revisions[10] = R0010 /\ Revisions[11] = R0011 /\ Revisions[12] = R0012
    /\ Revisions[13] = R0013 /\ Revisions[14] = R0014 /\ Revisions[15] = R0015
    /\ Revisions[16] = R0016 /\ Revisions[17] = R0017 /\ Revisions[18] = R0018
    /\ Revisions[19] = R0019 /\ Revisions[20] = R0020 /\ Revisions[21] = R0021
    /\ Revisions[22] = R0022 /\ Revisions[23] = R0023 /\ Revisions[24] = R0024
    /\ Revisions[25] = R0025 /\ Revisions[26] = R0026 /\ Revisions[27] = R0027
    /\ Revisions[28] = R0028 /\ Revisions[29] = R0029 /\ Revisions[30] = R0030
    /\ Revisions[31] = R0031 /\ Revisions[32] = R0032 /\ Revisions[33] = R0033
    /\ Revisions[34] = R0034
  BY DEF Revisions

\* Revision v changes the tables ts only.
SameBut(v, ts) == \A t : t \notin ts => On(SchemaAt[v], t) = On(SchemaAt[v - 1], t)

LEMMA OnStep ==
    ASSUME NEW v \in 1..34, NEW ch, Revisions[v].up = ch, ch.gone = {}
    PROVE  /\ \A t : On(SchemaAt[v], t) =
                    (On(SchemaAt[v - 1], t) \ ch.drop) \cup On(ch.add, t)
           /\ \A ts : (\A f \in ch.drop \cup ch.add : f[2] \in ts) => SameBut(v, ts)
  BY Chain DEF Changed, On, SameBut

\* The tables of the baseline.
FirstTables ==
    {"device_types", "permissions", "roles", "users", "wind_stations", "auth_refresh_tokens",
        "files", "images", "imports", "role_permissions", "wind_observations", "boat_classes",
        "clubs", "groups", "boats", "regattas", "user_clubs", "user_groups", "user_roles",
        "boat_photos", "devices", "race_days", "user_boats", "races", "activities", "marks",
        "sessions", "polar_points", "results", "session_crew", "session_photos", "session_stats",
        "session_uploads", "session_videos", "session_streams"}

\* The tables a session, a boat, an activity or a result may depend on, and so on up.
Upstream == {"sessions", "boats", "activities", "results", "regattas", "races", "race_days"}

\* No row of those tables is deleted but with a row of those tables, and none with a boat.
Harmless(f) ==
    f[1] = "ref" /\ f[4][2] = "CASCADE" /\ f[2] \in Upstream => f[4][1] \in Upstream \ {"boats"}

\* What an upgrade may be: it drops no table and refers to tables that are there.
Shape(v, ch, ts) ==
    /\ ch.gone = {}
    /\ \A f \in ch.drop \cup ch.add : f[2] \in ts
    /\ \A f \in ch.drop : f[1] # "table"
    /\ \A f \in ch.add : f[1] = "ref" => f[4][1] \in FirstTables \/ (v = 26 /\ f[4][1] = "posts")
    /\ \A f \in ch.add : Harmless(f)

LEMMA Shapes ==
    /\ Shape(2, R0002.up, {"user_groups", "user_clubs"})
    /\ Shape(3, R0003.up, {"boats"})
    /\ Shape(4, R0004.up, {"session_maneuvers", "session_legs", "session_analysis"})
    /\ Shape(5, R0005.up, {"session_analysis"})
    /\ Shape(6, R0006.up, {"users"})
    /\ Shape(7, R0007.up, {"session_analysis"})
    /\ Shape(8, R0008.up, {"activities"})
    /\ Shape(9, R0009.up, {"wind_observations"})
    /\ Shape(10, R0010.up, {"session_legs"})
    /\ Shape(11, R0011.up, {"wind_stations", "wind_observations", "wind_estimates"})
    /\ Shape(12, R0012.up, {"session_analysis"})
    /\ Shape(13, R0013.up, {"session_streams"})
    /\ Shape(14, R0014.up, {"session_uploads"})
    /\ Shape(15, R0015.up, {"session_maneuvers"})
    /\ Shape(16, R0016.up, {"session_maneuvers"})
    /\ Shape(17, R0017.up, {"session_maneuvers"})
    /\ Shape(18, R0018.up, {"session_maneuvers"})
    /\ Shape(19, R0019.up, {"boat_classes"})
    /\ Shape(20, R0020.up, {"boat_classes"})
    /\ Shape(21, R0021.up, {"wind_stations"})
    /\ Shape(22, R0022.up, {"wind_stations"})
    /\ Shape(23, R0023.up, {"sessions"})
    /\ Shape(24, R0024.up, {"app_config"})
    /\ Shape(25, R0025.up, {"posts"})
    /\ Shape(26, R0026.up, {"posts", "post_images"})
    /\ Shape(27, R0027.up, {"activities"})
    /\ Shape(28, R0028.up, {"regattas"})
    /\ Shape(29, R0029.up, {"posts"})
    /\ Shape(30, R0030.up, {"marks"})
    /\ Shape(31, R0031.up, {"posts"})
    /\ Shape(32, R0032.up, {"integration_connections"})
    /\ Shape(33, R0033.up, {"users"})
    /\ Shape(34, R0034.up, {"users"})
<1>2. Shape(2, R0002.up, {"user_groups", "user_clubs"})
  BY FactTables, FactKinds DEF Shape, Harmless, Upstream, FirstTables, R0002, Swap, ClubStatus,
       Change
<1>3. Shape(3, R0003.up, {"boats"})
  <2>1. \A f \in R0003.up.add : f[1] = "ref" => f[4] \in {LinksTo("boat_classes")}
    BY FactKinds DEF R0003, Swap, Change
  <2>2. \A f \in R0003.up.drop \cup R0003.up.add : f[2] \in {"boats"}
    BY FactTables DEF R0003, Swap, Change
  <2>3. R0003.up.gone = {} /\ \A f \in R0003.up.drop : f[1] # "table"
    BY FactKinds DEF R0003, Swap, Change
  <2>4. \A f \in R0003.up.add : Harmless(f)
    BY <2>1, <2>2, LinkRules DEF Harmless, Upstream
  <2>5. \A f \in R0003.up.add : f[1] = "ref" => f[4][1] \in FirstTables
    BY <2>1, LinkRules DEF FirstTables
  <2>. QED BY <2>2, <2>3, <2>4, <2>5 DEF Shape
<1>4. Shape(4, R0004.up, {"session_maneuvers", "session_legs", "session_analysis"})
  <2>1. \A f \in R0004.up.add : f[1] = "ref" => f[4] \in {PartOf("sessions")}
    BY FactKinds DEF R0004, Add, Gone, Change
  <2>2. \A f \in R0004.up.drop \cup R0004.up.add : f[2] \in
        {"session_maneuvers", "session_legs", "session_analysis"}
    BY FactTables DEF R0004, Add, Gone, Change
  <2>3. R0004.up.gone = {} /\ \A f \in R0004.up.drop : f[1] # "table"
    BY FactKinds DEF R0004, Add, Gone, Change
  <2>4. \A f \in R0004.up.add : Harmless(f)
    BY <2>1, <2>2, LinkRules DEF Harmless, Upstream
  <2>5. \A f \in R0004.up.add : f[1] = "ref" => f[4][1] \in FirstTables
    BY <2>1, LinkRules DEF FirstTables
  <2>. QED BY <2>2, <2>3, <2>4, <2>5 DEF Shape
<1>5. Shape(5, R0005.up, {"session_analysis"})
  BY FactTables, FactKinds DEF Shape, Harmless, Upstream, FirstTables, R0005, Add, Drop, Change
<1>6. Shape(6, R0006.up, {"users"})
  BY FactTables, FactKinds DEF Shape, Harmless, Upstream, FirstTables, R0006, Add, Drop, Change
<1>7. Shape(7, R0007.up, {"session_analysis"})
  <2>1. \A f \in R0007.up.add : f[1] = "ref" => f[4] \in {LinksTo("images")}
    BY FactKinds DEF R0007, Add, Drop, Change
  <2>2. \A f \in R0007.up.drop \cup R0007.up.add : f[2] \in {"session_analysis"}
    BY FactTables DEF R0007, Add, Drop, Change
  <2>3. R0007.up.gone = {} /\ \A f \in R0007.up.drop : f[1] # "table"
    BY FactKinds DEF R0007, Add, Drop, Change
  <2>4. \A f \in R0007.up.add : Harmless(f)
    BY <2>1, <2>2, LinkRules DEF Harmless, Upstream
  <2>5. \A f \in R0007.up.add : f[1] = "ref" => f[4][1] \in FirstTables
    BY <2>1, LinkRules DEF FirstTables
  <2>. QED BY <2>2, <2>3, <2>4, <2>5 DEF Shape
<1>8. Shape(8, R0008.up, {"activities"})
  <2>1. \A f \in R0008.up.add : f[1] = "ref" => f[4] \in {LinksTo("images")}
    BY FactKinds DEF R0008, Add, Drop, Change
  <2>2. \A f \in R0008.up.drop \cup R0008.up.add : f[2] \in {"activities"}
    BY FactTables DEF R0008, Add, Drop, Change
  <2>3. R0008.up.gone = {} /\ \A f \in R0008.up.drop : f[1] # "table"
    BY FactKinds DEF R0008, Add, Drop, Change
  <2>4. \A f \in R0008.up.add : Harmless(f)
    BY <2>1, <2>2, LinkRules DEF Harmless, Upstream
  <2>5. \A f \in R0008.up.add : f[1] = "ref" => f[4][1] \in FirstTables
    BY <2>1, LinkRules DEF FirstTables
  <2>. QED BY <2>2, <2>3, <2>4, <2>5 DEF Shape
<1>9. Shape(9, R0009.up, {"wind_observations"})
  BY FactTables, FactKinds DEF Shape, Harmless, Upstream, FirstTables, R0009, Add, Drop,
       IsForecast, Change
<1>10. Shape(10, R0010.up, {"session_legs"})
  BY FactTables, FactKinds DEF Shape, Harmless, Upstream, FirstTables, R0010, Add, Drop, Change
<1>11. Shape(11, R0011.up, {"wind_stations", "wind_observations", "wind_estimates"})
  BY FactTables, FactKinds DEF Shape, Harmless, Upstream, FirstTables, R0011, Swap, Change,
       IsForecast, Provider, StationType
<1>12. Shape(12, R0012.up, {"session_analysis"})
  BY FactTables, FactKinds DEF Shape, Harmless, Upstream, FirstTables, R0012, Add, Drop, Change
<1>13. Shape(13, R0013.up, {"session_streams"})
  BY FactTables, FactKinds DEF Shape, Harmless, Upstream, FirstTables, R0013, Swap, SensorType,
       Change
<1>14. Shape(14, R0014.up, {"session_uploads"})
  BY FactTables, FactKinds DEF Shape, Harmless, Upstream, FirstTables, R0014, Add, Drop, Change
<1>15. Shape(15, R0015.up, {"session_maneuvers"})
  BY FactTables, FactKinds DEF Shape, Harmless, Upstream, FirstTables, R0015, Swap, ManeuverType,
       Change
<1>16. Shape(16, R0016.up, {"session_maneuvers"})
  BY FactTables, FactKinds DEF Shape, Harmless, Upstream, FirstTables, R0016, Add, Drop, Change
<1>17. Shape(17, R0017.up, {"session_maneuvers"})
  BY FactTables, FactKinds DEF Shape, Harmless, Upstream, FirstTables, R0017, Add, Drop, Change
<1>18. Shape(18, R0018.up, {"session_maneuvers"})
  BY FactTables, FactKinds DEF Shape, Harmless, Upstream, FirstTables, R0018, Add, Drop, Change
<1>19. Shape(19, R0019.up, {"boat_classes"})
  BY FactTables, FactKinds DEF Shape, Harmless, Upstream, FirstTables, R0019, Add, Drop, Change
<1>20. Shape(20, R0020.up, {"boat_classes"})
  BY FactTables, FactKinds DEF Shape, Harmless, Upstream, FirstTables, R0020, Add, Drop, Change
<1>21. Shape(21, R0021.up, {"wind_stations"})
  BY FactTables, FactKinds DEF Shape, Harmless, Upstream, FirstTables, R0021, Swap, Provider,
       Change
<1>22. Shape(22, R0022.up, {"wind_stations"})
  BY FactTables, FactKinds DEF Shape, Harmless, Upstream, FirstTables, R0022, Swap, Provider,
       Change
<1>23. Shape(23, R0023.up, {"sessions"})
  BY FactTables, FactKinds DEF Shape, Harmless, Upstream, FirstTables, R0023, Add, Drop, Change
<1>24. Shape(24, R0024.up, {"app_config"})
  BY FactTables, FactKinds DEF Shape, Harmless, Upstream, FirstTables, R0024, Add, Gone, Change
<1>25. Shape(25, R0025.up, {"posts"})
  <2>1. \A f \in R0025.up.add : f[1] = "ref" => f[4] \in {LinksTo("images"), LinksTo("users")}
    BY FactKinds DEF R0025, Add, Gone, PostImage, Change
  <2>2. \A f \in R0025.up.drop \cup R0025.up.add : f[2] \in {"posts"}
    BY FactTables DEF R0025, Add, Gone, PostImage, Change
  <2>3. R0025.up.gone = {} /\ \A f \in R0025.up.drop : f[1] # "table"
    BY FactKinds DEF R0025, Add, Gone, PostImage, Change
  <2>4. \A f \in R0025.up.add : Harmless(f)
    BY <2>1, <2>2, LinkRules DEF Harmless, Upstream
  <2>5. \A f \in R0025.up.add : f[1] = "ref" => f[4][1] \in FirstTables
    BY <2>1, LinkRules DEF FirstTables
  <2>. QED BY <2>2, <2>3, <2>4, <2>5 DEF Shape
<1>26. Shape(26, R0026.up, {"posts", "post_images"})
  <2>1. \A f \in R0026.up.add : f[1] = "ref" => f[4] \in {PartOf("images"), PartOf("posts")}
    BY FactKinds DEF R0026, Swap, Change, PostImage
  <2>2. \A f \in R0026.up.drop \cup R0026.up.add : f[2] \in {"posts", "post_images"}
    BY FactTables DEF R0026, Swap, Change, PostImage
  <2>3. R0026.up.gone = {} /\ \A f \in R0026.up.drop : f[1] # "table"
    BY FactKinds DEF R0026, Swap, Change, PostImage
  <2>4. \A f \in R0026.up.add : Harmless(f)
    BY <2>1, <2>2, LinkRules DEF Harmless, Upstream
  <2>5. \A f \in R0026.up.add : f[1] = "ref" => f[4][1] \in FirstTables \cup {"posts"}
    BY <2>1, LinkRules DEF FirstTables
  <2>. QED BY <2>2, <2>3, <2>4, <2>5 DEF Shape
<1>27. Shape(27, R0027.up, {"activities"})
  BY FactTables, FactKinds DEF Shape, Harmless, Upstream, FirstTables, R0027, Add, Drop, Change
<1>28. Shape(28, R0028.up, {"regattas"})
  <2>1. \A f \in R0028.up.add : f[1] = "ref" => f[4] \in {LinksTo("images")}
    BY FactKinds DEF R0028, Add, Drop, Change
  <2>2. \A f \in R0028.up.drop \cup R0028.up.add : f[2] \in {"regattas"}
    BY FactTables DEF R0028, Add, Drop, Change
  <2>3. R0028.up.gone = {} /\ \A f \in R0028.up.drop : f[1] # "table"
    BY FactKinds DEF R0028, Add, Drop, Change
  <2>4. \A f \in R0028.up.add : Harmless(f)
    BY <2>1, <2>2, LinkRules DEF Harmless, Upstream
  <2>5. \A f \in R0028.up.add : f[1] = "ref" => f[4][1] \in FirstTables
    BY <2>1, LinkRules DEF FirstTables
  <2>. QED BY <2>2, <2>3, <2>4, <2>5 DEF Shape
<1>29. Shape(29, R0029.up, {"posts"})
  BY FactTables, FactKinds DEF Shape, Harmless, Upstream, FirstTables, R0029, Add, Drop, Change
<1>30. Shape(30, R0030.up, {"marks"})
  BY FactTables, FactKinds DEF Shape, Harmless, Upstream, FirstTables, R0030, Swap, MarkRole,
       Change
<1>31. Shape(31, R0031.up, {"posts"})
  <2>1. \A f \in R0031.up.add : f[1] = "ref" => f[4] \in
        {LinksTo("activities"), LinksTo("regattas")}
    BY FactKinds DEF R0031, Add, Drop, Change
  <2>2. \A f \in R0031.up.drop \cup R0031.up.add : f[2] \in {"posts"}
    BY FactTables DEF R0031, Add, Drop, Change
  <2>3. R0031.up.gone = {} /\ \A f \in R0031.up.drop : f[1] # "table"
    BY FactKinds DEF R0031, Add, Drop, Change
  <2>4. \A f \in R0031.up.add : Harmless(f)
    BY <2>1, <2>2, LinkRules DEF Harmless, Upstream
  <2>5. \A f \in R0031.up.add : f[1] = "ref" => f[4][1] \in FirstTables
    BY <2>1, LinkRules DEF FirstTables
  <2>. QED BY <2>2, <2>3, <2>4, <2>5 DEF Shape
<1>32. Shape(32, R0032.up, {"integration_connections"})
  <2>1. \A f \in R0032.up.add : f[1] = "ref" => f[4] \in {PartOf("users")}
    BY FactKinds DEF R0032, Add, Gone, Change
  <2>2. \A f \in R0032.up.drop \cup R0032.up.add : f[2] \in {"integration_connections"}
    BY FactTables DEF R0032, Add, Gone, Change
  <2>3. R0032.up.gone = {} /\ \A f \in R0032.up.drop : f[1] # "table"
    BY FactKinds DEF R0032, Add, Gone, Change
  <2>4. \A f \in R0032.up.add : Harmless(f)
    BY <2>1, <2>2, LinkRules DEF Harmless, Upstream
  <2>5. \A f \in R0032.up.add : f[1] = "ref" => f[4][1] \in FirstTables
    BY <2>1, LinkRules DEF FirstTables
  <2>. QED BY <2>2, <2>3, <2>4, <2>5 DEF Shape
<1>33. Shape(33, R0033.up, {"users"})
  BY FactTables, FactKinds DEF Shape, Harmless, Upstream, FirstTables, R0033, Add, Drop, Change
<1>34. Shape(34, R0034.up, {"users"})
  BY FactTables, FactKinds DEF Shape, Harmless, Upstream, FirstTables, R0034, Add, Drop, Change
<1>. QED BY <1>2, <1>3, <1>4, <1>5, <1>6, <1>7, <1>8, <1>9, <1>10, <1>11, <1>12, <1>13, <1>14,
     <1>15, <1>16, <1>17, <1>18, <1>19, <1>20, <1>21, <1>22, <1>23, <1>24, <1>25, <1>26, <1>27,
     <1>28, <1>29, <1>30, <1>31, <1>32, <1>33, <1>34

LEMMA Untouched ==
    /\ SameBut(2, {"user_groups", "user_clubs"})
    /\ SameBut(3, {"boats"})
    /\ SameBut(4, {"session_maneuvers", "session_legs", "session_analysis"})
    /\ SameBut(5, {"session_analysis"})
    /\ SameBut(6, {"users"})
    /\ SameBut(7, {"session_analysis"})
    /\ SameBut(8, {"activities"})
    /\ SameBut(9, {"wind_observations"})
    /\ SameBut(10, {"session_legs"})
    /\ SameBut(11, {"wind_stations", "wind_observations", "wind_estimates"})
    /\ SameBut(12, {"session_analysis"})
    /\ SameBut(13, {"session_streams"})
    /\ SameBut(14, {"session_uploads"})
    /\ SameBut(15, {"session_maneuvers"})
    /\ SameBut(16, {"session_maneuvers"})
    /\ SameBut(17, {"session_maneuvers"})
    /\ SameBut(18, {"session_maneuvers"})
    /\ SameBut(19, {"boat_classes"})
    /\ SameBut(20, {"boat_classes"})
    /\ SameBut(21, {"wind_stations"})
    /\ SameBut(22, {"wind_stations"})
    /\ SameBut(23, {"sessions"})
    /\ SameBut(24, {"app_config"})
    /\ SameBut(25, {"posts"})
    /\ SameBut(26, {"posts", "post_images"})
    /\ SameBut(27, {"activities"})
    /\ SameBut(28, {"regattas"})
    /\ SameBut(29, {"posts"})
    /\ SameBut(30, {"marks"})
    /\ SameBut(31, {"posts"})
    /\ SameBut(32, {"integration_connections"})
    /\ SameBut(33, {"users"})
    /\ SameBut(34, {"users"})
<1>1. ASSUME NEW v \in 2..34, NEW ts, Shape(v, Revisions[v].up, ts)
      PROVE  SameBut(v, ts)
  <2>1. v \in 1..34 /\ Revisions[v].up.gone = {}
    BY <1>1 DEF Shape
  <2>2. \A f \in Revisions[v].up.drop \cup Revisions[v].up.add : f[2] \in ts
    BY <1>1 DEF Shape
  <2>. HIDE DEF Revisions
  <2>. QED BY <2>1, <2>2, OnStep
<1>. QED BY <1>1, Shapes, TheRevisions

\* The tables of each part of the baseline.
LEMMA Grouped ==
    /\ \A f \in BaselineAccounts : f[2] \in {"device_types", "permissions", "roles", "users",
       "wind_stations", "auth_refresh_tokens"}
    /\ \A f \in BaselineMedia : f[2] \in {"files", "images", "imports", "role_permissions",
       "wind_observations", "boat_classes"}
    /\ \A f \in BaselineFleet : f[2] \in {"clubs", "groups", "boats", "regattas"}
    /\ \A f \in BaselineMembers : f[2] \in {"user_clubs", "user_groups", "user_roles",
       "boat_photos", "devices", "race_days", "user_boats"}
    /\ \A f \in BaselineRaces : f[2] \in {"races", "activities", "marks", "sessions",
       "polar_points", "results"}
    /\ \A f \in BaselineSessions : f[2] \in {"session_crew", "session_photos", "session_stats",
       "session_uploads", "session_videos", "session_streams"}
<1>1. \A f \in BaselineAccounts : f[2] \in {"device_types", "permissions", "roles", "users",
      "wind_stations", "auth_refresh_tokens"}
  BY FactTables DEF BaselineAccounts
<1>2. \A f \in BaselineMedia : f[2] \in {"files", "images", "imports", "role_permissions",
      "wind_observations", "boat_classes"}
  BY FactTables DEF BaselineMedia
<1>3. \A f \in BaselineFleet : f[2] \in {"clubs", "groups", "boats", "regattas"}
  BY FactTables DEF BaselineFleet
<1>4. \A f \in BaselineMembers : f[2] \in {"user_clubs", "user_groups", "user_roles",
      "boat_photos", "devices", "race_days", "user_boats"}
  BY FactTables DEF BaselineMembers
<1>5. \A f \in BaselineRaces : f[2] \in {"races", "activities", "marks", "sessions",
      "polar_points", "results"}
  BY FactTables DEF BaselineRaces
<1>6. \A f \in BaselineSessions : f[2] \in {"session_crew", "session_photos", "session_stats",
      "session_uploads", "session_videos", "session_streams"}
  BY FactTables DEF BaselineSessions
<1>. QED BY <1>1, <1>2, <1>3, <1>4, <1>5, <1>6

LEMMA FirstSchema == SchemaAt[1] = Baseline
<1>1. 1 - 1 = 0 /\ 1 \in 1..34
  OBVIOUS
<1>2. SchemaAt[1] = Changed(SchemaAt[1 - 1], Revisions[1].up)
  BY Chain, <1>1, Zenon
<1>. QED BY <1>1, <1>2, Chain, TheRevisions DEF R0001, Add, Change, Changed

\* The tables no revision touches are what their ORM classes declare from the start.
LEMMA FixedTables ==
    /\ \A v \in 1..34 : On(SchemaAt[v], "device_types") = DeviceTypeORM
    /\ \A v \in 1..34 : On(SchemaAt[v], "permissions") = PermissionORM
    /\ \A v \in 1..34 : On(SchemaAt[v], "roles") = RoleORM
    /\ \A v \in 1..34 : On(SchemaAt[v], "auth_refresh_tokens") = AuthRefreshTokenORM
    /\ \A v \in 1..34 : On(SchemaAt[v], "files") = FileORM
    /\ \A v \in 1..34 : On(SchemaAt[v], "images") = ImageORM
    /\ \A v \in 1..34 : On(SchemaAt[v], "imports") = ImportORM
    /\ \A v \in 1..34 : On(SchemaAt[v], "role_permissions") = RolePermissionORM
    /\ \A v \in 1..34 : On(SchemaAt[v], "clubs") = ClubORM
    /\ \A v \in 1..34 : On(SchemaAt[v], "groups") = GroupORM
    /\ \A v \in 1..34 : On(SchemaAt[v], "user_roles") = UserRoleORM
    /\ \A v \in 1..34 : On(SchemaAt[v], "boat_photos") = BoatPhotoORM
    /\ \A v \in 1..34 : On(SchemaAt[v], "devices") = DeviceORM
    /\ \A v \in 1..34 : On(SchemaAt[v], "race_days") = RaceDayORM
    /\ \A v \in 1..34 : On(SchemaAt[v], "user_boats") = UserBoatORM
    /\ \A v \in 1..34 : On(SchemaAt[v], "races") = RaceORM
    /\ \A v \in 1..34 : On(SchemaAt[v], "polar_points") = PolarPointORM
    /\ \A v \in 1..34 : On(SchemaAt[v], "results") = ResultORM
    /\ \A v \in 1..34 : On(SchemaAt[v], "session_crew") = SessionCrewORM
    /\ \A v \in 1..34 : On(SchemaAt[v], "session_photos") = SessionPhotoORM
    /\ \A v \in 1..34 : On(SchemaAt[v], "session_stats") = SessionStatsORM
    /\ \A v \in 1..34 : On(SchemaAt[v], "session_videos") = SessionVideoORM
<1>1. \A v \in 1..34 : On(SchemaAt[v], "device_types") = DeviceTypeORM
  <2>1. \A f : f \in BaselineAccounts /\ f[2] = "device_types" <=> f \in DeviceTypeORM
    BY FactTables DEF BaselineAccounts, DeviceTypeORM
  <2>2. On(SchemaAt[1], "device_types") = DeviceTypeORM
    BY <2>1, Grouped, FirstSchema DEF On, Baseline
  <2>. QED BY <2>2, Untouched DEF SameBut
<1>2. \A v \in 1..34 : On(SchemaAt[v], "permissions") = PermissionORM
  <2>1. \A f : f \in BaselineAccounts /\ f[2] = "permissions" <=> f \in PermissionORM
    BY FactTables DEF BaselineAccounts, PermissionORM
  <2>2. On(SchemaAt[1], "permissions") = PermissionORM
    BY <2>1, Grouped, FirstSchema DEF On, Baseline
  <2>. QED BY <2>2, Untouched DEF SameBut
<1>3. \A v \in 1..34 : On(SchemaAt[v], "roles") = RoleORM
  <2>1. \A f : f \in BaselineAccounts /\ f[2] = "roles" <=> f \in RoleORM
    BY FactTables DEF BaselineAccounts, RoleORM
  <2>2. On(SchemaAt[1], "roles") = RoleORM
    BY <2>1, Grouped, FirstSchema DEF On, Baseline
  <2>. QED BY <2>2, Untouched DEF SameBut
<1>4. \A v \in 1..34 : On(SchemaAt[v], "auth_refresh_tokens") = AuthRefreshTokenORM
  <2>1. \A f : f \in BaselineAccounts /\ f[2] = "auth_refresh_tokens" <=> f \in
        AuthRefreshTokenORM
    BY FactTables DEF BaselineAccounts, AuthRefreshTokenORM
  <2>2. On(SchemaAt[1], "auth_refresh_tokens") = AuthRefreshTokenORM
    BY <2>1, Grouped, FirstSchema DEF On, Baseline
  <2>. QED BY <2>2, Untouched DEF SameBut
<1>5. \A v \in 1..34 : On(SchemaAt[v], "files") = FileORM
  <2>1. \A f : f \in BaselineMedia /\ f[2] = "files" <=> f \in FileORM
    BY FactTables DEF BaselineMedia, FileORM
  <2>2. On(SchemaAt[1], "files") = FileORM
    BY <2>1, Grouped, FirstSchema DEF On, Baseline
  <2>. QED BY <2>2, Untouched DEF SameBut
<1>6. \A v \in 1..34 : On(SchemaAt[v], "images") = ImageORM
  <2>1. \A f : f \in BaselineMedia /\ f[2] = "images" <=> f \in ImageORM
    BY FactTables DEF BaselineMedia, ImageORM
  <2>2. On(SchemaAt[1], "images") = ImageORM
    BY <2>1, Grouped, FirstSchema DEF On, Baseline
  <2>. QED BY <2>2, Untouched DEF SameBut
<1>7. \A v \in 1..34 : On(SchemaAt[v], "imports") = ImportORM
  <2>1. \A f : f \in BaselineMedia /\ f[2] = "imports" <=> f \in ImportORM
    BY FactTables DEF BaselineMedia, ImportORM
  <2>2. On(SchemaAt[1], "imports") = ImportORM
    BY <2>1, Grouped, FirstSchema DEF On, Baseline
  <2>. QED BY <2>2, Untouched DEF SameBut
<1>8. \A v \in 1..34 : On(SchemaAt[v], "role_permissions") = RolePermissionORM
  <2>1. \A f : f \in BaselineMedia /\ f[2] = "role_permissions" <=> f \in RolePermissionORM
    BY FactTables DEF BaselineMedia, RolePermissionORM
  <2>2. On(SchemaAt[1], "role_permissions") = RolePermissionORM
    BY <2>1, Grouped, FirstSchema DEF On, Baseline
  <2>. QED BY <2>2, Untouched DEF SameBut
<1>9. \A v \in 1..34 : On(SchemaAt[v], "clubs") = ClubORM
  <2>1. \A f : f \in BaselineFleet /\ f[2] = "clubs" <=> f \in ClubORM
    BY FactTables DEF BaselineFleet, ClubORM
  <2>2. On(SchemaAt[1], "clubs") = ClubORM
    BY <2>1, Grouped, FirstSchema DEF On, Baseline
  <2>. QED BY <2>2, Untouched DEF SameBut
<1>10. \A v \in 1..34 : On(SchemaAt[v], "groups") = GroupORM
  <2>1. \A f : f \in BaselineFleet /\ f[2] = "groups" <=> f \in GroupORM
    BY FactTables DEF BaselineFleet, GroupORM
  <2>2. On(SchemaAt[1], "groups") = GroupORM
    BY <2>1, Grouped, FirstSchema DEF On, Baseline
  <2>. QED BY <2>2, Untouched DEF SameBut
<1>11. \A v \in 1..34 : On(SchemaAt[v], "user_roles") = UserRoleORM
  <2>1. \A f : f \in BaselineMembers /\ f[2] = "user_roles" <=> f \in UserRoleORM
    BY FactTables DEF BaselineMembers, UserRoleORM
  <2>2. On(SchemaAt[1], "user_roles") = UserRoleORM
    BY <2>1, Grouped, FirstSchema DEF On, Baseline
  <2>. QED BY <2>2, Untouched DEF SameBut
<1>12. \A v \in 1..34 : On(SchemaAt[v], "boat_photos") = BoatPhotoORM
  <2>1. \A f : f \in BaselineMembers /\ f[2] = "boat_photos" <=> f \in BoatPhotoORM
    BY FactTables DEF BaselineMembers, BoatPhotoORM
  <2>2. On(SchemaAt[1], "boat_photos") = BoatPhotoORM
    BY <2>1, Grouped, FirstSchema DEF On, Baseline
  <2>. QED BY <2>2, Untouched DEF SameBut
<1>13. \A v \in 1..34 : On(SchemaAt[v], "devices") = DeviceORM
  <2>1. \A f : f \in BaselineMembers /\ f[2] = "devices" <=> f \in DeviceORM
    BY FactTables DEF BaselineMembers, DeviceORM
  <2>2. On(SchemaAt[1], "devices") = DeviceORM
    BY <2>1, Grouped, FirstSchema DEF On, Baseline
  <2>. QED BY <2>2, Untouched DEF SameBut
<1>14. \A v \in 1..34 : On(SchemaAt[v], "race_days") = RaceDayORM
  <2>1. \A f : f \in BaselineMembers /\ f[2] = "race_days" <=> f \in RaceDayORM
    BY FactTables DEF BaselineMembers, RaceDayORM
  <2>2. On(SchemaAt[1], "race_days") = RaceDayORM
    BY <2>1, Grouped, FirstSchema DEF On, Baseline
  <2>. QED BY <2>2, Untouched DEF SameBut
<1>15. \A v \in 1..34 : On(SchemaAt[v], "user_boats") = UserBoatORM
  <2>1. \A f : f \in BaselineMembers /\ f[2] = "user_boats" <=> f \in UserBoatORM
    BY FactTables DEF BaselineMembers, UserBoatORM
  <2>2. On(SchemaAt[1], "user_boats") = UserBoatORM
    BY <2>1, Grouped, FirstSchema DEF On, Baseline
  <2>. QED BY <2>2, Untouched DEF SameBut
<1>16. \A v \in 1..34 : On(SchemaAt[v], "races") = RaceORM
  <2>1. \A f : f \in BaselineRaces /\ f[2] = "races" <=> f \in RaceORM
    BY FactTables DEF BaselineRaces, RaceORM
  <2>2. On(SchemaAt[1], "races") = RaceORM
    BY <2>1, Grouped, FirstSchema DEF On, Baseline
  <2>. QED BY <2>2, Untouched DEF SameBut
<1>17. \A v \in 1..34 : On(SchemaAt[v], "polar_points") = PolarPointORM
  <2>1. \A f : f \in BaselineRaces /\ f[2] = "polar_points" <=> f \in PolarPointORM
    BY FactTables DEF BaselineRaces, PolarPointORM
  <2>2. On(SchemaAt[1], "polar_points") = PolarPointORM
    BY <2>1, Grouped, FirstSchema DEF On, Baseline
  <2>. QED BY <2>2, Untouched DEF SameBut
<1>18. \A v \in 1..34 : On(SchemaAt[v], "results") = ResultORM
  <2>1. \A f : f \in BaselineRaces /\ f[2] = "results" <=> f \in ResultORM
    BY FactTables DEF BaselineRaces, ResultORM
  <2>2. On(SchemaAt[1], "results") = ResultORM
    BY <2>1, Grouped, FirstSchema DEF On, Baseline
  <2>. QED BY <2>2, Untouched DEF SameBut
<1>19. \A v \in 1..34 : On(SchemaAt[v], "session_crew") = SessionCrewORM
  <2>1. \A f : f \in BaselineSessions /\ f[2] = "session_crew" <=> f \in SessionCrewORM
    BY FactTables DEF BaselineSessions, SessionCrewORM
  <2>2. On(SchemaAt[1], "session_crew") = SessionCrewORM
    BY <2>1, Grouped, FirstSchema DEF On, Baseline
  <2>. QED BY <2>2, Untouched DEF SameBut
<1>20. \A v \in 1..34 : On(SchemaAt[v], "session_photos") = SessionPhotoORM
  <2>1. \A f : f \in BaselineSessions /\ f[2] = "session_photos" <=> f \in SessionPhotoORM
    BY FactTables DEF BaselineSessions, SessionPhotoORM
  <2>2. On(SchemaAt[1], "session_photos") = SessionPhotoORM
    BY <2>1, Grouped, FirstSchema DEF On, Baseline
  <2>. QED BY <2>2, Untouched DEF SameBut
<1>21. \A v \in 1..34 : On(SchemaAt[v], "session_stats") = SessionStatsORM
  <2>1. \A f : f \in BaselineSessions /\ f[2] = "session_stats" <=> f \in SessionStatsORM
    BY FactTables DEF BaselineSessions, SessionStatsORM
  <2>2. On(SchemaAt[1], "session_stats") = SessionStatsORM
    BY <2>1, Grouped, FirstSchema DEF On, Baseline
  <2>. QED BY <2>2, Untouched DEF SameBut
<1>22. \A v \in 1..34 : On(SchemaAt[v], "session_videos") = SessionVideoORM
  <2>1. \A f : f \in BaselineSessions /\ f[2] = "session_videos" <=> f \in SessionVideoORM
    BY FactTables DEF BaselineSessions, SessionVideoORM
  <2>2. On(SchemaAt[1], "session_videos") = SessionVideoORM
    BY <2>1, Grouped, FirstSchema DEF On, Baseline
  <2>. QED BY <2>2, Untouched DEF SameBut
<1>. QED BY <1>1, <1>2, <1>3, <1>4, <1>5, <1>6, <1>7, <1>8, <1>9, <1>10, <1>11, <1>12, <1>13,
     <1>14, <1>15, <1>16, <1>17, <1>18, <1>19, <1>20, <1>21, <1>22

\* users, as the revisions leave it: the number is that of the revision.
Users1 ==
    Table("users", [profile_image_id |-> LinksTo("images")], {{"email"}},
        [status |-> {"inactive", "active", "deleted"}]) \cup
    Column("users", {"terms_and_conditions"}, "required")
Users6 == Users1 \cup
    Column("users", {"unit_system"}, "required") \cup
    Enums("users", [unit_system |-> {"nautical", "metric"}])
Users33 == Users6 \cup
    Column("users", {"terms_version", "terms_accepted_at", "privacy_version",
        "privacy_accepted_at"}, "optional")
Users34 == Users33 \cup
    Column("users", {"support_prompt_next_at", "support_donated_at"}, "optional")

LEMMA UsersTable ==
    /\ \A v \in 1..5 : On(SchemaAt[v], "users") = Users1
    /\ \A v \in 6..32 : On(SchemaAt[v], "users") = Users6
    /\ On(SchemaAt[33], "users") = Users33
    /\ On(SchemaAt[34], "users") = Users34
    /\ Users34 = UserORM
<1>1. \A f : f \in BaselineAccounts /\ f[2] = "users" <=> f \in Users1
  BY FactTables, EnumsApart DEF BaselineAccounts, Users1
<1>2. On(SchemaAt[1], "users") = Users1
  BY <1>1, Grouped, FirstSchema DEF On, Baseline
<1>3. \A v \in 1..5 : On(SchemaAt[v], "users") = Users1
  BY <1>2, Untouched DEF SameBut
<1>4. On(SchemaAt[6], "users") = Users6
  <2>1. On(R0006.up.add, "users") = Column("users", {"unit_system"}, "required") \cup
        Enums("users", [unit_system |-> {"nautical", "metric"}])
    BY FactTables, EnumsApart DEF On, R0006, Add, Drop, Change
  <2>2. Users1 \ R0006.up.drop = Users1
    BY DEF R0006, Add, Drop, Change
  <2>3. On(SchemaAt[6], "users") = (On(SchemaAt[5], "users") \ R0006.up.drop) \cup
        On(R0006.up.add, "users")
    BY Shapes, TheRevisions, OnStep DEF Shape
  <2>. QED BY <2>1, <2>2, <2>3, <1>3 DEF Users6, Users1
<1>5. \A v \in 6..32 : On(SchemaAt[v], "users") = Users6
  BY <1>4, Untouched DEF SameBut
<1>6. On(SchemaAt[33], "users") = Users33
  <2>1. On(R0033.up.add, "users") = Column("users", {"terms_version", "terms_accepted_at",
        "privacy_version", "privacy_accepted_at"}, "optional")
    BY FactTables, EnumsApart DEF On, R0033, Add, Drop, Change
  <2>2. Users6 \ R0033.up.drop = Users6
    BY DEF R0033, Add, Drop, Change
  <2>3. On(SchemaAt[33], "users") = (On(SchemaAt[32], "users") \ R0033.up.drop) \cup
        On(R0033.up.add, "users")
    BY Shapes, TheRevisions, OnStep DEF Shape
  <2>. QED BY <2>1, <2>2, <2>3, <1>5 DEF Users33, Users6, Users1
<1>7. On(SchemaAt[34], "users") = Users34
  <2>1. On(R0034.up.add, "users") = Column("users", {"support_prompt_next_at",
        "support_donated_at"}, "optional")
    BY FactTables, EnumsApart DEF On, R0034, Add, Drop, Change
  <2>2. Users33 \ R0034.up.drop = Users33
    BY DEF R0034, Add, Drop, Change
  <2>3. On(SchemaAt[34], "users") = (On(SchemaAt[33], "users") \ R0034.up.drop) \cup
        On(R0034.up.add, "users")
    BY Shapes, TheRevisions, OnStep DEF Shape
  <2>. QED BY <2>1, <2>2, <2>3, <1>6 DEF Users34, Users33, Users6, Users1
<1>8. Users34 = UserORM
  <2>1. Enums("users", [status |-> {"inactive", "active", "deleted"}, unit_system |->
        {"nautical", "metric"}]) = Enums("users", [status |-> {"inactive", "active", "deleted"}])
        \cup Enums("users", [unit_system |-> {"nautical", "metric"}])
    BY DEF Enums
  <2>2. Column("users", {"terms_version", "terms_accepted_at", "privacy_version",
        "privacy_accepted_at", "support_prompt_next_at", "support_donated_at"}, "optional") =
        Column("users", {"terms_version", "terms_accepted_at", "privacy_version",
        "privacy_accepted_at"}, "optional") \cup Column("users",
        {"support_prompt_next_at", "support_donated_at"}, "optional")
    BY DEF Column
  <2>3. Column("users", {"terms_and_conditions", "unit_system"}, "required") =
        Column("users", {"terms_and_conditions"}, "required") \cup
        Column("users", {"unit_system"}, "required")
    BY DEF Column
  <2>. QED BY <2>1, <2>2, <2>3, NothingDeclared DEF Table, UserORM, Users34, Users33, Users6,
       Users1
<1>. QED BY <1>1, <1>2, <1>3, <1>4, <1>5, <1>6, <1>7, <1>8

\* user_groups, as the revisions leave it: the number is that of the revision.
UserGroups1 ==
    Table("user_groups", [group_id |-> PartOf("groups"), user_id |-> PartOf("users")],
        {{"user_id", "group_id"}}, [role |-> {"owner", "admin", "member"}])
UserGroups2 == UserGroups1 \cup
    Column("user_groups", {"status"}, "required") \cup
    Enums("user_groups", [status |-> {"invited", "requested", "active"}])

LEMMA UserGroupsTable ==
    /\ On(SchemaAt[1], "user_groups") = UserGroups1
    /\ \A v \in 2..34 : On(SchemaAt[v], "user_groups") = UserGroups2
    /\ UserGroups2 = UserGroupORM
<1>1. \A f : f \in BaselineMembers /\ f[2] = "user_groups" <=> f \in UserGroups1
  BY FactTables, EnumsApart DEF BaselineMembers, UserGroups1
<1>2. On(SchemaAt[1], "user_groups") = UserGroups1
  BY <1>1, Grouped, FirstSchema DEF On, Baseline
<1>3. On(SchemaAt[2], "user_groups") = UserGroups2
  <2>1. On(R0002.up.add, "user_groups") = Column("user_groups", {"status"}, "required") \cup
        Enums("user_groups", [status |-> {"invited", "requested", "active"}])
    BY FactTables, EnumsApart DEF On, R0002, Swap, ClubStatus, Change
  <2>2. UserGroups1 \ R0002.up.drop = UserGroups1
    BY FactTables, FactKinds DEF UserGroups1, R0002, Swap, ClubStatus, Change
  <2>3. On(SchemaAt[2], "user_groups") = (On(SchemaAt[1], "user_groups") \ R0002.up.drop) \cup
        On(R0002.up.add, "user_groups")
    BY Shapes, TheRevisions, OnStep DEF Shape
  <2>. QED BY <2>1, <2>2, <2>3, <1>2 DEF UserGroups2, UserGroups1
<1>4. \A v \in 2..34 : On(SchemaAt[v], "user_groups") = UserGroups2
  BY <1>3, Untouched DEF SameBut
<1>5. UserGroups2 = UserGroupORM
  <2>1. Refs("user_groups", [user_id |-> PartOf("users"), group_id |-> PartOf("groups")]) =
        Refs("user_groups", [group_id |-> PartOf("groups"), user_id |-> PartOf("users")])
    BY DEF Refs
  <2>2. Enums("user_groups", [role |-> {"owner", "admin", "member"}, status |->
        {"invited", "requested", "active"}]) = Enums("user_groups",
        [role |-> {"owner", "admin", "member"}]) \cup Enums("user_groups",
        [status |-> {"invited", "requested", "active"}])
    BY DEF Enums
  <2>. QED BY <2>1, <2>2, NothingDeclared DEF Table, UserGroupORM, UserGroups2, UserGroups1
<1>. QED BY <1>1, <1>2, <1>3, <1>4, <1>5

\* user_clubs, as the revisions leave it: the number is that of the revision.
UserClubs1 ==
    Table("user_clubs", [user_id |-> PartOf("users"), club_id |-> PartOf("clubs")],
        {{"user_id", "club_id"}}, NoFields) \cup
    Enums("user_clubs", [status |-> {"invited", "active", "deleted"}])
UserClubs2 ==
    Table("user_clubs", [user_id |-> PartOf("users"), club_id |-> PartOf("clubs")],
        {{"user_id", "club_id"}}, NoFields) \cup
    Enums("user_clubs", [status |-> {"invited", "requested", "active", "deleted"}])

LEMMA UserClubsTable ==
    /\ On(SchemaAt[1], "user_clubs") = UserClubs1
    /\ \A v \in 2..34 : On(SchemaAt[v], "user_clubs") = UserClubs2
    /\ UserClubs2 = UserClubORM
<1>1. \A f : f \in BaselineMembers /\ f[2] = "user_clubs" <=> f \in UserClubs1
  BY FactTables, EnumsApart DEF BaselineMembers, UserClubs1
<1>2. On(SchemaAt[1], "user_clubs") = UserClubs1
  BY <1>1, Grouped, FirstSchema DEF On, Baseline
<1>3. On(SchemaAt[2], "user_clubs") = UserClubs2
  <2>1. On(R0002.up.add, "user_clubs") = Enums("user_clubs",
        [status |-> {"invited", "requested", "active", "deleted"}])
    BY FactTables, EnumsApart DEF On, R0002, Swap, ClubStatus, Change
  <2>2. UserClubs1 \ R0002.up.drop = Table("user_clubs",
        [user_id |-> PartOf("users"), club_id |-> PartOf("clubs")], {{"user_id", "club_id"}},
        NoFields)
    BY FactTables, FactKinds DEF UserClubs1, R0002, Swap, ClubStatus, Change
  <2>3. On(SchemaAt[2], "user_clubs") = (On(SchemaAt[1], "user_clubs") \ R0002.up.drop) \cup
        On(R0002.up.add, "user_clubs")
    BY Shapes, TheRevisions, OnStep DEF Shape
  <2>. QED BY <2>1, <2>2, <2>3, <1>2 DEF UserClubs2
<1>4. \A v \in 2..34 : On(SchemaAt[v], "user_clubs") = UserClubs2
  BY <1>3, Untouched DEF SameBut
<1>5. UserClubs2 = UserClubORM
  BY NothingDeclared DEF Table, UserClubORM, UserClubs2
<1>. QED BY <1>1, <1>2, <1>3, <1>4, <1>5

\* boats, as the revisions leave it: the number is that of the revision.
Boats1 ==
    Table("boats", [cert_id |-> LinksTo("files"), club_id |-> LinksTo("clubs"), mbsa_id |->
        LinksTo("files")], {}, NoFields) \cup
    Column("boats", {"type"}, "optional")
Boats3 ==
    Table("boats", [cert_id |-> LinksTo("files"), club_id |-> LinksTo("clubs"), mbsa_id |->
        LinksTo("files")], {}, NoFields) \cup
    Refs("boats", [boat_class_id |-> LinksTo("boat_classes")])

LEMMA BoatsTable ==
    /\ \A v \in 1..2 : On(SchemaAt[v], "boats") = Boats1
    /\ \A v \in 3..34 : On(SchemaAt[v], "boats") = Boats3
    /\ Boats3 = BoatORM
<1>1. \A f : f \in BaselineFleet /\ f[2] = "boats" <=> f \in Boats1
  BY FactTables, EnumsApart DEF BaselineFleet, Boats1
<1>2. On(SchemaAt[1], "boats") = Boats1
  BY <1>1, Grouped, FirstSchema DEF On, Baseline
<1>3. \A v \in 1..2 : On(SchemaAt[v], "boats") = Boats1
  BY <1>2, Untouched DEF SameBut
<1>4. On(SchemaAt[3], "boats") = Boats3
  <2>1. On(R0003.up.add, "boats") = Refs("boats", [boat_class_id |-> LinksTo("boat_classes")])
    BY FactTables, EnumsApart DEF On, R0003, Swap, Change
  <2>2. Boats1 \ R0003.up.drop = Table("boats", [cert_id |-> LinksTo("files"), club_id |->
        LinksTo("clubs"), mbsa_id |-> LinksTo("files")], {}, NoFields)
    BY FactTables, FactKinds DEF Boats1, R0003, Swap, Change
  <2>3. On(SchemaAt[3], "boats") = (On(SchemaAt[2], "boats") \ R0003.up.drop) \cup
        On(R0003.up.add, "boats")
    BY Shapes, TheRevisions, OnStep DEF Shape
  <2>. QED BY <2>1, <2>2, <2>3, <1>3 DEF Boats3
<1>5. \A v \in 3..34 : On(SchemaAt[v], "boats") = Boats3
  BY <1>4, Untouched DEF SameBut
<1>6. Boats3 = BoatORM
  <2>1. Refs("boats", [boat_class_id |-> LinksTo("boat_classes"), cert_id |-> LinksTo("files"),
        mbsa_id |-> LinksTo("files"), club_id |-> LinksTo("clubs")]) =
        Refs("boats", [cert_id |-> LinksTo("files"), club_id |-> LinksTo("clubs"), mbsa_id |->
        LinksTo("files")]) \cup Refs("boats", [boat_class_id |-> LinksTo("boat_classes")])
    BY DEF Refs
  <2>. QED BY <2>1, NothingDeclared DEF Table, BoatORM, Boats3
<1>. QED BY <1>1, <1>2, <1>3, <1>4, <1>5, <1>6

\* session_maneuvers, as the revisions leave it: the number is that of the revision.
SessionManeuvers4 ==
    Table("session_maneuvers", [session_id |-> PartOf("sessions")], {}, NoFields) \cup
    Enums("session_maneuvers", [maneuver_type |-> {"tack", "gybe"}]) \cup
    Column("session_maneuvers", {"max_heel_deg"}, "optional")
SessionManeuvers15 ==
    Table("session_maneuvers", [session_id |-> PartOf("sessions")], {}, NoFields) \cup
    Column("session_maneuvers", {"max_heel_deg"}, "optional") \cup
    Column("session_maneuvers", {"features"}, "optional") \cup
    Enums("session_maneuvers", [maneuver_type |-> {"tack", "gybe", "course_change"}])
SessionManeuvers16 ==
    Table("session_maneuvers", [session_id |-> PartOf("sessions")], {}, NoFields) \cup
    Column("session_maneuvers", {"features"}, "optional") \cup
    Enums("session_maneuvers", [maneuver_type |-> {"tack", "gybe", "course_change"}])
SessionManeuvers17 == SessionManeuvers16 \cup
    Column("session_maneuvers", {"original_maneuver_type", "corrected_by_user"}, "required") \cup
    Enums("session_maneuvers", [original_maneuver_type |-> {"tack", "gybe", "course_change"}])
SessionManeuvers18 == SessionManeuvers17 \cup
    Column("session_maneuvers", {"source", "rejected", "pending"}, "required") \cup
    Enums("session_maneuvers", [source |-> {"detected", "manual"}])

LEMMA SessionManeuversTable ==
    /\ \A v \in 1..3 : On(SchemaAt[v], "session_maneuvers") = {}
    /\ \A v \in 4..14 : On(SchemaAt[v], "session_maneuvers") = SessionManeuvers4
    /\ On(SchemaAt[15], "session_maneuvers") = SessionManeuvers15
    /\ On(SchemaAt[16], "session_maneuvers") = SessionManeuvers16
    /\ On(SchemaAt[17], "session_maneuvers") = SessionManeuvers17
    /\ \A v \in 18..34 : On(SchemaAt[v], "session_maneuvers") = SessionManeuvers18
    /\ SessionManeuvers18 = SessionManeuverORM
<1>1. On(SchemaAt[1], "session_maneuvers") = {}
  BY FirstSchema, Grouped DEF On, Baseline
<1>2. \A v \in 1..3 : On(SchemaAt[v], "session_maneuvers") = {}
  BY <1>1, Untouched DEF SameBut
<1>3. On(SchemaAt[4], "session_maneuvers") = SessionManeuvers4
  <2>1. On(R0004.up.add, "session_maneuvers") = SessionManeuvers4
    BY FactTables, EnumsApart DEF On, SessionManeuvers4, R0004, Add, Gone, Change
  <2>2. On(SchemaAt[4], "session_maneuvers") = (On(SchemaAt[3], "session_maneuvers") \
        R0004.up.drop) \cup On(R0004.up.add, "session_maneuvers")
    BY Shapes, TheRevisions, OnStep DEF Shape
  <2>. QED BY <2>1, <2>2, <1>2
<1>4. \A v \in 4..14 : On(SchemaAt[v], "session_maneuvers") = SessionManeuvers4
  BY <1>3, Untouched DEF SameBut
<1>5. On(SchemaAt[15], "session_maneuvers") = SessionManeuvers15
  <2>1. On(R0015.up.add, "session_maneuvers") = Column("session_maneuvers", {"features"},
        "optional") \cup Enums("session_maneuvers", [maneuver_type |->
        {"tack", "gybe", "course_change"}])
    BY FactTables, EnumsApart DEF On, R0015, Swap, ManeuverType, Change
  <2>2. SessionManeuvers4 \ R0015.up.drop = Table("session_maneuvers",
        [session_id |-> PartOf("sessions")], {}, NoFields) \cup
        Column("session_maneuvers", {"max_heel_deg"}, "optional")
    BY FactTables, FactKinds DEF SessionManeuvers4, R0015, Swap, ManeuverType, Change
  <2>3. On(SchemaAt[15], "session_maneuvers") = (On(SchemaAt[14], "session_maneuvers") \
        R0015.up.drop) \cup On(R0015.up.add, "session_maneuvers")
    BY Shapes, TheRevisions, OnStep DEF Shape
  <2>. QED BY <2>1, <2>2, <2>3, <1>4 DEF SessionManeuvers15
<1>6. On(SchemaAt[16], "session_maneuvers") = SessionManeuvers16
  <2>1. On(R0016.up.add, "session_maneuvers") = {}
    BY FactTables, EnumsApart DEF On, R0016, Add, Drop, Change
  <2>2. SessionManeuvers15 \ R0016.up.drop = Table("session_maneuvers",
        [session_id |-> PartOf("sessions")], {}, NoFields) \cup
        Column("session_maneuvers", {"features"}, "optional") \cup
        Enums("session_maneuvers", [maneuver_type |-> {"tack", "gybe", "course_change"}])
    BY FactTables, FactKinds DEF SessionManeuvers15, R0016, Add, Drop, Change
  <2>3. On(SchemaAt[16], "session_maneuvers") = (On(SchemaAt[15], "session_maneuvers") \
        R0016.up.drop) \cup On(R0016.up.add, "session_maneuvers")
    BY Shapes, TheRevisions, OnStep DEF Shape
  <2>4. On(SchemaAt[15], "session_maneuvers") = SessionManeuvers15
    BY <1>5
  <2>5. On(SchemaAt[16], "session_maneuvers") = (SessionManeuvers15 \ R0016.up.drop) \cup {}
    BY <2>1, <2>3, <2>4
  <2>. QED BY <2>2, <2>5 DEF SessionManeuvers16
<1>7. On(SchemaAt[17], "session_maneuvers") = SessionManeuvers17
  <2>1. On(R0017.up.add, "session_maneuvers") = Column("session_maneuvers",
        {"original_maneuver_type", "corrected_by_user"}, "required") \cup
        Enums("session_maneuvers", [original_maneuver_type |-> {"tack", "gybe", "course_change"}])
    BY FactTables, EnumsApart DEF On, R0017, Add, Drop, Change
  <2>2. SessionManeuvers16 \ R0017.up.drop = SessionManeuvers16
    BY DEF R0017, Add, Drop, Change
  <2>3. On(SchemaAt[17], "session_maneuvers") = (On(SchemaAt[16], "session_maneuvers") \
        R0017.up.drop) \cup On(R0017.up.add, "session_maneuvers")
    BY Shapes, TheRevisions, OnStep DEF Shape
  <2>. QED BY <2>1, <2>2, <2>3, <1>6 DEF SessionManeuvers17, SessionManeuvers16
<1>8. On(SchemaAt[18], "session_maneuvers") = SessionManeuvers18
  <2>1. On(R0018.up.add, "session_maneuvers") = Column("session_maneuvers",
        {"source", "rejected", "pending"}, "required") \cup
        Enums("session_maneuvers", [source |-> {"detected", "manual"}])
    BY FactTables, EnumsApart DEF On, R0018, Add, Drop, Change
  <2>2. SessionManeuvers17 \ R0018.up.drop = SessionManeuvers17
    BY DEF R0018, Add, Drop, Change
  <2>3. On(SchemaAt[18], "session_maneuvers") = (On(SchemaAt[17], "session_maneuvers") \
        R0018.up.drop) \cup On(R0018.up.add, "session_maneuvers")
    BY Shapes, TheRevisions, OnStep DEF Shape
  <2>. QED BY <2>1, <2>2, <2>3, <1>7 DEF SessionManeuvers18, SessionManeuvers17,
       SessionManeuvers16
<1>9. \A v \in 18..34 : On(SchemaAt[v], "session_maneuvers") = SessionManeuvers18
  BY <1>8, Untouched DEF SameBut
<1>10. SessionManeuvers18 = SessionManeuverORM
  <2>1. Enums("session_maneuvers", [maneuver_type |-> {"tack", "gybe", "course_change"},
        original_maneuver_type |-> {"tack", "gybe", "course_change"}, source |->
        {"detected", "manual"}]) = Enums("session_maneuvers",
        [maneuver_type |-> {"tack", "gybe", "course_change"}]) \cup
        Enums("session_maneuvers", [original_maneuver_type |->
        {"tack", "gybe", "course_change"}]) \cup Enums("session_maneuvers",
        [source |-> {"detected", "manual"}])
    BY DEF Enums
  <2>2. Column("session_maneuvers", {"original_maneuver_type", "corrected_by_user", "source",
        "rejected", "pending"}, "required") = Column("session_maneuvers",
        {"original_maneuver_type", "corrected_by_user"}, "required") \cup
        Column("session_maneuvers", {"source", "rejected", "pending"}, "required")
    BY DEF Column
  <2>. QED BY <2>1, <2>2, NothingDeclared DEF Table, SessionManeuverORM, SessionManeuvers18,
       SessionManeuvers17, SessionManeuvers16
<1>. QED BY <1>1, <1>2, <1>3, <1>4, <1>5, <1>6, <1>7, <1>8, <1>9, <1>10

\* session_legs, as the revisions leave it: the number is that of the revision.
SessionLegs4 ==
    Table("session_legs", [session_id |-> PartOf("sessions")], {},
        [leg_type |-> {"upwind", "downwind", "reach"}])
SessionLegs10 == SessionLegs4 \cup
    Column("session_legs", {"tack"}, "optional") \cup
    Enums("session_legs", [tack |-> {"port", "starboard"}])

LEMMA SessionLegsTable ==
    /\ \A v \in 1..3 : On(SchemaAt[v], "session_legs") = {}
    /\ \A v \in 4..9 : On(SchemaAt[v], "session_legs") = SessionLegs4
    /\ \A v \in 10..34 : On(SchemaAt[v], "session_legs") = SessionLegs10
    /\ SessionLegs10 = SessionLegORM
<1>1. On(SchemaAt[1], "session_legs") = {}
  BY FirstSchema, Grouped DEF On, Baseline
<1>2. \A v \in 1..3 : On(SchemaAt[v], "session_legs") = {}
  BY <1>1, Untouched DEF SameBut
<1>3. On(SchemaAt[4], "session_legs") = SessionLegs4
  <2>1. On(R0004.up.add, "session_legs") = SessionLegs4
    BY FactTables, EnumsApart DEF On, SessionLegs4, R0004, Add, Gone, Change
  <2>2. On(SchemaAt[4], "session_legs") = (On(SchemaAt[3], "session_legs") \ R0004.up.drop) \cup
        On(R0004.up.add, "session_legs")
    BY Shapes, TheRevisions, OnStep DEF Shape
  <2>. QED BY <2>1, <2>2, <1>2
<1>4. \A v \in 4..9 : On(SchemaAt[v], "session_legs") = SessionLegs4
  BY <1>3, Untouched DEF SameBut
<1>5. On(SchemaAt[10], "session_legs") = SessionLegs10
  <2>1. On(R0010.up.add, "session_legs") = Column("session_legs", {"tack"}, "optional") \cup
        Enums("session_legs", [tack |-> {"port", "starboard"}])
    BY FactTables, EnumsApart DEF On, R0010, Add, Drop, Change
  <2>2. SessionLegs4 \ R0010.up.drop = SessionLegs4
    BY DEF R0010, Add, Drop, Change
  <2>3. On(SchemaAt[10], "session_legs") = (On(SchemaAt[9], "session_legs") \ R0010.up.drop) \cup
        On(R0010.up.add, "session_legs")
    BY Shapes, TheRevisions, OnStep DEF Shape
  <2>. QED BY <2>1, <2>2, <2>3, <1>4 DEF SessionLegs10, SessionLegs4
<1>6. \A v \in 10..34 : On(SchemaAt[v], "session_legs") = SessionLegs10
  BY <1>5, Untouched DEF SameBut
<1>7. SessionLegs10 = SessionLegORM
  <2>1. Enums("session_legs", [leg_type |-> {"upwind", "downwind", "reach"}, tack |->
        {"port", "starboard"}]) = Enums("session_legs",
        [leg_type |-> {"upwind", "downwind", "reach"}]) \cup
        Enums("session_legs", [tack |-> {"port", "starboard"}])
    BY DEF Enums
  <2>. QED BY <2>1, NothingDeclared DEF Table, SessionLegORM, SessionLegs10, SessionLegs4
<1>. QED BY <1>1, <1>2, <1>3, <1>4, <1>5, <1>6, <1>7

\* session_analysis, as the revisions leave it: the number is that of the revision.
SessionAnalysis4 ==
    Table("session_analysis", [session_id |-> PartOf("sessions")], {}, NoFields)
SessionAnalysis5 == SessionAnalysis4 \cup
    Column("session_analysis", {"polar_target"}, "optional")
SessionAnalysis7 == SessionAnalysis5 \cup
    Refs("session_analysis", [thumbnail_image_id |-> LinksTo("images")])
SessionAnalysis12 == SessionAnalysis7 \cup
    Column("session_analysis", {"true_wind"}, "optional")

LEMMA SessionAnalysisTable ==
    /\ \A v \in 1..3 : On(SchemaAt[v], "session_analysis") = {}
    /\ On(SchemaAt[4], "session_analysis") = SessionAnalysis4
    /\ \A v \in 5..6 : On(SchemaAt[v], "session_analysis") = SessionAnalysis5
    /\ \A v \in 7..11 : On(SchemaAt[v], "session_analysis") = SessionAnalysis7
    /\ \A v \in 12..34 : On(SchemaAt[v], "session_analysis") = SessionAnalysis12
    /\ SessionAnalysis12 = SessionAnalysisORM
<1>1. On(SchemaAt[1], "session_analysis") = {}
  BY FirstSchema, Grouped DEF On, Baseline
<1>2. \A v \in 1..3 : On(SchemaAt[v], "session_analysis") = {}
  BY <1>1, Untouched DEF SameBut
<1>3. On(SchemaAt[4], "session_analysis") = SessionAnalysis4
  <2>1. On(R0004.up.add, "session_analysis") = SessionAnalysis4
    BY FactTables, EnumsApart DEF On, SessionAnalysis4, R0004, Add, Gone, Change
  <2>2. On(SchemaAt[4], "session_analysis") = (On(SchemaAt[3], "session_analysis") \
        R0004.up.drop) \cup On(R0004.up.add, "session_analysis")
    BY Shapes, TheRevisions, OnStep DEF Shape
  <2>. QED BY <2>1, <2>2, <1>2
<1>4. On(SchemaAt[5], "session_analysis") = SessionAnalysis5
  <2>1. On(R0005.up.add, "session_analysis") = Column("session_analysis", {"polar_target"},
        "optional")
    BY FactTables, EnumsApart DEF On, R0005, Add, Drop, Change
  <2>2. SessionAnalysis4 \ R0005.up.drop = SessionAnalysis4
    BY DEF R0005, Add, Drop, Change
  <2>3. On(SchemaAt[5], "session_analysis") = (On(SchemaAt[4], "session_analysis") \
        R0005.up.drop) \cup On(R0005.up.add, "session_analysis")
    BY Shapes, TheRevisions, OnStep DEF Shape
  <2>. QED BY <2>1, <2>2, <2>3, <1>3 DEF SessionAnalysis5, SessionAnalysis4
<1>5. \A v \in 5..6 : On(SchemaAt[v], "session_analysis") = SessionAnalysis5
  BY <1>4, Untouched DEF SameBut
<1>6. On(SchemaAt[7], "session_analysis") = SessionAnalysis7
  <2>1. On(R0007.up.add, "session_analysis") = Refs("session_analysis",
        [thumbnail_image_id |-> LinksTo("images")])
    BY FactTables, EnumsApart DEF On, R0007, Add, Drop, Change
  <2>2. SessionAnalysis5 \ R0007.up.drop = SessionAnalysis5
    BY DEF R0007, Add, Drop, Change
  <2>3. On(SchemaAt[7], "session_analysis") = (On(SchemaAt[6], "session_analysis") \
        R0007.up.drop) \cup On(R0007.up.add, "session_analysis")
    BY Shapes, TheRevisions, OnStep DEF Shape
  <2>. QED BY <2>1, <2>2, <2>3, <1>5 DEF SessionAnalysis7, SessionAnalysis5, SessionAnalysis4
<1>7. \A v \in 7..11 : On(SchemaAt[v], "session_analysis") = SessionAnalysis7
  BY <1>6, Untouched DEF SameBut
<1>8. On(SchemaAt[12], "session_analysis") = SessionAnalysis12
  <2>1. On(R0012.up.add, "session_analysis") = Column("session_analysis", {"true_wind"},
        "optional")
    BY FactTables, EnumsApart DEF On, R0012, Add, Drop, Change
  <2>2. SessionAnalysis7 \ R0012.up.drop = SessionAnalysis7
    BY DEF R0012, Add, Drop, Change
  <2>3. On(SchemaAt[12], "session_analysis") = (On(SchemaAt[11], "session_analysis") \
        R0012.up.drop) \cup On(R0012.up.add, "session_analysis")
    BY Shapes, TheRevisions, OnStep DEF Shape
  <2>. QED BY <2>1, <2>2, <2>3, <1>7 DEF SessionAnalysis12, SessionAnalysis7, SessionAnalysis5,
       SessionAnalysis4
<1>9. \A v \in 12..34 : On(SchemaAt[v], "session_analysis") = SessionAnalysis12
  BY <1>8, Untouched DEF SameBut
<1>10. SessionAnalysis12 = SessionAnalysisORM
  <2>1. Refs("session_analysis", [session_id |-> PartOf("sessions"), thumbnail_image_id |->
        LinksTo("images")]) = Refs("session_analysis", [session_id |-> PartOf("sessions")]) \cup
        Refs("session_analysis", [thumbnail_image_id |-> LinksTo("images")])
    BY DEF Refs
  <2>2. Column("session_analysis", {"polar_target", "true_wind"}, "optional") =
        Column("session_analysis", {"polar_target"}, "optional") \cup
        Column("session_analysis", {"true_wind"}, "optional")
    BY DEF Column
  <2>. QED BY <2>1, <2>2, NothingDeclared DEF Table, SessionAnalysisORM, SessionAnalysis12,
       SessionAnalysis7, SessionAnalysis5, SessionAnalysis4
<1>. QED BY <1>1, <1>2, <1>3, <1>4, <1>5, <1>6, <1>7, <1>8, <1>9, <1>10

\* activities, as the revisions leave it: the number is that of the revision.
Activities1 ==
    Table("activities", [club_id |-> LinksTo("clubs"), created_by |-> LinksTo("users"), group_id
        |-> LinksTo("groups"), race_id |-> LinksTo("races")], {},
        [type |-> {"race", "training", "solo"}, visibility |->
        {"public", "club", "group", "private"}])
Activities8 == Activities1 \cup
    Refs("activities", [thumbnail_image_id |-> LinksTo("images")])
Activities27 == Activities8 \cup
    Column("activities", {"status"}, "required") \cup
    Enums("activities", [status |-> {"planned", "completed"}]) \cup
    Column("activities", {"description"}, "optional")

LEMMA ActivitiesTable ==
    /\ \A v \in 1..7 : On(SchemaAt[v], "activities") = Activities1
    /\ \A v \in 8..26 : On(SchemaAt[v], "activities") = Activities8
    /\ \A v \in 27..34 : On(SchemaAt[v], "activities") = Activities27
    /\ Activities27 = ActivityORM
<1>1. \A f : f \in BaselineRaces /\ f[2] = "activities" <=> f \in Activities1
  BY FactTables, EnumsApart DEF BaselineRaces, Activities1
<1>2. On(SchemaAt[1], "activities") = Activities1
  BY <1>1, Grouped, FirstSchema DEF On, Baseline
<1>3. \A v \in 1..7 : On(SchemaAt[v], "activities") = Activities1
  BY <1>2, Untouched DEF SameBut
<1>4. On(SchemaAt[8], "activities") = Activities8
  <2>1. On(R0008.up.add, "activities") = Refs("activities",
        [thumbnail_image_id |-> LinksTo("images")])
    BY FactTables, EnumsApart DEF On, R0008, Add, Drop, Change
  <2>2. Activities1 \ R0008.up.drop = Activities1
    BY DEF R0008, Add, Drop, Change
  <2>3. On(SchemaAt[8], "activities") = (On(SchemaAt[7], "activities") \ R0008.up.drop) \cup
        On(R0008.up.add, "activities")
    BY Shapes, TheRevisions, OnStep DEF Shape
  <2>. QED BY <2>1, <2>2, <2>3, <1>3 DEF Activities8, Activities1
<1>5. \A v \in 8..26 : On(SchemaAt[v], "activities") = Activities8
  BY <1>4, Untouched DEF SameBut
<1>6. On(SchemaAt[27], "activities") = Activities27
  <2>1. On(R0027.up.add, "activities") = Column("activities", {"status"}, "required") \cup
        Enums("activities", [status |-> {"planned", "completed"}]) \cup
        Column("activities", {"description"}, "optional")
    BY FactTables, EnumsApart DEF On, R0027, Add, Drop, Change
  <2>2. Activities8 \ R0027.up.drop = Activities8
    BY DEF R0027, Add, Drop, Change
  <2>3. On(SchemaAt[27], "activities") = (On(SchemaAt[26], "activities") \ R0027.up.drop) \cup
        On(R0027.up.add, "activities")
    BY Shapes, TheRevisions, OnStep DEF Shape
  <2>. QED BY <2>1, <2>2, <2>3, <1>5 DEF Activities27, Activities8, Activities1
<1>7. \A v \in 27..34 : On(SchemaAt[v], "activities") = Activities27
  BY <1>6, Untouched DEF SameBut
<1>8. Activities27 = ActivityORM
  <2>1. Refs("activities", [club_id |-> LinksTo("clubs"), race_id |-> LinksTo("races"),
        created_by |-> LinksTo("users"), group_id |-> LinksTo("groups"), thumbnail_image_id |->
        LinksTo("images")]) = Refs("activities", [club_id |-> LinksTo("clubs"), created_by |->
        LinksTo("users"), group_id |-> LinksTo("groups"), race_id |-> LinksTo("races")]) \cup
        Refs("activities", [thumbnail_image_id |-> LinksTo("images")])
    BY DEF Refs
  <2>2. Enums("activities", [type |-> {"race", "training", "solo"}, visibility |->
        {"public", "club", "group", "private"}, status |-> {"planned", "completed"}]) =
        Enums("activities", [type |-> {"race", "training", "solo"}, visibility |->
        {"public", "club", "group", "private"}]) \cup Enums("activities",
        [status |-> {"planned", "completed"}])
    BY DEF Enums
  <2>. QED BY <2>1, <2>2, NothingDeclared DEF Table, ActivityORM, Activities27, Activities8,
       Activities1
<1>. QED BY <1>1, <1>2, <1>3, <1>4, <1>5, <1>6, <1>7, <1>8

\* wind_observations, as the revisions leave it: the number is that of the revision.
WindObservations1 ==
    Table("wind_observations", [wind_station_id |-> PartOf("wind_stations")],
        {{"wind_station_id", "observed_at"}}, NoFields)
WindObservations9 == WindObservations1 \cup
    Column("wind_observations", {"is_forecast"}, "required")
WindObservations11 ==
    Table("wind_observations", [wind_station_id |-> PartOf("wind_stations")],
        {{"wind_station_id", "observed_at"}}, NoFields)

LEMMA WindObservationsTable ==
    /\ \A v \in 1..8 : On(SchemaAt[v], "wind_observations") = WindObservations1
    /\ \A v \in 9..10 : On(SchemaAt[v], "wind_observations") = WindObservations9
    /\ \A v \in 11..34 : On(SchemaAt[v], "wind_observations") = WindObservations11
    /\ WindObservations11 = WindObservationORM
<1>1. \A f : f \in BaselineMedia /\ f[2] = "wind_observations" <=> f \in WindObservations1
  BY FactTables, EnumsApart DEF BaselineMedia, WindObservations1
<1>2. On(SchemaAt[1], "wind_observations") = WindObservations1
  BY <1>1, Grouped, FirstSchema DEF On, Baseline
<1>3. \A v \in 1..8 : On(SchemaAt[v], "wind_observations") = WindObservations1
  BY <1>2, Untouched DEF SameBut
<1>4. On(SchemaAt[9], "wind_observations") = WindObservations9
  <2>1. On(R0009.up.add, "wind_observations") = Column("wind_observations", {"is_forecast"},
        "required")
    BY FactTables, EnumsApart DEF On, R0009, Add, Drop, IsForecast, Change
  <2>2. WindObservations1 \ R0009.up.drop = WindObservations1
    BY DEF R0009, Add, Drop, IsForecast, Change
  <2>3. On(SchemaAt[9], "wind_observations") = (On(SchemaAt[8], "wind_observations") \
        R0009.up.drop) \cup On(R0009.up.add, "wind_observations")
    BY Shapes, TheRevisions, OnStep DEF Shape
  <2>. QED BY <2>1, <2>2, <2>3, <1>3 DEF WindObservations9, WindObservations1
<1>5. \A v \in 9..10 : On(SchemaAt[v], "wind_observations") = WindObservations9
  BY <1>4, Untouched DEF SameBut
<1>6. On(SchemaAt[11], "wind_observations") = WindObservations11
  <2>1. On(R0011.up.add, "wind_observations") = {}
    BY FactTables, EnumsApart DEF On, R0011, Swap, Change, IsForecast, Provider, StationType
  <2>2. WindObservations9 \ R0011.up.drop = Table("wind_observations",
        [wind_station_id |-> PartOf("wind_stations")], {{"wind_station_id", "observed_at"}},
        NoFields)
    BY FactTables, FactKinds DEF WindObservations9, WindObservations1, R0011, Swap, Change,
         IsForecast, Provider, StationType
  <2>3. On(SchemaAt[11], "wind_observations") = (On(SchemaAt[10], "wind_observations") \
        R0011.up.drop) \cup On(R0011.up.add, "wind_observations")
    BY Shapes, TheRevisions, OnStep DEF Shape
  <2>4. On(SchemaAt[10], "wind_observations") = WindObservations9
    BY <1>5
  <2>5. On(SchemaAt[11], "wind_observations") = (WindObservations9 \ R0011.up.drop) \cup {}
    BY <2>1, <2>3, <2>4
  <2>. QED BY <2>2, <2>5 DEF WindObservations11
<1>7. \A v \in 11..34 : On(SchemaAt[v], "wind_observations") = WindObservations11
  BY <1>6, Untouched DEF SameBut
<1>8. WindObservations11 = WindObservationORM
  BY NothingDeclared DEF Table, WindObservationORM, WindObservations11
<1>. QED BY <1>1, <1>2, <1>3, <1>4, <1>5, <1>6, <1>7, <1>8

\* wind_stations, as the revisions leave it: the number is that of the revision.
WindStations1 ==
    Table("wind_stations", NoFields, {{"provider", "external_station_id"}}, NoFields) \cup
    Enums("wind_stations", [provider |-> {"noaa_ndbc", "noaa_metar", "open_meteo",
        "custom_device"}]) \cup
    Enums("wind_stations", [station_type |-> {"buoy", "metar", "forecast_grid", "custom_device"}])
WindStations11 ==
    Table("wind_stations", NoFields, {{"provider", "external_station_id"}}, NoFields) \cup
    Enums("wind_stations", [provider |-> {"noaa_ndbc", "noaa_metar", "custom_device"}]) \cup
    Enums("wind_stations", [station_type |-> {"buoy", "metar", "custom_device"}]) \cup
    Column("wind_stations", {"keeps_local_history"}, "required")
WindStations21 ==
    Table("wind_stations", NoFields, {{"provider", "external_station_id"}}, NoFields) \cup
    Enums("wind_stations", [station_type |-> {"buoy", "metar", "custom_device"}]) \cup
    Column("wind_stations", {"keeps_local_history"}, "required") \cup
    Enums("wind_stations", [provider |-> {"noaa_ndbc", "noaa_metar", "custom_device",
        "cumulus_realtime"}]) \cup
    Column("wind_stations", {"source_url"}, "optional")
WindStations22 ==
    Table("wind_stations", NoFields, {{"provider", "external_station_id"}}, NoFields) \cup
    Enums("wind_stations", [station_type |-> {"buoy", "metar", "custom_device"}]) \cup
    Column("wind_stations", {"keeps_local_history"}, "required") \cup
    Column("wind_stations", {"source_url"}, "optional") \cup
    Enums("wind_stations", [provider |-> {"noaa_ndbc", "noaa_metar", "custom_device",
        "cumulus_realtime", "cumulus_gauges_json"}])

LEMMA WindStationsTable ==
    /\ \A v \in 1..10 : On(SchemaAt[v], "wind_stations") = WindStations1
    /\ \A v \in 11..20 : On(SchemaAt[v], "wind_stations") = WindStations11
    /\ On(SchemaAt[21], "wind_stations") = WindStations21
    /\ \A v \in 22..34 : On(SchemaAt[v], "wind_stations") = WindStations22
    /\ WindStations22 = WindStationORM
<1>1. Enums("wind_stations", [provider |-> {"noaa_ndbc", "noaa_metar", "open_meteo",
      "custom_device"}, station_type |-> {"buoy", "metar", "forecast_grid", "custom_device"}]) =
      Enums("wind_stations", [provider |-> {"noaa_ndbc", "noaa_metar", "open_meteo",
      "custom_device"}]) \cup Enums("wind_stations", [station_type |->
      {"buoy", "metar", "forecast_grid", "custom_device"}])
  BY DEF Enums
<1>2. \A f : f \in BaselineAccounts /\ f[2] = "wind_stations" <=> f \in WindStations1
  BY <1>1, FactTables, EnumsApart DEF BaselineAccounts, WindStations1
<1>3. On(SchemaAt[1], "wind_stations") = WindStations1
  BY <1>2, Grouped, FirstSchema DEF On, Baseline
<1>4. \A v \in 1..10 : On(SchemaAt[v], "wind_stations") = WindStations1
  BY <1>3, Untouched DEF SameBut
<1>5. On(SchemaAt[11], "wind_stations") = WindStations11
  <2>1. On(R0011.up.add, "wind_stations") = Enums("wind_stations",
        [provider |-> {"noaa_ndbc", "noaa_metar", "custom_device"}]) \cup
        Enums("wind_stations", [station_type |-> {"buoy", "metar", "custom_device"}]) \cup
        Column("wind_stations", {"keeps_local_history"}, "required")
    BY FactTables, EnumsApart DEF On, R0011, Swap, Change, IsForecast, Provider, StationType
  <2>2. WindStations1 \ R0011.up.drop = Table("wind_stations", NoFields,
        {{"provider", "external_station_id"}}, NoFields)
    BY FactTables, FactKinds DEF WindStations1, R0011, Swap, Change, IsForecast, Provider,
         StationType
  <2>3. On(SchemaAt[11], "wind_stations") = (On(SchemaAt[10], "wind_stations") \ R0011.up.drop)
        \cup On(R0011.up.add, "wind_stations")
    BY Shapes, TheRevisions, OnStep DEF Shape
  <2>. QED BY <2>1, <2>2, <2>3, <1>4 DEF WindStations11
<1>6. \A v \in 11..20 : On(SchemaAt[v], "wind_stations") = WindStations11
  BY <1>5, Untouched DEF SameBut
<1>7. On(SchemaAt[21], "wind_stations") = WindStations21
  <2>1. On(R0021.up.add, "wind_stations") = Enums("wind_stations",
        [provider |-> {"noaa_ndbc", "noaa_metar", "custom_device", "cumulus_realtime"}]) \cup
        Column("wind_stations", {"source_url"}, "optional")
    BY FactTables, EnumsApart DEF On, R0021, Swap, Provider, Change
  <2>2. WindStations11 \ R0021.up.drop = Table("wind_stations", NoFields,
        {{"provider", "external_station_id"}}, NoFields) \cup
        Enums("wind_stations", [station_type |-> {"buoy", "metar", "custom_device"}]) \cup
        Column("wind_stations", {"keeps_local_history"}, "required")
    BY FactTables, FactKinds DEF WindStations11, R0021, Swap, Provider, Change
  <2>3. On(SchemaAt[21], "wind_stations") = (On(SchemaAt[20], "wind_stations") \ R0021.up.drop)
        \cup On(R0021.up.add, "wind_stations")
    BY Shapes, TheRevisions, OnStep DEF Shape
  <2>. QED BY <2>1, <2>2, <2>3, <1>6 DEF WindStations21
<1>8. On(SchemaAt[22], "wind_stations") = WindStations22
  <2>1. On(R0022.up.add, "wind_stations") = Enums("wind_stations",
        [provider |-> {"noaa_ndbc", "noaa_metar", "custom_device", "cumulus_realtime",
        "cumulus_gauges_json"}])
    BY FactTables, EnumsApart DEF On, R0022, Swap, Provider, Change
  <2>2. WindStations21 \ R0022.up.drop = Table("wind_stations", NoFields,
        {{"provider", "external_station_id"}}, NoFields) \cup
        Enums("wind_stations", [station_type |-> {"buoy", "metar", "custom_device"}]) \cup
        Column("wind_stations", {"keeps_local_history"}, "required") \cup
        Column("wind_stations", {"source_url"}, "optional")
    BY FactTables, FactKinds DEF WindStations21, R0022, Swap, Provider, Change
  <2>3. On(SchemaAt[22], "wind_stations") = (On(SchemaAt[21], "wind_stations") \ R0022.up.drop)
        \cup On(R0022.up.add, "wind_stations")
    BY Shapes, TheRevisions, OnStep DEF Shape
  <2>. QED BY <2>1, <2>2, <2>3, <1>7 DEF WindStations22
<1>9. \A v \in 22..34 : On(SchemaAt[v], "wind_stations") = WindStations22
  BY <1>8, Untouched DEF SameBut
<1>10. WindStations22 = WindStationORM
  <2>1. Enums("wind_stations", [provider |-> {"noaa_ndbc", "noaa_metar", "custom_device",
        "cumulus_realtime", "cumulus_gauges_json"}, station_type |->
        {"buoy", "metar", "custom_device"}]) = Enums("wind_stations",
        [station_type |-> {"buoy", "metar", "custom_device"}]) \cup
        Enums("wind_stations", [provider |-> {"noaa_ndbc", "noaa_metar", "custom_device",
        "cumulus_realtime", "cumulus_gauges_json"}])
    BY DEF Enums
  <2>. QED BY <2>1, NothingDeclared DEF Table, WindStationORM, WindStations22
<1>. QED BY <1>1, <1>2, <1>3, <1>4, <1>5, <1>6, <1>7, <1>8, <1>9, <1>10

\* wind_estimates, as the revisions leave it: the number is that of the revision.
WindEstimates11 ==
    Table("wind_estimates", NoFields, {{"grid_lat", "grid_lng", "time_bucket"}}, NoFields)

LEMMA WindEstimatesTable ==
    /\ \A v \in 1..10 : On(SchemaAt[v], "wind_estimates") = {}
    /\ \A v \in 11..34 : On(SchemaAt[v], "wind_estimates") = WindEstimates11
    /\ WindEstimates11 = WindEstimateORM
<1>1. On(SchemaAt[1], "wind_estimates") = {}
  BY FirstSchema, Grouped DEF On, Baseline
<1>2. \A v \in 1..10 : On(SchemaAt[v], "wind_estimates") = {}
  BY <1>1, Untouched DEF SameBut
<1>3. On(SchemaAt[11], "wind_estimates") = WindEstimates11
  <2>1. On(R0011.up.add, "wind_estimates") = WindEstimates11
    BY FactTables, EnumsApart DEF On, WindEstimates11, R0011, Swap, Change, IsForecast, Provider,
         StationType
  <2>2. On(SchemaAt[11], "wind_estimates") = (On(SchemaAt[10], "wind_estimates") \ R0011.up.drop)
        \cup On(R0011.up.add, "wind_estimates")
    BY Shapes, TheRevisions, OnStep DEF Shape
  <2>. QED BY <2>1, <2>2, <1>2
<1>4. \A v \in 11..34 : On(SchemaAt[v], "wind_estimates") = WindEstimates11
  BY <1>3, Untouched DEF SameBut
<1>5. WindEstimates11 = WindEstimateORM
  BY NothingDeclared DEF Table, WindEstimateORM, WindEstimates11
<1>. QED BY <1>1, <1>2, <1>3, <1>4, <1>5

\* session_streams, as the revisions leave it: the number is that of the revision.
SessionStreams1 ==
    Table("session_streams", [session_upload_id |-> PartOf("session_uploads")], {}, NoFields) \cup
    Enums("session_streams", [sensor_type |-> {"gps", "imu", "wind", "pressure", "heart_rate",
        "other"}])
SessionStreams13 ==
    Table("session_streams", [session_upload_id |-> PartOf("session_uploads")], {}, NoFields) \cup
    Enums("session_streams", [sensor_type |-> {"gps", "imu", "wind", "pressure", "heart_rate",
        "estimated_position", "estimated_motion", "other"}])

LEMMA SessionStreamsTable ==
    /\ \A v \in 1..12 : On(SchemaAt[v], "session_streams") = SessionStreams1
    /\ \A v \in 13..34 : On(SchemaAt[v], "session_streams") = SessionStreams13
    /\ SessionStreams13 = SessionStreamORM
<1>1. \A f : f \in BaselineSessions /\ f[2] = "session_streams" <=> f \in SessionStreams1
  BY FactTables, EnumsApart DEF BaselineSessions, SessionStreams1
<1>2. On(SchemaAt[1], "session_streams") = SessionStreams1
  BY <1>1, Grouped, FirstSchema DEF On, Baseline
<1>3. \A v \in 1..12 : On(SchemaAt[v], "session_streams") = SessionStreams1
  BY <1>2, Untouched DEF SameBut
<1>4. On(SchemaAt[13], "session_streams") = SessionStreams13
  <2>1. On(R0013.up.add, "session_streams") = Enums("session_streams",
        [sensor_type |-> {"gps", "imu", "wind", "pressure", "heart_rate", "estimated_position",
        "estimated_motion", "other"}])
    BY FactTables, EnumsApart DEF On, R0013, Swap, SensorType, Change
  <2>2. SessionStreams1 \ R0013.up.drop = Table("session_streams",
        [session_upload_id |-> PartOf("session_uploads")], {}, NoFields)
    BY FactTables, FactKinds DEF SessionStreams1, R0013, Swap, SensorType, Change
  <2>3. On(SchemaAt[13], "session_streams") = (On(SchemaAt[12], "session_streams") \
        R0013.up.drop) \cup On(R0013.up.add, "session_streams")
    BY Shapes, TheRevisions, OnStep DEF Shape
  <2>. QED BY <2>1, <2>2, <2>3, <1>3 DEF SessionStreams13
<1>5. \A v \in 13..34 : On(SchemaAt[v], "session_streams") = SessionStreams13
  BY <1>4, Untouched DEF SameBut
<1>6. SessionStreams13 = SessionStreamORM
  BY NothingDeclared DEF Table, SessionStreamORM, SessionStreams13
<1>. QED BY <1>1, <1>2, <1>3, <1>4, <1>5, <1>6

\* session_uploads, as the revisions leave it: the number is that of the revision.
SessionUploads1 ==
    Table("session_uploads", [device_id |-> MaybeNeeds("devices"), import_id |->
        MaybeNeeds("imports"), session_id |-> PartOf("sessions"), subject_user_id |->
        LinksTo("users")], {{"session_id", "device_id", "sequence_number"}},
        [source_type |-> {"device", "manual_import"}, status |->
        {"pending", "processing", "processed", "failed"}, subject_type |->
        {"boat", "crew_member"}]) \cup
    Rule("session_uploads", "source_consistent", {"source_type", "device_id", "import_id"}) \cup
    Rule("session_uploads", "subject_consistent", {"subject_type", "subject_user_id"})
SessionUploads14 == SessionUploads1 \cup
    Column("session_uploads", {"reanalysis_status", "reanalysis_error"}, "optional") \cup
    Enums("session_uploads", [reanalysis_status |-> {"running", "failed"}])

LEMMA SessionUploadsTable ==
    /\ \A v \in 1..13 : On(SchemaAt[v], "session_uploads") = SessionUploads1
    /\ \A v \in 14..34 : On(SchemaAt[v], "session_uploads") = SessionUploads14
    /\ SessionUploads14 = SessionUploadORM
<1>1. \A f : f \in BaselineSessions /\ f[2] = "session_uploads" <=> f \in SessionUploads1
  BY FactTables, EnumsApart DEF BaselineSessions, SessionUploads1
<1>2. On(SchemaAt[1], "session_uploads") = SessionUploads1
  BY <1>1, Grouped, FirstSchema DEF On, Baseline
<1>3. \A v \in 1..13 : On(SchemaAt[v], "session_uploads") = SessionUploads1
  BY <1>2, Untouched DEF SameBut
<1>4. On(SchemaAt[14], "session_uploads") = SessionUploads14
  <2>1. On(R0014.up.add, "session_uploads") = Column("session_uploads",
        {"reanalysis_status", "reanalysis_error"}, "optional") \cup
        Enums("session_uploads", [reanalysis_status |-> {"running", "failed"}])
    BY FactTables, EnumsApart DEF On, R0014, Add, Drop, Change
  <2>2. SessionUploads1 \ R0014.up.drop = SessionUploads1
    BY DEF R0014, Add, Drop, Change
  <2>3. On(SchemaAt[14], "session_uploads") = (On(SchemaAt[13], "session_uploads") \
        R0014.up.drop) \cup On(R0014.up.add, "session_uploads")
    BY Shapes, TheRevisions, OnStep DEF Shape
  <2>. QED BY <2>1, <2>2, <2>3, <1>3 DEF SessionUploads14, SessionUploads1
<1>5. \A v \in 14..34 : On(SchemaAt[v], "session_uploads") = SessionUploads14
  BY <1>4, Untouched DEF SameBut
<1>6. SessionUploads14 = SessionUploadORM
  <2>1. Refs("session_uploads", [session_id |-> PartOf("sessions"), device_id |->
        MaybeNeeds("devices"), import_id |-> MaybeNeeds("imports"), subject_user_id |->
        LinksTo("users")]) = Refs("session_uploads", [device_id |-> MaybeNeeds("devices"),
        import_id |-> MaybeNeeds("imports"), session_id |-> PartOf("sessions"), subject_user_id
        |-> LinksTo("users")])
    BY DEF Refs
  <2>2. Enums("session_uploads", [source_type |-> {"device", "manual_import"}, subject_type |->
        {"boat", "crew_member"}, status |-> {"pending", "processing", "processed", "failed"},
        reanalysis_status |-> {"running", "failed"}]) =
        Enums("session_uploads", [source_type |-> {"device", "manual_import"}, status |->
        {"pending", "processing", "processed", "failed"}, subject_type |->
        {"boat", "crew_member"}]) \cup Enums("session_uploads",
        [reanalysis_status |-> {"running", "failed"}])
    BY DEF Enums
  <2>. QED BY <2>1, <2>2, NothingDeclared DEF Table, SessionUploadORM, SessionUploads14,
       SessionUploads1
<1>. QED BY <1>1, <1>2, <1>3, <1>4, <1>5, <1>6

\* boat_classes, as the revisions leave it: the number is that of the revision.
BoatClasses1 ==
    Table("boat_classes", [logo_id |-> LinksTo("images")], {{"name"}}, NoFields)
BoatClasses19 == BoatClasses1 \cup
    Column("boat_classes", {"loa_m", "beam_m", "sail_area_sqm", "crew_size", "hull_type",
        "rig_type", "py_rating"}, "optional") \cup
    Enums("boat_classes", [hull_type |-> {"monohull", "multihull"}])
BoatClasses20 == BoatClasses19 \cup
    Column("boat_classes", {"spinnaker_type", "rya_class_id"}, "optional") \cup
    Enums("boat_classes", [rig_type |-> {"sloop", "una"}, spinnaker_type |->
        {"none", "asymmetric", "symmetric"}]) \cup
    UniqueKeys("boat_classes", {{"rya_class_id"}})

LEMMA BoatClassesTable ==
    /\ \A v \in 1..18 : On(SchemaAt[v], "boat_classes") = BoatClasses1
    /\ On(SchemaAt[19], "boat_classes") = BoatClasses19
    /\ \A v \in 20..34 : On(SchemaAt[v], "boat_classes") = BoatClasses20
    /\ BoatClasses20 = BoatClassORM
<1>1. \A f : f \in BaselineMedia /\ f[2] = "boat_classes" <=> f \in BoatClasses1
  BY FactTables, EnumsApart DEF BaselineMedia, BoatClasses1
<1>2. On(SchemaAt[1], "boat_classes") = BoatClasses1
  BY <1>1, Grouped, FirstSchema DEF On, Baseline
<1>3. \A v \in 1..18 : On(SchemaAt[v], "boat_classes") = BoatClasses1
  BY <1>2, Untouched DEF SameBut
<1>4. On(SchemaAt[19], "boat_classes") = BoatClasses19
  <2>1. On(R0019.up.add, "boat_classes") = Column("boat_classes",
        {"loa_m", "beam_m", "sail_area_sqm", "crew_size", "hull_type", "rig_type", "py_rating"},
        "optional") \cup Enums("boat_classes", [hull_type |-> {"monohull", "multihull"}])
    BY FactTables, EnumsApart DEF On, R0019, Add, Drop, Change
  <2>2. BoatClasses1 \ R0019.up.drop = BoatClasses1
    BY DEF R0019, Add, Drop, Change
  <2>3. On(SchemaAt[19], "boat_classes") = (On(SchemaAt[18], "boat_classes") \ R0019.up.drop)
        \cup On(R0019.up.add, "boat_classes")
    BY Shapes, TheRevisions, OnStep DEF Shape
  <2>. QED BY <2>1, <2>2, <2>3, <1>3 DEF BoatClasses19, BoatClasses1
<1>5. On(SchemaAt[20], "boat_classes") = BoatClasses20
  <2>1. On(R0020.up.add, "boat_classes") = Column("boat_classes",
        {"spinnaker_type", "rya_class_id"}, "optional") \cup
        Enums("boat_classes", [rig_type |-> {"sloop", "una"}, spinnaker_type |->
        {"none", "asymmetric", "symmetric"}]) \cup UniqueKeys("boat_classes", {{"rya_class_id"}})
    BY FactTables, EnumsApart DEF On, R0020, Add, Drop, Change
  <2>2. BoatClasses19 \ R0020.up.drop = BoatClasses19
    BY DEF R0020, Add, Drop, Change
  <2>3. On(SchemaAt[20], "boat_classes") = (On(SchemaAt[19], "boat_classes") \ R0020.up.drop)
        \cup On(R0020.up.add, "boat_classes")
    BY Shapes, TheRevisions, OnStep DEF Shape
  <2>. QED BY <2>1, <2>2, <2>3, <1>4 DEF BoatClasses20, BoatClasses19, BoatClasses1
<1>6. \A v \in 20..34 : On(SchemaAt[v], "boat_classes") = BoatClasses20
  BY <1>5, Untouched DEF SameBut
<1>7. BoatClasses20 = BoatClassORM
  <2>1. UniqueKeys("boat_classes", {{"rya_class_id"}, {"name"}}) =
        UniqueKeys("boat_classes", {{"name"}}) \cup UniqueKeys("boat_classes", {{"rya_class_id"}})
    BY DEF UniqueKeys
  <2>2. Enums("boat_classes", [hull_type |-> {"monohull", "multihull"}, rig_type |->
        {"sloop", "una"}, spinnaker_type |-> {"none", "asymmetric", "symmetric"}]) =
        Enums("boat_classes", [hull_type |-> {"monohull", "multihull"}]) \cup
        Enums("boat_classes", [rig_type |-> {"sloop", "una"}, spinnaker_type |->
        {"none", "asymmetric", "symmetric"}])
    BY DEF Enums
  <2>3. Column("boat_classes", {"loa_m", "beam_m", "sail_area_sqm", "crew_size", "hull_type",
        "rig_type", "py_rating", "spinnaker_type", "rya_class_id"}, "optional") =
        Column("boat_classes", {"loa_m", "beam_m", "sail_area_sqm", "crew_size", "hull_type",
        "rig_type", "py_rating"}, "optional") \cup Column("boat_classes",
        {"spinnaker_type", "rya_class_id"}, "optional")
    BY DEF Column
  <2>. QED BY <2>1, <2>2, <2>3, NothingDeclared DEF Table, BoatClassORM, BoatClasses20,
       BoatClasses19, BoatClasses1
<1>. QED BY <1>1, <1>2, <1>3, <1>4, <1>5, <1>6, <1>7

\* sessions, as the revisions leave it: the number is that of the revision.
Sessions1 ==
    Table("sessions", [activity_id |-> PartOf("activities"), boat_id |-> Needs("boats")], {},
        [status |-> {"pending", "processing", "processed", "failed"}])
Sessions23 == Sessions1 \cup
    Column("sessions", {"trim_start_time", "trim_end_time"}, "optional")

LEMMA SessionsTable ==
    /\ \A v \in 1..22 : On(SchemaAt[v], "sessions") = Sessions1
    /\ \A v \in 23..34 : On(SchemaAt[v], "sessions") = Sessions23
    /\ Sessions23 = SessionORM
<1>1. \A f : f \in BaselineRaces /\ f[2] = "sessions" <=> f \in Sessions1
  BY FactTables, EnumsApart DEF BaselineRaces, Sessions1
<1>2. On(SchemaAt[1], "sessions") = Sessions1
  BY <1>1, Grouped, FirstSchema DEF On, Baseline
<1>3. \A v \in 1..22 : On(SchemaAt[v], "sessions") = Sessions1
  BY <1>2, Untouched DEF SameBut
<1>4. On(SchemaAt[23], "sessions") = Sessions23
  <2>1. On(R0023.up.add, "sessions") = Column("sessions", {"trim_start_time", "trim_end_time"},
        "optional")
    BY FactTables, EnumsApart DEF On, R0023, Add, Drop, Change
  <2>2. Sessions1 \ R0023.up.drop = Sessions1
    BY DEF R0023, Add, Drop, Change
  <2>3. On(SchemaAt[23], "sessions") = (On(SchemaAt[22], "sessions") \ R0023.up.drop) \cup
        On(R0023.up.add, "sessions")
    BY Shapes, TheRevisions, OnStep DEF Shape
  <2>. QED BY <2>1, <2>2, <2>3, <1>3 DEF Sessions23, Sessions1
<1>5. \A v \in 23..34 : On(SchemaAt[v], "sessions") = Sessions23
  BY <1>4, Untouched DEF SameBut
<1>6. Sessions23 = SessionORM
  BY NothingDeclared DEF Table, SessionORM, Sessions23, Sessions1
<1>. QED BY <1>1, <1>2, <1>3, <1>4, <1>5, <1>6

\* app_config, as the revisions leave it: the number is that of the revision.
AppConfig24 ==
    Table("app_config", NoFields, {}, NoFields)

LEMMA AppConfigTable ==
    /\ \A v \in 1..23 : On(SchemaAt[v], "app_config") = {}
    /\ \A v \in 24..34 : On(SchemaAt[v], "app_config") = AppConfig24
    /\ AppConfig24 = AppConfigORM
<1>1. On(SchemaAt[1], "app_config") = {}
  BY FirstSchema, Grouped DEF On, Baseline
<1>2. \A v \in 1..23 : On(SchemaAt[v], "app_config") = {}
  BY <1>1, Untouched DEF SameBut
<1>3. On(SchemaAt[24], "app_config") = AppConfig24
  <2>1. On(R0024.up.add, "app_config") = AppConfig24
    BY FactTables, EnumsApart DEF On, AppConfig24, R0024, Add, Gone, Change
  <2>2. On(SchemaAt[24], "app_config") = (On(SchemaAt[23], "app_config") \ R0024.up.drop) \cup
        On(R0024.up.add, "app_config")
    BY Shapes, TheRevisions, OnStep DEF Shape
  <2>. QED BY <2>1, <2>2, <1>2
<1>4. \A v \in 24..34 : On(SchemaAt[v], "app_config") = AppConfig24
  BY <1>3, Untouched DEF SameBut
<1>5. AppConfig24 = AppConfigORM
  BY NothingDeclared DEF Table, AppConfigORM, AppConfig24
<1>. QED BY <1>1, <1>2, <1>3, <1>4, <1>5

\* posts, as the revisions leave it: the number is that of the revision.
Posts25 ==
    Table("posts", [author_id |-> LinksTo("users")], {}, [owner_type |-> {"club", "group"}]) \cup
    Refs("posts", [image_id |-> LinksTo("images")])
Posts26 ==
    Table("posts", [author_id |-> LinksTo("users")], {}, [owner_type |-> {"club", "group"}])
Posts29 == Posts26 \cup
    Column("posts", {"updated_at"}, "optional")
Posts31 == Posts29 \cup
    Refs("posts", [activity_id |-> LinksTo("activities"), regatta_id |-> LinksTo("regattas")])
        \cup
    Rule("posts", "single_event_link", {"activity_id", "regatta_id"})

LEMMA PostsTable ==
    /\ \A v \in 1..24 : On(SchemaAt[v], "posts") = {}
    /\ On(SchemaAt[25], "posts") = Posts25
    /\ \A v \in 26..28 : On(SchemaAt[v], "posts") = Posts26
    /\ \A v \in 29..30 : On(SchemaAt[v], "posts") = Posts29
    /\ \A v \in 31..34 : On(SchemaAt[v], "posts") = Posts31
    /\ Posts31 = PostORM
<1>1. On(SchemaAt[1], "posts") = {}
  BY FirstSchema, Grouped DEF On, Baseline
<1>2. \A v \in 1..24 : On(SchemaAt[v], "posts") = {}
  BY <1>1, Untouched DEF SameBut
<1>3. On(SchemaAt[25], "posts") = Posts25
  <2>1. On(R0025.up.add, "posts") = Posts25
    BY FactTables, EnumsApart DEF On, Posts25, R0025, Add, Gone, PostImage, Change
  <2>2. On(SchemaAt[25], "posts") = (On(SchemaAt[24], "posts") \ R0025.up.drop) \cup
        On(R0025.up.add, "posts")
    BY Shapes, TheRevisions, OnStep DEF Shape
  <2>. QED BY <2>1, <2>2, <1>2
<1>4. On(SchemaAt[26], "posts") = Posts26
  <2>1. On(R0026.up.add, "posts") = {}
    BY FactTables, EnumsApart DEF On, R0026, Swap, Change, PostImage
  <2>2. Posts25 \ R0026.up.drop = Table("posts", [author_id |-> LinksTo("users")], {},
        [owner_type |-> {"club", "group"}])
    BY FactTables, FactKinds DEF Posts25, R0026, Swap, Change, PostImage
  <2>3. On(SchemaAt[26], "posts") = (On(SchemaAt[25], "posts") \ R0026.up.drop) \cup
        On(R0026.up.add, "posts")
    BY Shapes, TheRevisions, OnStep DEF Shape
  <2>4. On(SchemaAt[25], "posts") = Posts25
    BY <1>3
  <2>5. On(SchemaAt[26], "posts") = (Posts25 \ R0026.up.drop) \cup {}
    BY <2>1, <2>3, <2>4
  <2>. QED BY <2>2, <2>5 DEF Posts26
<1>5. \A v \in 26..28 : On(SchemaAt[v], "posts") = Posts26
  BY <1>4, Untouched DEF SameBut
<1>6. On(SchemaAt[29], "posts") = Posts29
  <2>1. On(R0029.up.add, "posts") = Column("posts", {"updated_at"}, "optional")
    BY FactTables, EnumsApart DEF On, R0029, Add, Drop, Change
  <2>2. Posts26 \ R0029.up.drop = Posts26
    BY DEF R0029, Add, Drop, Change
  <2>3. On(SchemaAt[29], "posts") = (On(SchemaAt[28], "posts") \ R0029.up.drop) \cup
        On(R0029.up.add, "posts")
    BY Shapes, TheRevisions, OnStep DEF Shape
  <2>. QED BY <2>1, <2>2, <2>3, <1>5 DEF Posts29, Posts26
<1>7. \A v \in 29..30 : On(SchemaAt[v], "posts") = Posts29
  BY <1>6, Untouched DEF SameBut
<1>8. On(SchemaAt[31], "posts") = Posts31
  <2>1. On(R0031.up.add, "posts") = Refs("posts", [activity_id |-> LinksTo("activities"),
        regatta_id |-> LinksTo("regattas")]) \cup Rule("posts", "single_event_link",
        {"activity_id", "regatta_id"})
    BY FactTables, EnumsApart DEF On, R0031, Add, Drop, Change
  <2>2. Posts29 \ R0031.up.drop = Posts29
    BY DEF R0031, Add, Drop, Change
  <2>3. On(SchemaAt[31], "posts") = (On(SchemaAt[30], "posts") \ R0031.up.drop) \cup
        On(R0031.up.add, "posts")
    BY Shapes, TheRevisions, OnStep DEF Shape
  <2>. QED BY <2>1, <2>2, <2>3, <1>7 DEF Posts31, Posts29, Posts26
<1>9. \A v \in 31..34 : On(SchemaAt[v], "posts") = Posts31
  BY <1>8, Untouched DEF SameBut
<1>10. Posts31 = PostORM
  <2>1. Refs("posts", [author_id |-> LinksTo("users"), activity_id |-> LinksTo("activities"),
        regatta_id |-> LinksTo("regattas")]) = Refs("posts", [author_id |-> LinksTo("users")])
        \cup Refs("posts", [activity_id |-> LinksTo("activities"), regatta_id |->
        LinksTo("regattas")])
    BY DEF Refs
  <2>. QED BY <2>1, NothingDeclared DEF Table, PostORM, Posts31, Posts29, Posts26
<1>. QED BY <1>1, <1>2, <1>3, <1>4, <1>5, <1>6, <1>7, <1>8, <1>9, <1>10

\* post_images, as the revisions leave it: the number is that of the revision.
PostImages26 ==
    Table("post_images", [post_id |-> PartOf("posts"), image_id |-> PartOf("images")],
        {{"post_id", "image_id"}}, NoFields)

LEMMA PostImagesTable ==
    /\ \A v \in 1..25 : On(SchemaAt[v], "post_images") = {}
    /\ \A v \in 26..34 : On(SchemaAt[v], "post_images") = PostImages26
    /\ PostImages26 = PostImageORM
<1>1. On(SchemaAt[1], "post_images") = {}
  BY FirstSchema, Grouped DEF On, Baseline
<1>2. \A v \in 1..25 : On(SchemaAt[v], "post_images") = {}
  BY <1>1, Untouched DEF SameBut
<1>3. On(SchemaAt[26], "post_images") = PostImages26
  <2>1. On(R0026.up.add, "post_images") = PostImages26
    BY FactTables, EnumsApart DEF On, PostImages26, R0026, Swap, Change, PostImage
  <2>2. On(SchemaAt[26], "post_images") = (On(SchemaAt[25], "post_images") \ R0026.up.drop) \cup
        On(R0026.up.add, "post_images")
    BY Shapes, TheRevisions, OnStep DEF Shape
  <2>. QED BY <2>1, <2>2, <1>2
<1>4. \A v \in 26..34 : On(SchemaAt[v], "post_images") = PostImages26
  BY <1>3, Untouched DEF SameBut
<1>5. PostImages26 = PostImageORM
  BY NothingDeclared DEF Table, PostImageORM, PostImages26
<1>. QED BY <1>1, <1>2, <1>3, <1>4, <1>5

\* regattas, as the revisions leave it: the number is that of the revision.
Regattas1 ==
    Table("regattas", [class_id |-> LinksTo("boat_classes"), club_id |-> Needs("clubs")], {},
        [scoring_system |-> {"low_point", "bonus_point", "custom"}, status |->
        {"scheduled", "active", "completed"}])
Regattas28 == Regattas1 \cup
    Refs("regattas", [image_id |-> LinksTo("images")])

LEMMA RegattasTable ==
    /\ \A v \in 1..27 : On(SchemaAt[v], "regattas") = Regattas1
    /\ \A v \in 28..34 : On(SchemaAt[v], "regattas") = Regattas28
    /\ Regattas28 = RegattaORM
<1>1. \A f : f \in BaselineFleet /\ f[2] = "regattas" <=> f \in Regattas1
  BY FactTables, EnumsApart DEF BaselineFleet, Regattas1
<1>2. On(SchemaAt[1], "regattas") = Regattas1
  BY <1>1, Grouped, FirstSchema DEF On, Baseline
<1>3. \A v \in 1..27 : On(SchemaAt[v], "regattas") = Regattas1
  BY <1>2, Untouched DEF SameBut
<1>4. On(SchemaAt[28], "regattas") = Regattas28
  <2>1. On(R0028.up.add, "regattas") = Refs("regattas", [image_id |-> LinksTo("images")])
    BY FactTables, EnumsApart DEF On, R0028, Add, Drop, Change
  <2>2. Regattas1 \ R0028.up.drop = Regattas1
    BY DEF R0028, Add, Drop, Change
  <2>3. On(SchemaAt[28], "regattas") = (On(SchemaAt[27], "regattas") \ R0028.up.drop) \cup
        On(R0028.up.add, "regattas")
    BY Shapes, TheRevisions, OnStep DEF Shape
  <2>. QED BY <2>1, <2>2, <2>3, <1>3 DEF Regattas28, Regattas1
<1>5. \A v \in 28..34 : On(SchemaAt[v], "regattas") = Regattas28
  BY <1>4, Untouched DEF SameBut
<1>6. Regattas28 = RegattaORM
  <2>1. Refs("regattas", [image_id |-> LinksTo("images"), club_id |-> Needs("clubs"), class_id
        |-> LinksTo("boat_classes")]) = Refs("regattas",
        [class_id |-> LinksTo("boat_classes"), club_id |-> Needs("clubs")]) \cup
        Refs("regattas", [image_id |-> LinksTo("images")])
    BY DEF Refs
  <2>. QED BY <2>1, NothingDeclared DEF Table, RegattaORM, Regattas28, Regattas1
<1>. QED BY <1>1, <1>2, <1>3, <1>4, <1>5, <1>6

\* marks, as the revisions leave it: the number is that of the revision.
Marks1 ==
    Table("marks", [activity_id |-> PartOf("activities")], {}, NoFields) \cup
    Enums("marks", [mark_role |-> {"pin", "rc", "windward", "leeward", "gate_port", "gate_stbd",
        "offset", "drill"}])
Marks30 ==
    Table("marks", [activity_id |-> PartOf("activities")], {}, NoFields) \cup
    Enums("marks", [mark_role |-> {"pin", "rc", "windward", "leeward", "gate_port", "gate_stbd",
        "offset", "drill", "finish_pin", "finish_rc"}])

LEMMA MarksTable ==
    /\ \A v \in 1..29 : On(SchemaAt[v], "marks") = Marks1
    /\ \A v \in 30..34 : On(SchemaAt[v], "marks") = Marks30
    /\ Marks30 = MarkORM
<1>1. \A f : f \in BaselineRaces /\ f[2] = "marks" <=> f \in Marks1
  BY FactTables, EnumsApart DEF BaselineRaces, Marks1
<1>2. On(SchemaAt[1], "marks") = Marks1
  BY <1>1, Grouped, FirstSchema DEF On, Baseline
<1>3. \A v \in 1..29 : On(SchemaAt[v], "marks") = Marks1
  BY <1>2, Untouched DEF SameBut
<1>4. On(SchemaAt[30], "marks") = Marks30
  <2>1. On(R0030.up.add, "marks") = Enums("marks", [mark_role |->
        {"pin", "rc", "windward", "leeward", "gate_port", "gate_stbd", "offset", "drill",
        "finish_pin", "finish_rc"}])
    BY FactTables, EnumsApart DEF On, R0030, Swap, MarkRole, Change
  <2>2. Marks1 \ R0030.up.drop = Table("marks", [activity_id |-> PartOf("activities")], {},
        NoFields)
    BY FactTables, FactKinds DEF Marks1, R0030, Swap, MarkRole, Change
  <2>3. On(SchemaAt[30], "marks") = (On(SchemaAt[29], "marks") \ R0030.up.drop) \cup
        On(R0030.up.add, "marks")
    BY Shapes, TheRevisions, OnStep DEF Shape
  <2>. QED BY <2>1, <2>2, <2>3, <1>3 DEF Marks30
<1>5. \A v \in 30..34 : On(SchemaAt[v], "marks") = Marks30
  BY <1>4, Untouched DEF SameBut
<1>6. Marks30 = MarkORM
  BY NothingDeclared DEF Table, MarkORM, Marks30
<1>. QED BY <1>1, <1>2, <1>3, <1>4, <1>5, <1>6

\* integration_connections, as the revisions leave it: the number is that of the revision.
IntegrationConnections32 ==
    Table("integration_connections", [user_id |-> PartOf("users")], {{"user_id", "provider"}},
        [provider |-> {"garmin", "polar"}, status |-> {"pending", "active", "revoked", "error"}])

LEMMA IntegrationConnectionsTable ==
    /\ \A v \in 1..31 : On(SchemaAt[v], "integration_connections") = {}
    /\ \A v \in 32..34 : On(SchemaAt[v], "integration_connections") = IntegrationConnections32
    /\ IntegrationConnections32 = IntegrationConnectionORM
<1>1. On(SchemaAt[1], "integration_connections") = {}
  BY FirstSchema, Grouped DEF On, Baseline
<1>2. \A v \in 1..31 : On(SchemaAt[v], "integration_connections") = {}
  BY <1>1, Untouched DEF SameBut
<1>3. On(SchemaAt[32], "integration_connections") = IntegrationConnections32
  <2>1. On(R0032.up.add, "integration_connections") = IntegrationConnections32
    BY FactTables, EnumsApart DEF On, IntegrationConnections32, R0032, Add, Gone, Change
  <2>2. On(SchemaAt[32], "integration_connections") = (On(SchemaAt[31],
        "integration_connections") \ R0032.up.drop) \cup
        On(R0032.up.add, "integration_connections")
    BY Shapes, TheRevisions, OnStep DEF Shape
  <2>. QED BY <2>1, <2>2, <1>2
<1>4. \A v \in 32..34 : On(SchemaAt[v], "integration_connections") = IntegrationConnections32
  BY <1>3, Untouched DEF SameBut
<1>5. IntegrationConnections32 = IntegrationConnectionORM
  BY NothingDeclared DEF Table, IntegrationConnectionORM, IntegrationConnections32
<1>. QED BY <1>1, <1>2, <1>3, <1>4, <1>5

\* Induction over the 34 revisions, by counting: the set of good versions is closed.
LEMMA ClimbTheChain ==
    ASSUME NEW X, 1 \in X, \A n \in 1..33 : n \in X => n + 1 \in X
    PROVE  1..34 \subseteq X
<1>1. 1..12 \subseteq X
  OBVIOUS
<1>2. 12..23 \subseteq X
  BY <1>1
<1>3. 23..34 \subseteq X
  BY <1>2
<1>. QED BY <1>1, <1>2, <1>3

AllTables == FirstTables \cup
    {"session_maneuvers", "session_legs", "session_analysis", "wind_estimates", "app_config",
        "posts", "post_images", "integration_connections"}

LEMMA NoOtherTable == \A v \in 1..34 : \A f \in SchemaAt[v] : f[2] \in AllTables
<1>1. \A f \in SchemaAt[1] : f[2] \in FirstTables
  BY FirstSchema, Grouped DEF Baseline, FirstTables
<1>2. ASSUME NEW t, t \notin AllTables
      PROVE  \A v \in 1..34 : On(SchemaAt[v], t) = {}
  <2>1. On(SchemaAt[1], t) = {}
    BY <1>1, <1>2 DEF On, AllTables
  <2>. QED BY <2>1, <1>2, Untouched DEF SameBut, AllTables, FirstTables
<1>. QED BY <1>2 DEF On

LEMMA ModelsOwned ==
    /\ \A f \in DeviceTypeORM : f[2] = "device_types"
    /\ \A f \in PermissionORM : f[2] = "permissions"
    /\ \A f \in RoleORM : f[2] = "roles"
    /\ \A f \in UserORM : f[2] = "users"
    /\ \A f \in WindStationORM : f[2] = "wind_stations"
    /\ \A f \in AuthRefreshTokenORM : f[2] = "auth_refresh_tokens"
    /\ \A f \in FileORM : f[2] = "files"
    /\ \A f \in ImageORM : f[2] = "images"
    /\ \A f \in ImportORM : f[2] = "imports"
    /\ \A f \in RolePermissionORM : f[2] = "role_permissions"
    /\ \A f \in WindObservationORM : f[2] = "wind_observations"
    /\ \A f \in BoatClassORM : f[2] = "boat_classes"
    /\ \A f \in ClubORM : f[2] = "clubs"
    /\ \A f \in GroupORM : f[2] = "groups"
    /\ \A f \in BoatORM : f[2] = "boats"
    /\ \A f \in RegattaORM : f[2] = "regattas"
    /\ \A f \in UserClubORM : f[2] = "user_clubs"
    /\ \A f \in UserGroupORM : f[2] = "user_groups"
    /\ \A f \in UserRoleORM : f[2] = "user_roles"
    /\ \A f \in BoatPhotoORM : f[2] = "boat_photos"
    /\ \A f \in DeviceORM : f[2] = "devices"
    /\ \A f \in RaceDayORM : f[2] = "race_days"
    /\ \A f \in UserBoatORM : f[2] = "user_boats"
    /\ \A f \in RaceORM : f[2] = "races"
    /\ \A f \in ActivityORM : f[2] = "activities"
    /\ \A f \in MarkORM : f[2] = "marks"
    /\ \A f \in SessionORM : f[2] = "sessions"
    /\ \A f \in PolarPointORM : f[2] = "polar_points"
    /\ \A f \in ResultORM : f[2] = "results"
    /\ \A f \in SessionCrewORM : f[2] = "session_crew"
    /\ \A f \in SessionPhotoORM : f[2] = "session_photos"
    /\ \A f \in SessionStatsORM : f[2] = "session_stats"
    /\ \A f \in SessionUploadORM : f[2] = "session_uploads"
    /\ \A f \in SessionVideoORM : f[2] = "session_videos"
    /\ \A f \in SessionStreamORM : f[2] = "session_streams"
    /\ \A f \in SessionManeuverORM : f[2] = "session_maneuvers"
    /\ \A f \in SessionLegORM : f[2] = "session_legs"
    /\ \A f \in SessionAnalysisORM : f[2] = "session_analysis"
    /\ \A f \in WindEstimateORM : f[2] = "wind_estimates"
    /\ \A f \in AppConfigORM : f[2] = "app_config"
    /\ \A f \in PostORM : f[2] = "posts"
    /\ \A f \in PostImageORM : f[2] = "post_images"
    /\ \A f \in IntegrationConnectionORM : f[2] = "integration_connections"
  BY FactTables DEF DeviceTypeORM, PermissionORM, RoleORM, UserORM, WindStationORM,
       AuthRefreshTokenORM, FileORM, ImageORM, ImportORM, RolePermissionORM, WindObservationORM,
       BoatClassORM, ClubORM, GroupORM, BoatORM, RegattaORM, UserClubORM, UserGroupORM,
       UserRoleORM, BoatPhotoORM, DeviceORM, RaceDayORM, UserBoatORM, RaceORM, ActivityORM,
       MarkORM, SessionORM, PolarPointORM, ResultORM, SessionCrewORM, SessionPhotoORM,
       SessionStatsORM, SessionUploadORM, SessionVideoORM, SessionStreamORM, SessionManeuverORM,
       SessionLegORM, SessionAnalysisORM, WindEstimateORM, AppConfigORM, PostORM, PostImageORM,
       IntegrationConnectionORM

(***************************************************************************)
(* The newest schema is the one the ORM classes declare: table by table.   *)
(***************************************************************************)
LEMMA EndsAtModels == SchemaAt[34] = Models
<1>. DEFINE s == SchemaAt[34]
<1>1. On(s, "device_types") = DeviceTypeORM
  BY FixedTables
<1>2. On(s, "permissions") = PermissionORM
  BY FixedTables
<1>3. On(s, "roles") = RoleORM
  BY FixedTables
<1>4. On(s, "users") = UserORM
  BY UsersTable
<1>5. On(s, "wind_stations") = WindStationORM
  BY WindStationsTable
<1>6. On(s, "auth_refresh_tokens") = AuthRefreshTokenORM
  BY FixedTables
<1>7. On(s, "files") = FileORM
  BY FixedTables
<1>8. On(s, "images") = ImageORM
  BY FixedTables
<1>9. On(s, "imports") = ImportORM
  BY FixedTables
<1>10. On(s, "role_permissions") = RolePermissionORM
  BY FixedTables
<1>11. On(s, "wind_observations") = WindObservationORM
  BY WindObservationsTable
<1>12. On(s, "boat_classes") = BoatClassORM
  BY BoatClassesTable
<1>13. On(s, "clubs") = ClubORM
  BY FixedTables
<1>14. On(s, "groups") = GroupORM
  BY FixedTables
<1>15. On(s, "boats") = BoatORM
  BY BoatsTable
<1>16. On(s, "regattas") = RegattaORM
  BY RegattasTable
<1>17. On(s, "user_clubs") = UserClubORM
  BY UserClubsTable
<1>18. On(s, "user_groups") = UserGroupORM
  BY UserGroupsTable
<1>19. On(s, "user_roles") = UserRoleORM
  BY FixedTables
<1>20. On(s, "boat_photos") = BoatPhotoORM
  BY FixedTables
<1>21. On(s, "devices") = DeviceORM
  BY FixedTables
<1>22. On(s, "race_days") = RaceDayORM
  BY FixedTables
<1>23. On(s, "user_boats") = UserBoatORM
  BY FixedTables
<1>24. On(s, "races") = RaceORM
  BY FixedTables
<1>25. On(s, "activities") = ActivityORM
  BY ActivitiesTable
<1>26. On(s, "marks") = MarkORM
  BY MarksTable
<1>27. On(s, "sessions") = SessionORM
  BY SessionsTable
<1>28. On(s, "polar_points") = PolarPointORM
  BY FixedTables
<1>29. On(s, "results") = ResultORM
  BY FixedTables
<1>30. On(s, "session_crew") = SessionCrewORM
  BY FixedTables
<1>31. On(s, "session_photos") = SessionPhotoORM
  BY FixedTables
<1>32. On(s, "session_stats") = SessionStatsORM
  BY FixedTables
<1>33. On(s, "session_uploads") = SessionUploadORM
  BY SessionUploadsTable
<1>34. On(s, "session_videos") = SessionVideoORM
  BY FixedTables
<1>35. On(s, "session_streams") = SessionStreamORM
  BY SessionStreamsTable
<1>36. On(s, "session_maneuvers") = SessionManeuverORM
  BY SessionManeuversTable
<1>37. On(s, "session_legs") = SessionLegORM
  BY SessionLegsTable
<1>38. On(s, "session_analysis") = SessionAnalysisORM
  BY SessionAnalysisTable
<1>39. On(s, "wind_estimates") = WindEstimateORM
  BY WindEstimatesTable
<1>40. On(s, "app_config") = AppConfigORM
  BY AppConfigTable
<1>41. On(s, "posts") = PostORM
  BY PostsTable
<1>42. On(s, "post_images") = PostImageORM
  BY PostImagesTable
<1>43. On(s, "integration_connections") = IntegrationConnectionORM
  BY IntegrationConnectionsTable
<1>. HIDE DEF s
<1>44. Models \subseteq s
  BY <1>1, <1>2, <1>3, <1>4, <1>5, <1>6, <1>7, <1>8, <1>9, <1>10, <1>11, <1>12, <1>13, <1>14,
       <1>15, <1>16, <1>17, <1>18, <1>19, <1>20, <1>21, <1>22, <1>23, <1>24, <1>25, <1>26, <1>27,
       <1>28, <1>29, <1>30, <1>31, <1>32, <1>33, <1>34, <1>35, <1>36, <1>37, <1>38, <1>39, <1>40,
       <1>41, <1>42, <1>43 DEF On, Models
<1>45. ASSUME NEW f \in s
      PROVE  f \in Models
  <2>1. f \in On(s, f[2]) /\ f[2] \in AllTables
    BY NoOtherTable DEF On, s
  <2>. QED BY <2>1, <1>1, <1>2, <1>3, <1>4, <1>5, <1>6, <1>7, <1>8, <1>9, <1>10, <1>11, <1>12,
       <1>13, <1>14, <1>15, <1>16, <1>17, <1>18, <1>19, <1>20, <1>21, <1>22, <1>23, <1>24, <1>25,
       <1>26, <1>27, <1>28, <1>29, <1>30, <1>31, <1>32, <1>33, <1>34, <1>35, <1>36, <1>37, <1>38,
       <1>39, <1>40, <1>41, <1>42, <1>43 DEF Models, AllTables, FirstTables
<1>. QED BY <1>44, <1>45 DEF s

\* The baseline refers to its own tables, and endangers no history.
LEMMA FirstShapes ==
    /\ \A t \in FirstTables : <<"table", t>> \in Baseline
    /\ \A f \in Baseline : f[1] = "ref" => f[4][1] \in FirstTables
    /\ \A f \in Baseline : Harmless(f)
<1>1. \A t, r, k, e : <<"table", t>> \in Table(t, r, k, e)
  BY DEF Table
<1>2. \A t \in FirstTables : <<"table", t>> \in Baseline
  <2>1. \A t \in {"device_types", "permissions", "roles", "users", "wind_stations",
        "auth_refresh_tokens"} : <<"table", t>> \in BaselineAccounts
    BY <1>1 DEF BaselineAccounts
  <2>2. \A t \in {"files", "images", "imports", "role_permissions", "wind_observations",
        "boat_classes"} : <<"table", t>> \in BaselineMedia
    BY <1>1 DEF BaselineMedia
  <2>3. \A t \in {"clubs", "groups", "boats", "regattas"} : <<"table", t>> \in BaselineFleet
    BY <1>1 DEF BaselineFleet
  <2>4. \A t \in {"user_clubs", "user_groups", "user_roles", "boat_photos", "devices",
        "race_days", "user_boats"} : <<"table", t>> \in BaselineMembers
    BY <1>1 DEF BaselineMembers
  <2>5. \A t \in {"races", "activities", "marks", "sessions", "polar_points", "results"} :
        <<"table", t>> \in BaselineRaces
    BY <1>1 DEF BaselineRaces
  <2>6. \A t \in {"session_crew", "session_photos", "session_stats", "session_uploads",
        "session_videos", "session_streams"} : <<"table", t>> \in BaselineSessions
    BY <1>1 DEF BaselineSessions
  <2>. QED BY <2>1, <2>2, <2>3, <2>4, <2>5, <2>6 DEF Baseline, FirstTables
<1>3. \A f \in BaselineAccounts : (f[1] = "ref" => f[4][1] \in FirstTables) /\ Harmless(f)
  <2>1. \A f \in BaselineAccounts : f[2] = "device_types" => (f[1] # "ref")
    BY FactTables, FactKinds DEF BaselineAccounts
  <2>2. \A f \in BaselineAccounts : f[2] = "permissions" => (f[1] # "ref")
    BY FactTables, FactKinds DEF BaselineAccounts
  <2>3. \A f \in BaselineAccounts : f[2] = "roles" => (f[1] # "ref")
    BY FactTables, FactKinds DEF BaselineAccounts
  <2>4. \A f \in BaselineAccounts : f[2] = "users" => (f[1] = "ref" => f[4] \in
        {LinksTo("images")})
    BY FactTables, FactKinds DEF BaselineAccounts
  <2>5. \A f \in BaselineAccounts : f[2] = "wind_stations" => (f[1] # "ref")
    BY FactTables, FactKinds DEF BaselineAccounts
  <2>6. \A f \in BaselineAccounts : f[2] = "auth_refresh_tokens" =>
        (f[1] = "ref" => f[4] \in {LinksTo("auth_refresh_tokens"), PartOf("users")})
    BY FactTables, FactKinds DEF BaselineAccounts
  <2>. QED BY <2>1, <2>2, <2>3, <2>4, <2>5, <2>6, Grouped, LinkRules DEF Harmless, Upstream,
       FirstTables
<1>4. \A f \in BaselineMedia : (f[1] = "ref" => f[4][1] \in FirstTables) /\ Harmless(f)
  <2>1. \A f \in BaselineMedia : f[2] = "files" => (f[1] = "ref" => f[4] \in {LinksTo("users")})
    BY FactTables, FactKinds DEF BaselineMedia
  <2>2. \A f \in BaselineMedia : f[2] = "images" => (f[1] = "ref" => f[4] \in {LinksTo("users")})
    BY FactTables, FactKinds DEF BaselineMedia
  <2>3. \A f \in BaselineMedia : f[2] = "imports" => (f[1] = "ref" => f[4] \in {LinksTo("users")})
    BY FactTables, FactKinds DEF BaselineMedia
  <2>4. \A f \in BaselineMedia : f[2] = "role_permissions" =>
        (f[1] = "ref" => f[4] \in {PartOf("permissions"), PartOf("roles")})
    BY FactTables, FactKinds DEF BaselineMedia
  <2>5. \A f \in BaselineMedia : f[2] = "wind_observations" =>
        (f[1] = "ref" => f[4] \in {PartOf("wind_stations")})
    BY FactTables, FactKinds DEF BaselineMedia
  <2>6. \A f \in BaselineMedia : f[2] = "boat_classes" =>
        (f[1] = "ref" => f[4] \in {LinksTo("images")})
    BY FactTables, FactKinds DEF BaselineMedia
  <2>. QED BY <2>1, <2>2, <2>3, <2>4, <2>5, <2>6, Grouped, LinkRules DEF Harmless, Upstream,
       FirstTables
<1>5. \A f \in BaselineFleet : (f[1] = "ref" => f[4][1] \in FirstTables) /\ Harmless(f)
  <2>1. \A f \in BaselineFleet : f[2] = "clubs" => (f[1] = "ref" => f[4] \in {LinksTo("images")})
    BY FactTables, FactKinds DEF BaselineFleet
  <2>2. \A f \in BaselineFleet : f[2] = "groups" => (f[1] = "ref" => f[4] \in
        {LinksTo("images"), LinksTo("users")})
    BY FactTables, FactKinds DEF BaselineFleet
  <2>3. \A f \in BaselineFleet : f[2] = "boats" => (f[1] = "ref" => f[4] \in
        {LinksTo("clubs"), LinksTo("files")})
    BY FactTables, FactKinds DEF BaselineFleet
  <2>4. \A f \in BaselineFleet : f[2] = "regattas" => (f[1] = "ref" => f[4] \in
        {LinksTo("boat_classes"), Needs("clubs")})
    BY FactTables, FactKinds DEF BaselineFleet
  <2>. QED BY <2>1, <2>2, <2>3, <2>4, Grouped, LinkRules DEF Harmless, Upstream, FirstTables
<1>6. \A f \in BaselineMembers : (f[1] = "ref" => f[4][1] \in FirstTables) /\ Harmless(f)
  <2>1. \A f \in BaselineMembers : f[2] = "user_clubs" =>
        (f[1] = "ref" => f[4] \in {PartOf("clubs"), PartOf("users")})
    BY FactTables, FactKinds DEF BaselineMembers
  <2>2. \A f \in BaselineMembers : f[2] = "user_groups" =>
        (f[1] = "ref" => f[4] \in {PartOf("groups"), PartOf("users")})
    BY FactTables, FactKinds DEF BaselineMembers
  <2>3. \A f \in BaselineMembers : f[2] = "user_roles" =>
        (f[1] = "ref" => f[4] \in {MaybePartOf("clubs"), PartOf("roles"), PartOf("users")})
    BY FactTables, FactKinds DEF BaselineMembers
  <2>4. \A f \in BaselineMembers : f[2] = "boat_photos" =>
        (f[1] = "ref" => f[4] \in {PartOf("boats"), PartOf("images")})
    BY FactTables, FactKinds DEF BaselineMembers
  <2>5. \A f \in BaselineMembers : f[2] = "devices" =>
        (f[1] = "ref" => f[4] \in {LinksTo("boats"), LinksTo("clubs"), LinksTo("users"),
        Needs("device_types")})
    BY FactTables, FactKinds DEF BaselineMembers
  <2>6. \A f \in BaselineMembers : f[2] = "race_days" =>
        (f[1] = "ref" => f[4] \in {MaybePartOf("regattas")})
    BY FactTables, FactKinds DEF BaselineMembers
  <2>7. \A f \in BaselineMembers : f[2] = "user_boats" =>
        (f[1] = "ref" => f[4] \in {PartOf("boats"), PartOf("users")})
    BY FactTables, FactKinds DEF BaselineMembers
  <2>. QED BY <2>1, <2>2, <2>3, <2>4, <2>5, <2>6, <2>7, Grouped, LinkRules DEF Harmless,
       Upstream, FirstTables
<1>7. \A f \in BaselineRaces : (f[1] = "ref" => f[4][1] \in FirstTables) /\ Harmless(f)
  <2>1. \A f \in BaselineRaces : f[2] = "races" => (f[1] = "ref" => f[4] \in
        {PartOf("race_days")})
    BY FactTables, FactKinds DEF BaselineRaces
  <2>2. \A f \in BaselineRaces : f[2] = "activities" =>
        (f[1] = "ref" => f[4] \in {LinksTo("clubs"), LinksTo("groups"), LinksTo("races"),
        LinksTo("users")})
    BY FactTables, FactKinds DEF BaselineRaces
  <2>3. \A f \in BaselineRaces : f[2] = "marks" => (f[1] = "ref" => f[4] \in
        {PartOf("activities")})
    BY FactTables, FactKinds DEF BaselineRaces
  <2>4. \A f \in BaselineRaces : f[2] = "sessions" => (f[1] = "ref" => f[4] \in
        {Needs("boats"), PartOf("activities")})
    BY FactTables, FactKinds DEF BaselineRaces
  <2>5. \A f \in BaselineRaces : f[2] = "polar_points" =>
        (f[1] = "ref" => f[4] \in {MaybePartOf("boat_classes"), MaybePartOf("boats"),
        MaybePartOf("sessions")})
    BY FactTables, FactKinds DEF BaselineRaces
  <2>6. \A f \in BaselineRaces : f[2] = "results" => (f[1] = "ref" => f[4] \in
        {LinksTo("sessions"), Needs("boats"), PartOf("races")})
    BY FactTables, FactKinds DEF BaselineRaces
  <2>. QED BY <2>1, <2>2, <2>3, <2>4, <2>5, <2>6, Grouped, LinkRules DEF Harmless, Upstream,
       FirstTables
<1>8. \A f \in BaselineSessions : (f[1] = "ref" => f[4][1] \in FirstTables) /\ Harmless(f)
  <2>1. \A f \in BaselineSessions : f[2] = "session_crew" =>
        (f[1] = "ref" => f[4] \in {PartOf("sessions"), PartOf("users")})
    BY FactTables, FactKinds DEF BaselineSessions
  <2>2. \A f \in BaselineSessions : f[2] = "session_photos" =>
        (f[1] = "ref" => f[4] \in {LinksTo("users"), PartOf("images"), PartOf("sessions")})
    BY FactTables, FactKinds DEF BaselineSessions
  <2>3. \A f \in BaselineSessions : f[2] = "session_stats" =>
        (f[1] = "ref" => f[4] \in {PartOf("sessions")})
    BY FactTables, FactKinds DEF BaselineSessions
  <2>4. \A f \in BaselineSessions : f[2] = "session_uploads" =>
        (f[1] = "ref" => f[4] \in {LinksTo("users"), MaybeNeeds("devices"),
        MaybeNeeds("imports"), PartOf("sessions")})
    BY FactTables, FactKinds DEF BaselineSessions
  <2>5. \A f \in BaselineSessions : f[2] = "session_videos" =>
        (f[1] = "ref" => f[4] \in {LinksTo("users"), PartOf("files"), PartOf("sessions")})
    BY FactTables, FactKinds DEF BaselineSessions
  <2>6. \A f \in BaselineSessions : f[2] = "session_streams" =>
        (f[1] = "ref" => f[4] \in {PartOf("session_uploads")})
    BY FactTables, FactKinds DEF BaselineSessions
  <2>. QED BY <2>1, <2>2, <2>3, <2>4, <2>5, <2>6, Grouped, LinkRules DEF Harmless, Upstream,
       FirstTables
<1>. QED BY <1>2, <1>3, <1>4, <1>5, <1>6, <1>7, <1>8 DEF Baseline

\* No reference dangles, and no foreign key endangers the history.
SoundAt(v) ==
    /\ \A t \in FirstTables : <<"table", t>> \in SchemaAt[v]
    /\ v >= 25 => <<"table", "posts">> \in SchemaAt[v]
    /\ \A f \in SchemaAt[v] : f[1] = "ref" => <<"table", f[4][1]>> \in SchemaAt[v]
    /\ \A f \in SchemaAt[v] : Harmless(f)

LEMMA EverySchemaSound == \A v \in 1..34 : SoundAt(v)
<1>. DEFINE X == {v \in 1..34 : SoundAt(v)}
<1>1. 1 \in X
  BY FirstSchema, FirstShapes DEF SoundAt
<1>2. <<"table", "posts">> \in R0025.up.add
  BY DEF R0025, Add, Change, Table
<1>3. ASSUME NEW n \in 1..33, n \in X
      PROVE  n + 1 \in X
  <2>. DEFINE v == n + 1
             ch == Revisions[v].up
  <2>1. v \in 2..34 /\ v - 1 = n /\ SoundAt(n)
    BY <1>3
  <2>2. PICK ts : Shape(v, ch, ts)
    BY <2>1, Shapes, TheRevisions
  <2>3. SchemaAt[v] = (SchemaAt[n] \ ch.drop) \cup ch.add
    <3>1. SchemaAt[v] = Changed(SchemaAt[n], ch)
      BY <2>1, Chain
    <3>. HIDE DEF v, ch
    <3>. QED BY <3>1, <2>2 DEF Shape, Changed
  <2>4. \A t : <<"table", t>> \in SchemaAt[n] => <<"table", t>> \in SchemaAt[v]
    BY <2>2, <2>3 DEF Shape
  <2>5. v >= 25 => <<"table", "posts">> \in SchemaAt[v]
    <3>1. CASE v = 25
      BY <3>1, <1>2, <2>3, TheRevisions
    <3>2. CASE v > 25
      BY <3>2, <2>1, <2>4 DEF SoundAt
    <3>. QED BY <2>1, <3>1, <3>2
  <2>. HIDE DEF v, ch
  <2>6. \A f \in ch.add : Harmless(f) /\ (f[1] = "ref" => <<"table", f[4][1]>> \in SchemaAt[v])
    <3>1. ASSUME NEW f \in ch.add, f[1] = "ref"
          PROVE  <<"table", f[4][1]>> \in SchemaAt[v]
      <4>1. CASE f[4][1] \in FirstTables
        BY <4>1, <2>1, <2>4 DEF SoundAt
      <4>2. CASE v = 26 /\ f[4][1] = "posts"
        BY <4>2, <2>5
      <4>. QED BY <3>1, <4>1, <4>2, <2>2 DEF Shape
    <3>. QED BY <3>1, <2>2 DEF Shape
  <2>7. \A f \in SchemaAt[n] : Harmless(f) /\ (f[1] = "ref" => <<"table", f[4][1]>> \in
        SchemaAt[v])
    BY <2>1, <2>4 DEF SoundAt
  <2>8. SoundAt(v)
    BY <2>1, <2>3, <2>4, <2>5, <2>6, <2>7 DEF SoundAt
  <2>. QED BY <2>1, <2>8 DEF v
<1>. HIDE DEF X
<1>4. 1..34 \subseteq X
  BY <1>1, <1>3, ClimbTheChain
<1>. QED BY <1>4 DEF X

\* The upgrade drops what is there and creates what is not.
Fits(v, ch) ==
    /\ ch.drop \subseteq SchemaAt[v - 1]
    /\ ch.add \cap (SchemaAt[v - 1] \ ch.drop) = {}

LEMMA EveryUpgradeFits == \A v \in 1..34 : Fits(v, Revisions[v].up)
<1>0. \A r, e : UniqueKeys("boat_classes", {{"rya_class_id"}}) \cap
      Table("boat_classes", r, {{"name"}}, e) = {}
  BY DEF UniqueKeys, Table, Refs, Enums
<1>1. Fits(1, R0001.up)
  BY Chain DEF Fits, R0001, Add, Change
<1>2. Fits(2, R0002.up)
  <2>1. On(SchemaAt[1], "user_groups") = UserGroups1
    BY UserGroupsTable
  <2>2. /\ \A f \in R0002.up.drop : f[2] = "user_groups" => f \in UserGroups1
        /\ \A f \in R0002.up.add : f[2] = "user_groups" /\ f \in UserGroups1 => f \in
           R0002.up.drop
    BY FactTables, FactKinds DEF UserGroups1, R0002, Swap, ClubStatus, Change
  <2>3. On(SchemaAt[1], "user_clubs") = UserClubs1
    BY UserClubsTable
  <2>4. /\ \A f \in R0002.up.drop : f[2] = "user_clubs" => f \in UserClubs1
        /\ \A f \in R0002.up.add : f[2] = "user_clubs" /\ f \in UserClubs1 => f \in R0002.up.drop
    BY FactTables, FactKinds DEF UserClubs1, R0002, Swap, ClubStatus, Change
  <2>. QED BY <2>1, <2>2, <2>3, <2>4, Shapes DEF Shape, Fits, On
<1>3. Fits(3, R0003.up)
  <2>1. On(SchemaAt[2], "boats") = Boats1
    BY BoatsTable
  <2>2. /\ \A f \in R0003.up.drop : f[2] = "boats" => f \in Boats1
        /\ \A f \in R0003.up.add : f[2] = "boats" /\ f \in Boats1 => f \in R0003.up.drop
    BY FactTables, FactKinds DEF Boats1, R0003, Swap, Change
  <2>. QED BY <2>1, <2>2, Shapes DEF Shape, Fits, On
<1>4. Fits(4, R0004.up)
  <2>1. On(SchemaAt[3], "session_maneuvers") = {} /\ \A f \in R0004.up.drop : f[2] #
        "session_maneuvers"
    BY SessionManeuversTable, FactTables DEF R0004, Add, Gone, Change
  <2>2. On(SchemaAt[3], "session_legs") = {} /\ \A f \in R0004.up.drop : f[2] # "session_legs"
    BY SessionLegsTable, FactTables DEF R0004, Add, Gone, Change
  <2>3. On(SchemaAt[3], "session_analysis") = {} /\ \A f \in R0004.up.drop : f[2] #
        "session_analysis"
    BY SessionAnalysisTable, FactTables DEF R0004, Add, Gone, Change
  <2>. QED BY <2>1, <2>2, <2>3, Shapes DEF Shape, Fits, On
<1>5. Fits(5, R0005.up)
  <2>1. On(SchemaAt[4], "session_analysis") = SessionAnalysis4
    BY SessionAnalysisTable
  <2>2. /\ \A f \in R0005.up.drop : f[2] = "session_analysis" => f \in SessionAnalysis4
        /\ \A f \in R0005.up.add : f[2] = "session_analysis" /\ f \in SessionAnalysis4 => f \in
           R0005.up.drop
    BY FactTables, FactKinds DEF SessionAnalysis4, R0005, Add, Drop, Change
  <2>. QED BY <2>1, <2>2, Shapes DEF Shape, Fits, On
<1>6. Fits(6, R0006.up)
  <2>1. On(SchemaAt[5], "users") = Users1
    BY UsersTable
  <2>2. /\ \A f \in R0006.up.drop : f[2] = "users" => f \in Users1
        /\ \A f \in R0006.up.add : f[2] = "users" /\ f \in Users1 => f \in R0006.up.drop
    BY FactTables, FactKinds DEF Users1, R0006, Add, Drop, Change
  <2>. QED BY <2>1, <2>2, Shapes DEF Shape, Fits, On
<1>7. Fits(7, R0007.up)
  <2>1. On(SchemaAt[6], "session_analysis") = SessionAnalysis5
    BY SessionAnalysisTable
  <2>2. /\ \A f \in R0007.up.drop : f[2] = "session_analysis" => f \in SessionAnalysis5
        /\ \A f \in R0007.up.add : f[2] = "session_analysis" /\ f \in SessionAnalysis5 => f \in
           R0007.up.drop
    BY FactTables, FactKinds DEF SessionAnalysis5, SessionAnalysis4, R0007, Add, Drop, Change
  <2>. QED BY <2>1, <2>2, Shapes DEF Shape, Fits, On
<1>8. Fits(8, R0008.up)
  <2>1. On(SchemaAt[7], "activities") = Activities1
    BY ActivitiesTable
  <2>2. /\ \A f \in R0008.up.drop : f[2] = "activities" => f \in Activities1
        /\ \A f \in R0008.up.add : f[2] = "activities" /\ f \in Activities1 => f \in R0008.up.drop
    BY FactTables, FactKinds DEF Activities1, R0008, Add, Drop, Change
  <2>. QED BY <2>1, <2>2, Shapes DEF Shape, Fits, On
<1>9. Fits(9, R0009.up)
  <2>1. On(SchemaAt[8], "wind_observations") = WindObservations1
    BY WindObservationsTable
  <2>2. /\ \A f \in R0009.up.drop : f[2] = "wind_observations" => f \in WindObservations1
        /\ \A f \in R0009.up.add : f[2] = "wind_observations" /\ f \in WindObservations1 => f \in
           R0009.up.drop
    BY FactTables, FactKinds DEF WindObservations1, R0009, Add, Drop, IsForecast, Change
  <2>. QED BY <2>1, <2>2, Shapes DEF Shape, Fits, On
<1>10. Fits(10, R0010.up)
  <2>1. On(SchemaAt[9], "session_legs") = SessionLegs4
    BY SessionLegsTable
  <2>2. /\ \A f \in R0010.up.drop : f[2] = "session_legs" => f \in SessionLegs4
        /\ \A f \in R0010.up.add : f[2] = "session_legs" /\ f \in SessionLegs4 => f \in
           R0010.up.drop
    BY FactTables, FactKinds DEF SessionLegs4, R0010, Add, Drop, Change
  <2>. QED BY <2>1, <2>2, Shapes DEF Shape, Fits, On
<1>11. Fits(11, R0011.up)
  <2>1. On(SchemaAt[10], "wind_stations") = WindStations1
    BY WindStationsTable
  <2>2. /\ \A f \in R0011.up.drop : f[2] = "wind_stations" => f \in WindStations1
        /\ \A f \in R0011.up.add : f[2] = "wind_stations" /\ f \in WindStations1 => f \in
           R0011.up.drop
    BY FactTables, FactKinds DEF WindStations1, R0011, Swap, Change, IsForecast, Provider,
         StationType
  <2>3. On(SchemaAt[10], "wind_observations") = WindObservations9
    BY WindObservationsTable
  <2>4. /\ \A f \in R0011.up.drop : f[2] = "wind_observations" => f \in WindObservations9
        /\ \A f \in R0011.up.add : f[2] = "wind_observations" /\ f \in WindObservations9 => f \in
           R0011.up.drop
    BY FactTables, FactKinds DEF WindObservations9, WindObservations1, R0011, Swap, Change,
         IsForecast, Provider, StationType
  <2>5. On(SchemaAt[10], "wind_estimates") = {} /\ \A f \in R0011.up.drop : f[2] #
        "wind_estimates"
    BY WindEstimatesTable, FactTables DEF R0011, Swap, Change, IsForecast, Provider, StationType
  <2>. QED BY <2>1, <2>2, <2>3, <2>4, <2>5, Shapes DEF Shape, Fits, On
<1>12. Fits(12, R0012.up)
  <2>1. On(SchemaAt[11], "session_analysis") = SessionAnalysis7
    BY SessionAnalysisTable
  <2>2. /\ \A f \in R0012.up.drop : f[2] = "session_analysis" => f \in SessionAnalysis7
        /\ \A f \in R0012.up.add : f[2] = "session_analysis" /\ f \in SessionAnalysis7 => f \in
           R0012.up.drop
    BY FactTables, FactKinds DEF SessionAnalysis7, SessionAnalysis5, SessionAnalysis4, R0012,
         Add, Drop, Change
  <2>. QED BY <2>1, <2>2, Shapes DEF Shape, Fits, On
<1>13. Fits(13, R0013.up)
  <2>1. On(SchemaAt[12], "session_streams") = SessionStreams1
    BY SessionStreamsTable
  <2>2. /\ \A f \in R0013.up.drop : f[2] = "session_streams" => f \in SessionStreams1
        /\ \A f \in R0013.up.add : f[2] = "session_streams" /\ f \in SessionStreams1 => f \in
           R0013.up.drop
    BY FactTables, FactKinds DEF SessionStreams1, R0013, Swap, SensorType, Change
  <2>. QED BY <2>1, <2>2, Shapes DEF Shape, Fits, On
<1>14. Fits(14, R0014.up)
  <2>1. On(SchemaAt[13], "session_uploads") = SessionUploads1
    BY SessionUploadsTable
  <2>2. /\ \A f \in R0014.up.drop : f[2] = "session_uploads" => f \in SessionUploads1
        /\ \A f \in R0014.up.add : f[2] = "session_uploads" /\ f \in SessionUploads1 => f \in
           R0014.up.drop
    BY FactTables, FactKinds DEF SessionUploads1, R0014, Add, Drop, Change
  <2>. QED BY <2>1, <2>2, Shapes DEF Shape, Fits, On
<1>15. Fits(15, R0015.up)
  <2>1. On(SchemaAt[14], "session_maneuvers") = SessionManeuvers4
    BY SessionManeuversTable
  <2>2. /\ \A f \in R0015.up.drop : f[2] = "session_maneuvers" => f \in SessionManeuvers4
        /\ \A f \in R0015.up.add : f[2] = "session_maneuvers" /\ f \in SessionManeuvers4 => f \in
           R0015.up.drop
    BY FactTables, FactKinds DEF SessionManeuvers4, R0015, Swap, ManeuverType, Change
  <2>. QED BY <2>1, <2>2, Shapes DEF Shape, Fits, On
<1>16. Fits(16, R0016.up)
  <2>1. On(SchemaAt[15], "session_maneuvers") = SessionManeuvers15
    BY SessionManeuversTable
  <2>2. /\ \A f \in R0016.up.drop : f[2] = "session_maneuvers" => f \in SessionManeuvers15
        /\ \A f \in R0016.up.add : f[2] = "session_maneuvers" /\ f \in SessionManeuvers15 => f
           \in R0016.up.drop
    BY FactTables, FactKinds DEF SessionManeuvers15, R0016, Add, Drop, Change
  <2>. QED BY <2>1, <2>2, Shapes DEF Shape, Fits, On
<1>17. Fits(17, R0017.up)
  <2>1. On(SchemaAt[16], "session_maneuvers") = SessionManeuvers16
    BY SessionManeuversTable
  <2>2. /\ \A f \in R0017.up.drop : f[2] = "session_maneuvers" => f \in SessionManeuvers16
        /\ \A f \in R0017.up.add : f[2] = "session_maneuvers" /\ f \in SessionManeuvers16 => f
           \in R0017.up.drop
    BY FactTables, FactKinds DEF SessionManeuvers16, R0017, Add, Drop, Change
  <2>. QED BY <2>1, <2>2, Shapes DEF Shape, Fits, On
<1>18. Fits(18, R0018.up)
  <2>1. On(SchemaAt[17], "session_maneuvers") = SessionManeuvers17
    BY SessionManeuversTable
  <2>2. /\ \A f \in R0018.up.drop : f[2] = "session_maneuvers" => f \in SessionManeuvers17
        /\ \A f \in R0018.up.add : f[2] = "session_maneuvers" /\ f \in SessionManeuvers17 => f
           \in R0018.up.drop
    BY FactTables, FactKinds DEF SessionManeuvers17, SessionManeuvers16, R0018, Add, Drop, Change
  <2>. QED BY <2>1, <2>2, Shapes DEF Shape, Fits, On
<1>19. Fits(19, R0019.up)
  <2>1. On(SchemaAt[18], "boat_classes") = BoatClasses1
    BY BoatClassesTable
  <2>2. /\ \A f \in R0019.up.drop : f[2] = "boat_classes" => f \in BoatClasses1
        /\ \A f \in R0019.up.add : f[2] = "boat_classes" /\ f \in BoatClasses1 => f \in
           R0019.up.drop
    BY FactTables, FactKinds DEF BoatClasses1, R0019, Add, Drop, Change
  <2>. QED BY <2>1, <2>2, Shapes DEF Shape, Fits, On
<1>20. Fits(20, R0020.up)
  <2>1. On(SchemaAt[19], "boat_classes") = BoatClasses19
    BY BoatClassesTable
  <2>2. UniqueKeys("boat_classes", {{"rya_class_id"}}) \cap BoatClasses19 = {}
    BY <1>0, FactTables, FactKinds DEF BoatClasses19, BoatClasses1
  <2>3. /\ \A f \in R0020.up.drop : f[2] = "boat_classes" => f \in BoatClasses19
        /\ \A f \in R0020.up.add : f[2] = "boat_classes" /\ f \in BoatClasses19 => f \in
           R0020.up.drop
    BY <2>2, FactTables, FactKinds DEF BoatClasses19, BoatClasses1, R0020, Add, Drop, Change
  <2>. QED BY <2>1, <2>2, <2>3, Shapes DEF Shape, Fits, On
<1>21. Fits(21, R0021.up)
  <2>1. On(SchemaAt[20], "wind_stations") = WindStations11
    BY WindStationsTable
  <2>2. /\ \A f \in R0021.up.drop : f[2] = "wind_stations" => f \in WindStations11
        /\ \A f \in R0021.up.add : f[2] = "wind_stations" /\ f \in WindStations11 => f \in
           R0021.up.drop
    BY FactTables, FactKinds DEF WindStations11, R0021, Swap, Provider, Change
  <2>. QED BY <2>1, <2>2, Shapes DEF Shape, Fits, On
<1>22. Fits(22, R0022.up)
  <2>1. On(SchemaAt[21], "wind_stations") = WindStations21
    BY WindStationsTable
  <2>2. /\ \A f \in R0022.up.drop : f[2] = "wind_stations" => f \in WindStations21
        /\ \A f \in R0022.up.add : f[2] = "wind_stations" /\ f \in WindStations21 => f \in
           R0022.up.drop
    BY FactTables, FactKinds DEF WindStations21, R0022, Swap, Provider, Change
  <2>. QED BY <2>1, <2>2, Shapes DEF Shape, Fits, On
<1>23. Fits(23, R0023.up)
  <2>1. On(SchemaAt[22], "sessions") = Sessions1
    BY SessionsTable
  <2>2. /\ \A f \in R0023.up.drop : f[2] = "sessions" => f \in Sessions1
        /\ \A f \in R0023.up.add : f[2] = "sessions" /\ f \in Sessions1 => f \in R0023.up.drop
    BY FactTables, FactKinds DEF Sessions1, R0023, Add, Drop, Change
  <2>. QED BY <2>1, <2>2, Shapes DEF Shape, Fits, On
<1>24. Fits(24, R0024.up)
  <2>1. On(SchemaAt[23], "app_config") = {} /\ \A f \in R0024.up.drop : f[2] # "app_config"
    BY AppConfigTable, FactTables DEF R0024, Add, Gone, Change
  <2>. QED BY <2>1, Shapes DEF Shape, Fits, On
<1>25. Fits(25, R0025.up)
  <2>1. On(SchemaAt[24], "posts") = {} /\ \A f \in R0025.up.drop : f[2] # "posts"
    BY PostsTable, FactTables DEF R0025, Add, Gone, PostImage, Change
  <2>. QED BY <2>1, Shapes DEF Shape, Fits, On
<1>26. Fits(26, R0026.up)
  <2>1. On(SchemaAt[25], "posts") = Posts25
    BY PostsTable
  <2>2. /\ \A f \in R0026.up.drop : f[2] = "posts" => f \in Posts25
        /\ \A f \in R0026.up.add : f[2] = "posts" /\ f \in Posts25 => f \in R0026.up.drop
    BY FactTables, FactKinds DEF Posts25, R0026, Swap, Change, PostImage
  <2>3. On(SchemaAt[25], "post_images") = {} /\ \A f \in R0026.up.drop : f[2] # "post_images"
    BY PostImagesTable, FactTables DEF R0026, Swap, Change, PostImage
  <2>. QED BY <2>1, <2>2, <2>3, Shapes DEF Shape, Fits, On
<1>27. Fits(27, R0027.up)
  <2>1. On(SchemaAt[26], "activities") = Activities8
    BY ActivitiesTable
  <2>2. /\ \A f \in R0027.up.drop : f[2] = "activities" => f \in Activities8
        /\ \A f \in R0027.up.add : f[2] = "activities" /\ f \in Activities8 => f \in R0027.up.drop
    BY FactTables, FactKinds DEF Activities8, Activities1, R0027, Add, Drop, Change
  <2>. QED BY <2>1, <2>2, Shapes DEF Shape, Fits, On
<1>28. Fits(28, R0028.up)
  <2>1. On(SchemaAt[27], "regattas") = Regattas1
    BY RegattasTable
  <2>2. /\ \A f \in R0028.up.drop : f[2] = "regattas" => f \in Regattas1
        /\ \A f \in R0028.up.add : f[2] = "regattas" /\ f \in Regattas1 => f \in R0028.up.drop
    BY FactTables, FactKinds DEF Regattas1, R0028, Add, Drop, Change
  <2>. QED BY <2>1, <2>2, Shapes DEF Shape, Fits, On
<1>29. Fits(29, R0029.up)
  <2>1. On(SchemaAt[28], "posts") = Posts26
    BY PostsTable
  <2>2. /\ \A f \in R0029.up.drop : f[2] = "posts" => f \in Posts26
        /\ \A f \in R0029.up.add : f[2] = "posts" /\ f \in Posts26 => f \in R0029.up.drop
    BY FactTables, FactKinds DEF Posts26, R0029, Add, Drop, Change
  <2>. QED BY <2>1, <2>2, Shapes DEF Shape, Fits, On
<1>30. Fits(30, R0030.up)
  <2>1. On(SchemaAt[29], "marks") = Marks1
    BY MarksTable
  <2>2. /\ \A f \in R0030.up.drop : f[2] = "marks" => f \in Marks1
        /\ \A f \in R0030.up.add : f[2] = "marks" /\ f \in Marks1 => f \in R0030.up.drop
    BY FactTables, FactKinds DEF Marks1, R0030, Swap, MarkRole, Change
  <2>. QED BY <2>1, <2>2, Shapes DEF Shape, Fits, On
<1>31. Fits(31, R0031.up)
  <2>1. On(SchemaAt[30], "posts") = Posts29
    BY PostsTable
  <2>2. /\ \A f \in R0031.up.drop : f[2] = "posts" => f \in Posts29
        /\ \A f \in R0031.up.add : f[2] = "posts" /\ f \in Posts29 => f \in R0031.up.drop
    BY FactTables, FactKinds DEF Posts29, Posts26, R0031, Add, Drop, Change
  <2>. QED BY <2>1, <2>2, Shapes DEF Shape, Fits, On
<1>32. Fits(32, R0032.up)
  <2>1. On(SchemaAt[31], "integration_connections") = {} /\ \A f \in R0032.up.drop : f[2] #
        "integration_connections"
    BY IntegrationConnectionsTable, FactTables DEF R0032, Add, Gone, Change
  <2>. QED BY <2>1, Shapes DEF Shape, Fits, On
<1>33. Fits(33, R0033.up)
  <2>1. On(SchemaAt[32], "users") = Users6
    BY UsersTable
  <2>2. /\ \A f \in R0033.up.drop : f[2] = "users" => f \in Users6
        /\ \A f \in R0033.up.add : f[2] = "users" /\ f \in Users6 => f \in R0033.up.drop
    BY FactTables, FactKinds DEF Users6, Users1, R0033, Add, Drop, Change
  <2>. QED BY <2>1, <2>2, Shapes DEF Shape, Fits, On
<1>34. Fits(34, R0034.up)
  <2>1. On(SchemaAt[33], "users") = Users33
    BY UsersTable
  <2>2. /\ \A f \in R0034.up.drop : f[2] = "users" => f \in Users33
        /\ \A f \in R0034.up.add : f[2] = "users" /\ f \in Users33 => f \in R0034.up.drop
    BY FactTables, FactKinds DEF Users33, Users6, Users1, R0034, Add, Drop, Change
  <2>. QED BY <2>1, <2>2, Shapes DEF Shape, Fits, On
<1>. QED BY <1>1, <1>2, <1>3, <1>4, <1>5, <1>6, <1>7, <1>8, <1>9, <1>10, <1>11, <1>12, <1>13,
     <1>14, <1>15, <1>16, <1>17, <1>18, <1>19, <1>20, <1>21, <1>22, <1>23, <1>24, <1>25, <1>26,
     <1>27, <1>28, <1>29, <1>30, <1>31, <1>32, <1>33, <1>34, TheRevisions

\* The downgrade takes back what the upgrade did, and nothing else.
Reverses(v, up, down) ==
    /\ down.add = up.drop
    /\ down.drop \subseteq up.add
    /\ \A f \in up.add : f \in down.drop \/ f[2] \in down.gone
    /\ \A t \in down.gone : On(SchemaAt[v - 1], t) = {}

LEMMA DowngradesReverse == \A v \in (1..34) \ {31} : Reverses(v, Revisions[v].up,
    Revisions[v].down)
<1>1. Reverses(1, R0001.up, R0001.down)
  <2>1. \A t : On(SchemaAt[0], t) = {}
    BY Chain DEF On
  <2>2. \A f \in Baseline : f[2] \in R0001.down.gone
    BY Grouped DEF Baseline, R0001, Gone, Change
  <2>3. R0001.up.add = Baseline /\ R0001.up.drop = {} /\ R0001.down.add = {} /\ R0001.down.drop =
        {}
    BY DEF R0001, Add, Gone, Change
  <2>. QED BY <2>1, <2>2, <2>3 DEF Reverses
<1>2. /\ Reverses(2, R0002.up, R0002.down) /\ Reverses(3, R0003.up, R0003.down)
      /\ Reverses(5, R0005.up, R0005.down) /\ Reverses(6, R0006.up, R0006.down)
      /\ Reverses(7, R0007.up, R0007.down) /\ Reverses(8, R0008.up, R0008.down)
      /\ Reverses(9, R0009.up, R0009.down) /\ Reverses(10, R0010.up, R0010.down)
      /\ Reverses(12, R0012.up, R0012.down) /\ Reverses(13, R0013.up, R0013.down)
      /\ Reverses(14, R0014.up, R0014.down) /\ Reverses(15, R0015.up, R0015.down)
      /\ Reverses(16, R0016.up, R0016.down) /\ Reverses(17, R0017.up, R0017.down)
      /\ Reverses(18, R0018.up, R0018.down) /\ Reverses(19, R0019.up, R0019.down)
      /\ Reverses(20, R0020.up, R0020.down) /\ Reverses(21, R0021.up, R0021.down)
      /\ Reverses(22, R0022.up, R0022.down) /\ Reverses(23, R0023.up, R0023.down)
      /\ Reverses(27, R0027.up, R0027.down) /\ Reverses(28, R0028.up, R0028.down)
      /\ Reverses(29, R0029.up, R0029.down) /\ Reverses(30, R0030.up, R0030.down)
      /\ Reverses(33, R0033.up, R0033.down) /\ Reverses(34, R0034.up, R0034.down)
  BY DEF Reverses, R0002, Swap, ClubStatus, Change, R0003, R0005, Add, Drop, R0006, R0007, R0008,
       R0009, IsForecast, R0010, R0012, R0013, SensorType, R0014, R0015, ManeuverType, R0016,
       R0017, R0018, R0019, R0020, R0021, Provider, R0022, R0023, R0027, R0028, R0029, R0030,
       MarkRole, R0033, R0034
<1>3. Reverses(4, R0004.up, R0004.down)
  <2>1. \A t \in R0004.down.gone : On(SchemaAt[3], t) = {}
    BY SessionManeuversTable, SessionLegsTable, SessionAnalysisTable DEF R0004, Add, Gone, Change
  <2>2. \A f \in R0004.up.add : f \in R0004.down.drop \/ f[2] \in R0004.down.gone
    BY FactTables DEF R0004, Add, Gone, Change
  <2>3. R0004.down.add = R0004.up.drop /\ R0004.down.drop \subseteq R0004.up.add
    BY DEF R0004, Add, Gone, Change
  <2>. QED BY <2>1, <2>2, <2>3 DEF Reverses
<1>4. Reverses(11, R0011.up, R0011.down)
  <2>1. \A t \in R0011.down.gone : On(SchemaAt[10], t) = {}
    BY WindEstimatesTable DEF R0011, Swap, Change, IsForecast, Provider, StationType
  <2>2. \A f \in R0011.up.add : f \in R0011.down.drop \/ f[2] \in R0011.down.gone
    BY FactTables DEF R0011, Swap, Change, IsForecast, Provider, StationType
  <2>3. R0011.down.add = R0011.up.drop /\ R0011.down.drop \subseteq R0011.up.add
    BY DEF R0011, Swap, Change, IsForecast, Provider, StationType
  <2>. QED BY <2>1, <2>2, <2>3 DEF Reverses
<1>5. Reverses(24, R0024.up, R0024.down)
  <2>1. \A t \in R0024.down.gone : On(SchemaAt[23], t) = {}
    BY AppConfigTable DEF R0024, Add, Gone, Change
  <2>2. \A f \in R0024.up.add : f \in R0024.down.drop \/ f[2] \in R0024.down.gone
    BY FactTables DEF R0024, Add, Gone, Change
  <2>3. R0024.down.add = R0024.up.drop /\ R0024.down.drop \subseteq R0024.up.add
    BY DEF R0024, Add, Gone, Change
  <2>. QED BY <2>1, <2>2, <2>3 DEF Reverses
<1>6. Reverses(25, R0025.up, R0025.down)
  <2>1. \A t \in R0025.down.gone : On(SchemaAt[24], t) = {}
    BY PostsTable DEF R0025, Add, Gone, PostImage, Change
  <2>2. \A f \in R0025.up.add : f \in R0025.down.drop \/ f[2] \in R0025.down.gone
    BY FactTables DEF R0025, Add, Gone, PostImage, Change
  <2>3. R0025.down.add = R0025.up.drop /\ R0025.down.drop \subseteq R0025.up.add
    BY DEF R0025, Add, Gone, PostImage, Change
  <2>. QED BY <2>1, <2>2, <2>3 DEF Reverses
<1>7. Reverses(26, R0026.up, R0026.down)
  <2>1. \A t \in R0026.down.gone : On(SchemaAt[25], t) = {}
    BY PostImagesTable DEF R0026, Swap, Change, PostImage
  <2>2. \A f \in R0026.up.add : f \in R0026.down.drop \/ f[2] \in R0026.down.gone
    BY FactTables DEF R0026, Swap, Change, PostImage
  <2>3. R0026.down.add = R0026.up.drop /\ R0026.down.drop \subseteq R0026.up.add
    BY DEF R0026, Swap, Change, PostImage
  <2>. QED BY <2>1, <2>2, <2>3 DEF Reverses
<1>8. Reverses(32, R0032.up, R0032.down)
  <2>1. \A t \in R0032.down.gone : On(SchemaAt[31], t) = {}
    BY IntegrationConnectionsTable DEF R0032, Add, Gone, Change
  <2>2. \A f \in R0032.up.add : f \in R0032.down.drop \/ f[2] \in R0032.down.gone
    BY FactTables DEF R0032, Add, Gone, Change
  <2>3. R0032.down.add = R0032.up.drop /\ R0032.down.drop \subseteq R0032.up.add
    BY DEF R0032, Add, Gone, Change
  <2>. QED BY <2>1, <2>2, <2>3 DEF Reverses
<1>. QED BY <1>1, <1>2, <1>3, <1>4, <1>5, <1>6, <1>7, <1>8, TheRevisions

\* Every downgrade but one leads from a version to the schema of the one before ...
LEMMA WayBack ==
    ASSUME NEW v \in (1..34) \ {31}
    PROVE  Changed(SchemaAt[v], Revisions[v].down) = SchemaAt[v - 1]
<1>. DEFINE up == Revisions[v].up
            down == Revisions[v].down
<1>1. up.gone = {}
  BY Shapes, TheRevisions DEF Shape, R0001, Add, Change
<1>2. SchemaAt[v] = (SchemaAt[v - 1] \ up.drop) \cup up.add
  BY <1>1, Chain DEF Changed
<1>3. Fits(v, up) /\ Reverses(v, up, down)
  BY EveryUpgradeFits, DowngradesReverse
<1>. HIDE DEF up, down
<1>4. \A f \in SchemaAt[v - 1] : f[2] \notin down.gone
  BY <1>3 DEF Reverses, On
<1>5. Changed(SchemaAt[v], down) = SchemaAt[v - 1]
  BY <1>2, <1>3, <1>4 DEF Fits, Reverses, Changed
<1>. QED BY <1>5 DEF down

\* ... and that of 0031 names a CHECK that is not there.
LEMMA NoWayBack == ~ (R0031.down.drop \subseteq SchemaAt[31])
<1>. DEFINE f == <<"rule", "posts", "ck_posts_single_event_link", {"activity_id", "regatta_id"}>>
<1>1. f \in R0031.down.drop
  BY DEF R0031, Add, Drop, Change, Rule
<1>2. f \notin Posts31
  BY FactTables, FactKinds DEF Posts31, Posts29, Posts26
<1>3. f \notin SchemaAt[31]
  BY <1>2, PostsTable DEF On
<1>. QED BY <1>1, <1>3

\* The CHECKs of s let the value x stand.
Accepts(s, x) == \A f \in s : f[1] = "enum" /\ f[2] = x[1] /\ f[3] = x[2] => x[3] \in f[4]

LEMMA ChecksByRow == \A s, rs : ChecksHold(s, rs) <=> \A x \in rs : Accepts(s, x)
  BY DEF ChecksHold, Of, Accepts

LEMMA EnumIs ==
    /\ \A t, e : \A c \in DOMAIN e : <<"enum", t, c, e[c]>> \in Enums(t, e)
    /\ \A t, r, k, e : \A c \in DOMAIN e : <<"enum", t, c, e[c]>> \in Table(t, r, k, e)
  BY DEF Enums, Table

\* The CHECK f allows all that a CHECK on its column allowed before.
Widens(v, f) ==
    \E g \in SchemaAt[v - 1] : g[1] = "enum" /\ g[2] = f[2] /\ g[3] = f[3] /\ g[4] \subseteq f[4]

Eases(v, f) == ~ HasColumn(SchemaAt[v - 1], f[2], f[3]) \/ Widens(v, f)

\* The revisions that allow less, and the columns they do it on.
Narrowed == {<<11, "wind_stations", "provider">>, <<11, "wind_stations", "station_type">>,
             <<20, "boat_classes", "rig_type">>}

EasesAll(v, ch) == \A f \in ch.add : f[1] = "enum" => Eases(v, f) \/ <<v, f[2], f[3]>> \in
    Narrowed

LEMMA EnumsEase == \A v \in 1..34 : EasesAll(v, Revisions[v].up)
<1>1. EasesAll(1, R0001.up)
  BY Chain DEF EasesAll, Eases, HasColumn
<1>2. /\ EasesAll(3, R0003.up) /\ EasesAll(5, R0005.up) /\ EasesAll(7, R0007.up)
      /\ EasesAll(8, R0008.up) /\ EasesAll(9, R0009.up) /\ EasesAll(12, R0012.up)
      /\ EasesAll(16, R0016.up) /\ EasesAll(23, R0023.up) /\ EasesAll(24, R0024.up)
      /\ EasesAll(26, R0026.up) /\ EasesAll(28, R0028.up) /\ EasesAll(29, R0029.up)
      /\ EasesAll(31, R0031.up) /\ EasesAll(33, R0033.up) /\ EasesAll(34, R0034.up)
  BY FactKinds DEF EasesAll, R0003, Swap, Change, R0005, Add, Drop, R0007, R0008, R0009,
       IsForecast, R0012, R0016, R0023, R0024, Gone, R0026, PostImage, R0028, R0029, R0031,
       R0033, R0034
<1>3. EasesAll(2, R0002.up)
  <2>1. \A f \in R0002.up.add : f[1] = "enum" =>
        (f[2] = "user_groups" /\ ((f[3] = "status" /\ f[4] =
            {"invited", "requested", "active"}))) \/ (f[2] = "user_clubs" /\
            ((f[3] = "status" /\ f[4] = {"invited", "requested", "active", "deleted"})))
    BY FactTables, FactKinds DEF R0002, Swap, ClubStatus, Change
  <2>2. \A g \in UserGroups1 : g[1] \in {"ref", "enum", "column"} => g[3] \notin {"status"}
    BY FactTables, FactKinds DEF UserGroups1
  <2>3. \A c \in {"status"} : ~ HasColumn(SchemaAt[1], "user_groups", c)
    BY <2>2, UserGroupsTable DEF HasColumn, On
  <2>4. <<"enum", "user_clubs", "status", {"invited", "active", "deleted"}>> \in UserClubs1
    BY EnumIs DEF UserClubs1
  <2>5. <<"enum", "user_clubs", "status", {"invited", "active", "deleted"}>> \in SchemaAt[1]
    BY <2>4, UserClubsTable DEF On
  <2>. QED BY <2>1, <2>2, <2>3, <2>4, <2>5 DEF EasesAll, Eases, Widens, Narrowed
<1>4. EasesAll(4, R0004.up)
  <2>1. \A f \in R0004.up.add : f[1] = "enum" =>
        (f[2] = "session_maneuvers" /\ ((f[3] = "maneuver_type" /\ f[4] = {"tack", "gybe"}))) \/
            (f[2] = "session_legs" /\ ((f[3] = "leg_type" /\ f[4] =
            {"upwind", "downwind", "reach"})))
    BY FactTables, FactKinds DEF R0004, Add, Gone, Change
  <2>2. \A c : ~ HasColumn(SchemaAt[3], "session_maneuvers", c)
    BY SessionManeuversTable DEF HasColumn, On
  <2>3. \A c : ~ HasColumn(SchemaAt[3], "session_legs", c)
    BY SessionLegsTable DEF HasColumn, On
  <2>. QED BY <2>1, <2>2, <2>3 DEF EasesAll, Eases, Widens, Narrowed
<1>5. EasesAll(6, R0006.up)
  <2>1. \A f \in R0006.up.add : f[1] = "enum" =>
        (f[2] = "users" /\ ((f[3] = "unit_system" /\ f[4] = {"nautical", "metric"})))
    BY FactTables, FactKinds DEF R0006, Add, Drop, Change
  <2>2. \A g \in Users1 : g[1] \in {"ref", "enum", "column"} => g[3] \notin {"unit_system"}
    BY FactTables, FactKinds DEF Users1
  <2>3. \A c \in {"unit_system"} : ~ HasColumn(SchemaAt[5], "users", c)
    BY <2>2, UsersTable DEF HasColumn, On
  <2>. QED BY <2>1, <2>2, <2>3 DEF EasesAll, Eases, Widens, Narrowed
<1>6. EasesAll(10, R0010.up)
  <2>1. \A f \in R0010.up.add : f[1] = "enum" =>
        (f[2] = "session_legs" /\ ((f[3] = "tack" /\ f[4] = {"port", "starboard"})))
    BY FactTables, FactKinds DEF R0010, Add, Drop, Change
  <2>2. \A g \in SessionLegs4 : g[1] \in {"ref", "enum", "column"} => g[3] \notin {"tack"}
    BY FactTables, FactKinds DEF SessionLegs4
  <2>3. \A c \in {"tack"} : ~ HasColumn(SchemaAt[9], "session_legs", c)
    BY <2>2, SessionLegsTable DEF HasColumn, On
  <2>. QED BY <2>1, <2>2, <2>3 DEF EasesAll, Eases, Widens, Narrowed
<1>7. EasesAll(11, R0011.up)
  <2>1. \A f \in R0011.up.add : f[1] = "enum" =>
        (f[2] = "wind_stations" /\ ((f[3] = "provider" /\ f[4] =
            {"noaa_ndbc", "noaa_metar", "custom_device"}) \/
            (f[3] = "station_type" /\ f[4] = {"buoy", "metar", "custom_device"})))
    BY FactTables, FactKinds DEF R0011, Swap, Change, IsForecast, Provider, StationType
  <2>. QED BY <2>1 DEF EasesAll, Eases, Widens, Narrowed
<1>8. EasesAll(13, R0013.up)
  <2>1. \A f \in R0013.up.add : f[1] = "enum" =>
        (f[2] = "session_streams" /\ ((f[3] = "sensor_type" /\ f[4] =
            {"gps", "imu", "wind", "pressure", "heart_rate", "estimated_position",
            "estimated_motion", "other"})))
    BY FactTables, FactKinds DEF R0013, Swap, SensorType, Change
  <2>2. <<"enum", "session_streams", "sensor_type", {"gps", "imu", "wind", "pressure",
        "heart_rate", "other"}>> \in SessionStreams1
    BY EnumIs DEF SessionStreams1
  <2>3. <<"enum", "session_streams", "sensor_type", {"gps", "imu", "wind", "pressure",
        "heart_rate", "other"}>> \in SchemaAt[12]
    BY <2>2, SessionStreamsTable DEF On
  <2>. QED BY <2>1, <2>2, <2>3 DEF EasesAll, Eases, Widens, Narrowed
<1>9. EasesAll(14, R0014.up)
  <2>1. \A f \in R0014.up.add : f[1] = "enum" =>
        (f[2] = "session_uploads" /\ ((f[3] = "reanalysis_status" /\ f[4] =
            {"running", "failed"})))
    BY FactTables, FactKinds DEF R0014, Add, Drop, Change
  <2>2. \A g \in SessionUploads1 : g[1] \in {"ref", "enum", "column"} => g[3] \notin
        {"reanalysis_status"}
    BY FactTables, FactKinds DEF SessionUploads1
  <2>3. \A c \in {"reanalysis_status"} : ~ HasColumn(SchemaAt[13], "session_uploads", c)
    BY <2>2, SessionUploadsTable DEF HasColumn, On
  <2>. QED BY <2>1, <2>2, <2>3 DEF EasesAll, Eases, Widens, Narrowed
<1>10. EasesAll(15, R0015.up)
  <2>1. \A f \in R0015.up.add : f[1] = "enum" =>
        (f[2] = "session_maneuvers" /\ ((f[3] = "maneuver_type" /\ f[4] =
            {"tack", "gybe", "course_change"})))
    BY FactTables, FactKinds DEF R0015, Swap, ManeuverType, Change
  <2>2. <<"enum", "session_maneuvers", "maneuver_type", {"tack", "gybe"}>> \in SessionManeuvers4
    BY EnumIs DEF SessionManeuvers4
  <2>3. <<"enum", "session_maneuvers", "maneuver_type", {"tack", "gybe"}>> \in SchemaAt[14]
    BY <2>2, SessionManeuversTable DEF On
  <2>. QED BY <2>1, <2>2, <2>3 DEF EasesAll, Eases, Widens, Narrowed
<1>11. EasesAll(17, R0017.up)
  <2>1. \A f \in R0017.up.add : f[1] = "enum" =>
        (f[2] = "session_maneuvers" /\ ((f[3] = "original_maneuver_type" /\ f[4] =
            {"tack", "gybe", "course_change"})))
    BY FactTables, FactKinds DEF R0017, Add, Drop, Change
  <2>2. \A g \in SessionManeuvers16 : g[1] \in {"ref", "enum", "column"} => g[3] \notin
        {"original_maneuver_type"}
    BY FactTables, FactKinds DEF SessionManeuvers16
  <2>3. \A c \in {"original_maneuver_type"} : ~ HasColumn(SchemaAt[16], "session_maneuvers", c)
    BY <2>2, SessionManeuversTable DEF HasColumn, On
  <2>. QED BY <2>1, <2>2, <2>3 DEF EasesAll, Eases, Widens, Narrowed
<1>12. EasesAll(18, R0018.up)
  <2>1. \A f \in R0018.up.add : f[1] = "enum" =>
        (f[2] = "session_maneuvers" /\ ((f[3] = "source" /\ f[4] = {"detected", "manual"})))
    BY FactTables, FactKinds DEF R0018, Add, Drop, Change
  <2>2. \A g \in SessionManeuvers17 : g[1] \in {"ref", "enum", "column"} => g[3] \notin {"source"}
    BY FactTables, FactKinds DEF SessionManeuvers17, SessionManeuvers16
  <2>3. \A c \in {"source"} : ~ HasColumn(SchemaAt[17], "session_maneuvers", c)
    BY <2>2, SessionManeuversTable DEF HasColumn, On
  <2>. QED BY <2>1, <2>2, <2>3 DEF EasesAll, Eases, Widens, Narrowed
<1>13. EasesAll(19, R0019.up)
  <2>1. \A f \in R0019.up.add : f[1] = "enum" =>
        (f[2] = "boat_classes" /\ ((f[3] = "hull_type" /\ f[4] = {"monohull", "multihull"})))
    BY FactTables, FactKinds DEF R0019, Add, Drop, Change
  <2>2. \A g \in BoatClasses1 : g[1] \in {"ref", "enum", "column"} => g[3] \notin {"hull_type"}
    BY FactTables, FactKinds DEF BoatClasses1
  <2>3. \A c \in {"hull_type"} : ~ HasColumn(SchemaAt[18], "boat_classes", c)
    BY <2>2, BoatClassesTable DEF HasColumn, On
  <2>. QED BY <2>1, <2>2, <2>3 DEF EasesAll, Eases, Widens, Narrowed
<1>14. EasesAll(20, R0020.up)
  <2>1. \A f \in R0020.up.add : f[1] = "enum" =>
        (f[2] = "boat_classes" /\ ((f[3] = "rig_type" /\ f[4] = {"sloop", "una"}) \/
            (f[3] = "spinnaker_type" /\ f[4] = {"none", "asymmetric", "symmetric"})))
    BY FactTables, FactKinds DEF R0020, Add, Drop, Change
  <2>2. \A g \in BoatClasses19 : g[1] \in {"ref", "enum", "column"} => g[3] \notin
        {"spinnaker_type"}
    BY FactTables, FactKinds DEF BoatClasses19, BoatClasses1
  <2>3. \A c \in {"spinnaker_type"} : ~ HasColumn(SchemaAt[19], "boat_classes", c)
    BY <2>2, BoatClassesTable DEF HasColumn, On
  <2>. QED BY <2>1, <2>2, <2>3 DEF EasesAll, Eases, Widens, Narrowed
<1>15. EasesAll(21, R0021.up)
  <2>1. \A f \in R0021.up.add : f[1] = "enum" =>
        (f[2] = "wind_stations" /\ ((f[3] = "provider" /\ f[4] =
            {"noaa_ndbc", "noaa_metar", "custom_device", "cumulus_realtime"})))
    BY FactTables, FactKinds DEF R0021, Swap, Provider, Change
  <2>2. <<"enum", "wind_stations", "provider", {"noaa_ndbc", "noaa_metar", "custom_device"}>> \in
        WindStations11
    BY EnumIs DEF WindStations11
  <2>3. <<"enum", "wind_stations", "provider", {"noaa_ndbc", "noaa_metar", "custom_device"}>> \in
        SchemaAt[20]
    BY <2>2, WindStationsTable DEF On
  <2>. QED BY <2>1, <2>2, <2>3 DEF EasesAll, Eases, Widens, Narrowed
<1>16. EasesAll(22, R0022.up)
  <2>1. \A f \in R0022.up.add : f[1] = "enum" =>
        (f[2] = "wind_stations" /\ ((f[3] = "provider" /\ f[4] =
            {"noaa_ndbc", "noaa_metar", "custom_device", "cumulus_realtime",
            "cumulus_gauges_json"})))
    BY FactTables, FactKinds DEF R0022, Swap, Provider, Change
  <2>2. <<"enum", "wind_stations", "provider", {"noaa_ndbc", "noaa_metar", "custom_device",
        "cumulus_realtime"}>> \in WindStations21
    BY EnumIs DEF WindStations21
  <2>3. <<"enum", "wind_stations", "provider", {"noaa_ndbc", "noaa_metar", "custom_device",
        "cumulus_realtime"}>> \in SchemaAt[21]
    BY <2>2, WindStationsTable DEF On
  <2>. QED BY <2>1, <2>2, <2>3 DEF EasesAll, Eases, Widens, Narrowed
<1>17. EasesAll(25, R0025.up)
  <2>1. \A f \in R0025.up.add : f[1] = "enum" =>
        (f[2] = "posts" /\ ((f[3] = "owner_type" /\ f[4] = {"club", "group"})))
    BY FactTables, FactKinds DEF R0025, Add, Gone, PostImage, Change
  <2>2. \A c : ~ HasColumn(SchemaAt[24], "posts", c)
    BY PostsTable DEF HasColumn, On
  <2>. QED BY <2>1, <2>2 DEF EasesAll, Eases, Widens, Narrowed
<1>18. EasesAll(27, R0027.up)
  <2>1. \A f \in R0027.up.add : f[1] = "enum" =>
        (f[2] = "activities" /\ ((f[3] = "status" /\ f[4] = {"planned", "completed"})))
    BY FactTables, FactKinds DEF R0027, Add, Drop, Change
  <2>2. \A g \in Activities8 : g[1] \in {"ref", "enum", "column"} => g[3] \notin {"status"}
    BY FactTables, FactKinds DEF Activities8, Activities1
  <2>3. \A c \in {"status"} : ~ HasColumn(SchemaAt[26], "activities", c)
    BY <2>2, ActivitiesTable DEF HasColumn, On
  <2>. QED BY <2>1, <2>2, <2>3 DEF EasesAll, Eases, Widens, Narrowed
<1>19. EasesAll(30, R0030.up)
  <2>1. \A f \in R0030.up.add : f[1] = "enum" =>
        (f[2] = "marks" /\ ((f[3] = "mark_role" /\ f[4] =
            {"pin", "rc", "windward", "leeward", "gate_port", "gate_stbd", "offset", "drill",
            "finish_pin", "finish_rc"})))
    BY FactTables, FactKinds DEF R0030, Swap, MarkRole, Change
  <2>2. <<"enum", "marks", "mark_role", {"pin", "rc", "windward", "leeward", "gate_port",
        "gate_stbd", "offset", "drill"}>> \in Marks1
    BY EnumIs DEF Marks1
  <2>3. <<"enum", "marks", "mark_role", {"pin", "rc", "windward", "leeward", "gate_port",
        "gate_stbd", "offset", "drill"}>> \in SchemaAt[29]
    BY <2>2, MarksTable DEF On
  <2>. QED BY <2>1, <2>2, <2>3 DEF EasesAll, Eases, Widens, Narrowed
<1>20. EasesAll(32, R0032.up)
  <2>1. \A f \in R0032.up.add : f[1] = "enum" =>
        (f[2] = "integration_connections" /\ ((f[3] = "provider" /\ f[4] = {"garmin", "polar"})
            \/ (f[3] = "status" /\ f[4] = {"pending", "active", "revoked", "error"})))
    BY FactTables, FactKinds DEF R0032, Add, Gone, Change
  <2>2. \A c : ~ HasColumn(SchemaAt[31], "integration_connections", c)
    BY IntegrationConnectionsTable DEF HasColumn, On
  <2>. QED BY <2>1, <2>2 DEF EasesAll, Eases, Widens, Narrowed
<1>. QED BY <1>1, <1>2, <1>3, <1>4, <1>5, <1>6, <1>7, <1>8, <1>9, <1>10, <1>11, <1>12, <1>13,
     <1>14, <1>15, <1>16, <1>17, <1>18, <1>19, <1>20, TheRevisions

\* A value its release could write and the next CHECK refuses.
TooOld(v, x) ==
    \/ v = 11 /\ x[1] = "wind_stations" /\ <<x[2], x[3]>> \in OpenMeteo
    \/ v = 20 /\ x[1] = "boat_classes" /\ x[2] = "rig_type" /\ x[3] \notin {"sloop", "una"}

LEMMA NarrowedBy ==
    /\ \A x : Accepts(SchemaAt[10], x) /\ ~ TooOld(11, x) =>
          \A f \in R0011.up.add : f[1] = "enum" /\ f[2] = x[1] /\ f[3] = x[2] => x[3] \in f[4]
    /\ \A f \in R0020.up.add : f[1] = "enum" /\ f[3] = "rig_type" => f[4] = {"sloop", "una"}
<1>1. \A f \in R0011.up.add : f[1] = "enum" => f[2] = "wind_stations"
          /\ (\/ f[3] = "provider" /\ f[4] = {"noaa_ndbc", "noaa_metar", "custom_device"}
              \/ f[3] = "station_type" /\ f[4] = {"buoy", "metar", "custom_device"})
  BY FactTables, FactKinds DEF R0011, Swap, Change, IsForecast, Provider, StationType
<1>2. <<"enum", "wind_stations", "provider", {"noaa_ndbc", "noaa_metar", "open_meteo",
      "custom_device"}>> \in WindStations1
  BY EnumIs DEF WindStations1
<1>3. <<"enum", "wind_stations", "station_type", {"buoy", "metar", "forecast_grid",
      "custom_device"}>> \in WindStations1
  BY EnumIs DEF WindStations1
<1>4. WindStations1 \subseteq SchemaAt[10]
  BY WindStationsTable DEF On
<1>5. ASSUME NEW x, Accepts(SchemaAt[10], x), ~ TooOld(11, x), NEW f \in R0011.up.add,
             f[1] = "enum", f[2] = x[1], f[3] = x[2]
      PROVE  x[3] \in f[4]
  <2>1. CASE f[3] = "provider"
    <3>1. x[3] \in {"noaa_ndbc", "noaa_metar", "open_meteo", "custom_device"}
      BY <1>1, <1>2, <1>4, <1>5, <2>1 DEF Accepts
    <3>. QED BY <1>1, <1>5, <2>1, <3>1 DEF TooOld, OpenMeteo
  <2>2. CASE f[3] = "station_type"
    <3>1. x[3] \in {"buoy", "metar", "forecast_grid", "custom_device"}
      BY <1>1, <1>3, <1>4, <1>5, <2>2 DEF Accepts
    <3>. QED BY <1>1, <1>5, <2>2, <3>1 DEF TooOld, OpenMeteo
  <2>. QED BY <1>1, <1>5, <2>1, <2>2
<1>6. \A f \in R0020.up.add : f[1] = "enum" /\ f[3] = "rig_type" => f[4] = {"sloop", "una"}
  BY FactKinds DEF R0020, Add, Drop, Change
<1>. QED BY <1>5, <1>6

LEMMA AcceptedNext ==
    ASSUME NEW v \in 1..34, NEW x, HasColumn(SchemaAt[v - 1], x[1], x[2]),
           Accepts(SchemaAt[v - 1], x), ~ TooOld(v, x)
    PROVE  Accepts(SchemaAt[v], x)
<1>. DEFINE up == Revisions[v].up
<1>1. SchemaAt[v] = Changed(SchemaAt[v - 1], up)
  BY Chain
<1>2. SUFFICES ASSUME NEW f \in up.add, f[1] = "enum", f[2] = x[1], f[3] = x[2]
               PROVE  x[3] \in f[4]
  BY <1>1 DEF Changed, Accepts
<1>3. CASE Eases(v, f)
  BY <1>2, <1>3 DEF Eases, Widens, Accepts
<1>4. CASE <<v, f[2], f[3]>> \in Narrowed /\ v = 11
  BY <1>2, <1>4, NarrowedBy, TheRevisions
<1>5. CASE <<v, f[2], f[3]>> \in Narrowed /\ v = 20
  <2>1. f[2] = "boat_classes" /\ f[3] = "rig_type" /\ f[4] = {"sloop", "una"}
    BY <1>2, <1>5, NarrowedBy, TheRevisions DEF Narrowed
  <2>. QED BY <1>2, <1>5, <2>1 DEF TooOld
<1>6. <<v, f[2], f[3]>> \in Narrowed => v = 11 \/ v = 20
  BY DEF Narrowed
<1>7. Eases(v, f) \/ <<v, f[2], f[3]>> \in Narrowed
  BY <1>2, EnumsEase DEF EasesAll
<1>. QED BY <1>3, <1>4, <1>5, <1>6, <1>7

\* What the rows are at version v: they are in its columns, its CHECKs let them stand, and a
\* maneuver has a type.
RowsOK(v, rs) ==
    /\ \A x \in rs : HasColumn(SchemaAt[v], x[1], x[2]) /\ Accepts(SchemaAt[v], x)
    /\ Whole(rs)

\* What each revision does to the rows.
LEMMA Rewrites ==
    /\ \A v \in (1..34) \ {2, 6, 9, 11, 17, 18, 20, 26, 27, 33} : \A rs : UpRows(v, rs) = rs
    /\ \A rs : UpRows(2, rs) = rs \cup Filled(rs, "user_groups", "status", "active")
    /\ \A rs : UpRows(6, rs) = rs \cup Filled(rs, "users", "unit_system", "nautical")
    /\ \A rs : UpRows(9, rs) = rs \cup Filled(rs, "wind_observations", "is_forecast", "false")
    /\ \A rs : UpRows(11, rs) = WithoutOpenMeteo(rs) \cup
       Filled(WithoutOpenMeteo(rs), "wind_stations", "keeps_local_history", "true")
    /\ \A rs : UpRows(17, rs) = rs \cup OriginalTypes(rs) \cup
       Filled(rs, "session_maneuvers", "corrected_by_user", "false")
    /\ \A rs : UpRows(18, rs) = rs \cup UNION {Filled(rs, "session_maneuvers", "source",
       "detected"), Filled(rs, "session_maneuvers", "rejected", "false"),
       Filled(rs, "session_maneuvers", "pending", "false")}
    /\ \A rs : UpRows(20, rs) = rs \ OtherRigs(rs)
    /\ \A rs : UpRows(26, rs) = rs \cup ImagesOfPosts(rs)
    /\ \A rs : UpRows(27, rs) = rs \cup Filled(rs, "activities", "status", "completed")
    /\ \A rs : UpRows(33, rs) = rs \cup Legacy(rs)
  BY DEF UpRows

\* The values the revisions fill in satisfy the CHECKs they come with.
LEMMA NewRowsAccepted ==
    /\ Accepts(SchemaAt[2], <<"user_groups", "status", "active">>)
    /\ Accepts(SchemaAt[6], <<"users", "unit_system", "nautical">>)
    /\ Accepts(SchemaAt[9], <<"wind_observations", "is_forecast", "false">>)
    /\ Accepts(SchemaAt[11], <<"wind_stations", "keeps_local_history", "true">>)
    /\ \A w \in {"tack", "gybe", "course_change"} : Accepts(SchemaAt[17], <<"session_maneuvers",
       "original_maneuver_type", w>>)
    /\ Accepts(SchemaAt[17], <<"session_maneuvers", "corrected_by_user", "false">>)
    /\ Accepts(SchemaAt[18], <<"session_maneuvers", "source", "detected">>)
    /\ Accepts(SchemaAt[18], <<"session_maneuvers", "rejected", "false">>)
    /\ Accepts(SchemaAt[18], <<"session_maneuvers", "pending", "false">>)
    /\ \A w : Accepts(SchemaAt[26], <<"post_images", "image_id", w>>)
    /\ Accepts(SchemaAt[27], <<"activities", "status", "completed">>)
    /\ Accepts(SchemaAt[33], <<"users", "terms_version", "legacy">>)
    /\ Accepts(SchemaAt[33], <<"users", "privacy_version", "legacy">>)
<1>1. ASSUME NEW v \in 1..34, NEW t, NEW c, NEW w,
             \A f \in On(SchemaAt[v], t) : f[1] = "enum" /\ f[3] = c => w \in f[4]
      PROVE  Accepts(SchemaAt[v], <<t, c, w>>)
  BY <1>1 DEF Accepts, On
<1>2. Accepts(SchemaAt[2], <<"user_groups", "status", "active">>)
  <2>1. \A f \in UserGroups2 : f[1] = "enum" /\ f[3] = "status" => "active" \in f[4]
    BY FactTables, FactKinds DEF UserGroups2, UserGroups1
  <2>. QED BY <2>1, <1>1, UserGroupsTable
<1>3. Accepts(SchemaAt[6], <<"users", "unit_system", "nautical">>)
  <2>1. \A f \in Users6 : f[1] = "enum" /\ f[3] = "unit_system" => "nautical" \in f[4]
    BY FactTables, FactKinds DEF Users6, Users1
  <2>. QED BY <2>1, <1>1, UsersTable
<1>4. Accepts(SchemaAt[9], <<"wind_observations", "is_forecast", "false">>)
  <2>1. \A f \in WindObservations9 : f[1] = "enum" /\ f[3] = "is_forecast" => "false" \in f[4]
    BY FactTables, FactKinds DEF WindObservations9, WindObservations1
  <2>. QED BY <2>1, <1>1, WindObservationsTable
<1>5. Accepts(SchemaAt[11], <<"wind_stations", "keeps_local_history", "true">>)
  <2>1. \A f \in WindStations11 : f[1] = "enum" /\ f[3] = "keeps_local_history" => "true" \in f[4]
    BY FactTables, FactKinds DEF WindStations11
  <2>. QED BY <2>1, <1>1, WindStationsTable
<1>6. \A w \in {"tack", "gybe", "course_change"} : Accepts(SchemaAt[17], <<"session_maneuvers",
      "original_maneuver_type", w>>)
  <2>1. \A f \in SessionManeuvers17 : f[1] = "enum" /\ f[3] = "original_maneuver_type" => \A w
        \in {"tack", "gybe", "course_change"} : w \in f[4]
    BY FactTables, FactKinds DEF SessionManeuvers17, SessionManeuvers16
  <2>. QED BY <2>1, <1>1, SessionManeuversTable
<1>7. Accepts(SchemaAt[17], <<"session_maneuvers", "corrected_by_user", "false">>)
  <2>1. \A f \in SessionManeuvers17 : f[1] = "enum" /\ f[3] = "corrected_by_user" => "false" \in
        f[4]
    BY FactTables, FactKinds DEF SessionManeuvers17, SessionManeuvers16
  <2>. QED BY <2>1, <1>1, SessionManeuversTable
<1>8. Accepts(SchemaAt[18], <<"session_maneuvers", "source", "detected">>)
  <2>1. \A f \in SessionManeuvers18 : f[1] = "enum" /\ f[3] = "source" => "detected" \in f[4]
    BY FactTables, FactKinds DEF SessionManeuvers18, SessionManeuvers17, SessionManeuvers16
  <2>. QED BY <2>1, <1>1, SessionManeuversTable
<1>9. Accepts(SchemaAt[18], <<"session_maneuvers", "rejected", "false">>)
  <2>1. \A f \in SessionManeuvers18 : f[1] = "enum" /\ f[3] = "rejected" => "false" \in f[4]
    BY FactTables, FactKinds DEF SessionManeuvers18, SessionManeuvers17, SessionManeuvers16
  <2>. QED BY <2>1, <1>1, SessionManeuversTable
<1>10. Accepts(SchemaAt[18], <<"session_maneuvers", "pending", "false">>)
  <2>1. \A f \in SessionManeuvers18 : f[1] = "enum" /\ f[3] = "pending" => "false" \in f[4]
    BY FactTables, FactKinds DEF SessionManeuvers18, SessionManeuvers17, SessionManeuvers16
  <2>. QED BY <2>1, <1>1, SessionManeuversTable
<1>11. \A w : Accepts(SchemaAt[26], <<"post_images", "image_id", w>>)
  <2>1. \A f \in PostImages26 : f[1] = "enum" /\ f[3] = "image_id" => \A w : w \in f[4]
    BY FactTables, FactKinds DEF PostImages26
  <2>. QED BY <2>1, <1>1, PostImagesTable
<1>12. Accepts(SchemaAt[27], <<"activities", "status", "completed">>)
  <2>1. \A f \in Activities27 : f[1] = "enum" /\ f[3] = "status" => "completed" \in f[4]
    BY FactTables, FactKinds DEF Activities27, Activities8, Activities1
  <2>. QED BY <2>1, <1>1, ActivitiesTable
<1>13. Accepts(SchemaAt[33], <<"users", "terms_version", "legacy">>)
  <2>1. \A f \in Users33 : f[1] = "enum" /\ f[3] = "terms_version" => "legacy" \in f[4]
    BY FactTables, FactKinds DEF Users33, Users6, Users1
  <2>. QED BY <2>1, <1>1, UsersTable
<1>14. Accepts(SchemaAt[33], <<"users", "privacy_version", "legacy">>)
  <2>1. \A f \in Users33 : f[1] = "enum" /\ f[3] = "privacy_version" => "legacy" \in f[4]
    BY FactTables, FactKinds DEF Users33, Users6, Users1
  <2>. QED BY <2>1, <1>1, UsersTable
<1>. QED BY <1>2, <1>3, <1>4, <1>5, <1>6, <1>7, <1>8, <1>9, <1>10, <1>11, <1>12, <1>13, <1>14

\* The columns added NOT NULL to rows that may be there.
Fills(v, f) ==
    <<v, f[2], f[3]>> \in {
        <<2, "user_groups", "status">>,
        <<6, "users", "unit_system">>,
        <<9, "wind_observations", "is_forecast">>,
        <<11, "wind_stations", "keeps_local_history">>,
        <<17, "session_maneuvers", "corrected_by_user">>,
        <<17, "session_maneuvers", "original_maneuver_type">>,
        <<18, "session_maneuvers", "source">>,
        <<18, "session_maneuvers", "rejected">>,
        <<18, "session_maneuvers", "pending">>,
        <<27, "activities", "status">>}

LEMMA RequiredFilled ==
    \A v \in 2..34 : \A f \in Revisions[v].up.add : f[1] = "column" /\ f[4] = "required" =>
        Fills(v, f)
<1>2. \A f \in R0002.up.add : f[1] = "column" /\ f[4] = "required" => Fills(2, f)
  BY FactTables, FactKinds DEF Fills, R0002, Swap, ClubStatus, Change
<1>3. \A f \in R0003.up.add : f[1] = "column" /\ f[4] = "required" => Fills(3, f)
  BY FactTables, FactKinds DEF Fills, R0003, Swap, Change
<1>4. \A f \in R0004.up.add : f[1] = "column" /\ f[4] = "required" => Fills(4, f)
  BY FactTables, FactKinds DEF Fills, R0004, Add, Gone, Change
<1>5. \A f \in R0005.up.add : f[1] = "column" /\ f[4] = "required" => Fills(5, f)
  BY FactTables, FactKinds DEF Fills, R0005, Add, Drop, Change
<1>6. \A f \in R0006.up.add : f[1] = "column" /\ f[4] = "required" => Fills(6, f)
  BY FactTables, FactKinds DEF Fills, R0006, Add, Drop, Change
<1>7. \A f \in R0007.up.add : f[1] = "column" /\ f[4] = "required" => Fills(7, f)
  BY FactTables, FactKinds DEF Fills, R0007, Add, Drop, Change
<1>8. \A f \in R0008.up.add : f[1] = "column" /\ f[4] = "required" => Fills(8, f)
  BY FactTables, FactKinds DEF Fills, R0008, Add, Drop, Change
<1>9. \A f \in R0009.up.add : f[1] = "column" /\ f[4] = "required" => Fills(9, f)
  BY FactTables, FactKinds DEF Fills, R0009, Add, Drop, IsForecast, Change
<1>10. \A f \in R0010.up.add : f[1] = "column" /\ f[4] = "required" => Fills(10, f)
  BY FactTables, FactKinds DEF Fills, R0010, Add, Drop, Change
<1>11. \A f \in R0011.up.add : f[1] = "column" /\ f[4] = "required" => Fills(11, f)
  BY FactTables, FactKinds DEF Fills, R0011, Swap, Change, IsForecast, Provider, StationType
<1>12. \A f \in R0012.up.add : f[1] = "column" /\ f[4] = "required" => Fills(12, f)
  BY FactTables, FactKinds DEF Fills, R0012, Add, Drop, Change
<1>13. \A f \in R0013.up.add : f[1] = "column" /\ f[4] = "required" => Fills(13, f)
  BY FactTables, FactKinds DEF Fills, R0013, Swap, SensorType, Change
<1>14. \A f \in R0014.up.add : f[1] = "column" /\ f[4] = "required" => Fills(14, f)
  BY FactTables, FactKinds DEF Fills, R0014, Add, Drop, Change
<1>15. \A f \in R0015.up.add : f[1] = "column" /\ f[4] = "required" => Fills(15, f)
  BY FactTables, FactKinds DEF Fills, R0015, Swap, ManeuverType, Change
<1>16. \A f \in R0016.up.add : f[1] = "column" /\ f[4] = "required" => Fills(16, f)
  BY FactTables, FactKinds DEF Fills, R0016, Add, Drop, Change
<1>17. \A f \in R0017.up.add : f[1] = "column" /\ f[4] = "required" => Fills(17, f)
  BY FactTables, FactKinds DEF Fills, R0017, Add, Drop, Change
<1>18. \A f \in R0018.up.add : f[1] = "column" /\ f[4] = "required" => Fills(18, f)
  BY FactTables, FactKinds DEF Fills, R0018, Add, Drop, Change
<1>19. \A f \in R0019.up.add : f[1] = "column" /\ f[4] = "required" => Fills(19, f)
  BY FactTables, FactKinds DEF Fills, R0019, Add, Drop, Change
<1>20. \A f \in R0020.up.add : f[1] = "column" /\ f[4] = "required" => Fills(20, f)
  BY FactTables, FactKinds DEF Fills, R0020, Add, Drop, Change
<1>21. \A f \in R0021.up.add : f[1] = "column" /\ f[4] = "required" => Fills(21, f)
  BY FactTables, FactKinds DEF Fills, R0021, Swap, Provider, Change
<1>22. \A f \in R0022.up.add : f[1] = "column" /\ f[4] = "required" => Fills(22, f)
  BY FactTables, FactKinds DEF Fills, R0022, Swap, Provider, Change
<1>23. \A f \in R0023.up.add : f[1] = "column" /\ f[4] = "required" => Fills(23, f)
  BY FactTables, FactKinds DEF Fills, R0023, Add, Drop, Change
<1>24. \A f \in R0024.up.add : f[1] = "column" /\ f[4] = "required" => Fills(24, f)
  BY FactTables, FactKinds DEF Fills, R0024, Add, Gone, Change
<1>25. \A f \in R0025.up.add : f[1] = "column" /\ f[4] = "required" => Fills(25, f)
  BY FactTables, FactKinds DEF Fills, R0025, Add, Gone, PostImage, Change
<1>26. \A f \in R0026.up.add : f[1] = "column" /\ f[4] = "required" => Fills(26, f)
  BY FactTables, FactKinds DEF Fills, R0026, Swap, Change, PostImage
<1>27. \A f \in R0027.up.add : f[1] = "column" /\ f[4] = "required" => Fills(27, f)
  BY FactTables, FactKinds DEF Fills, R0027, Add, Drop, Change
<1>28. \A f \in R0028.up.add : f[1] = "column" /\ f[4] = "required" => Fills(28, f)
  BY FactTables, FactKinds DEF Fills, R0028, Add, Drop, Change
<1>29. \A f \in R0029.up.add : f[1] = "column" /\ f[4] = "required" => Fills(29, f)
  BY FactTables, FactKinds DEF Fills, R0029, Add, Drop, Change
<1>30. \A f \in R0030.up.add : f[1] = "column" /\ f[4] = "required" => Fills(30, f)
  BY FactTables, FactKinds DEF Fills, R0030, Swap, MarkRole, Change
<1>31. \A f \in R0031.up.add : f[1] = "column" /\ f[4] = "required" => Fills(31, f)
  BY FactTables, FactKinds DEF Fills, R0031, Add, Drop, Change
<1>32. \A f \in R0032.up.add : f[1] = "column" /\ f[4] = "required" => Fills(32, f)
  BY FactTables, FactKinds DEF Fills, R0032, Add, Gone, Change
<1>33. \A f \in R0033.up.add : f[1] = "column" /\ f[4] = "required" => Fills(33, f)
  BY FactTables, FactKinds DEF Fills, R0033, Add, Drop, Change
<1>34. \A f \in R0034.up.add : f[1] = "column" /\ f[4] = "required" => Fills(34, f)
  BY FactTables, FactKinds DEF Fills, R0034, Add, Drop, Change
<1>. QED BY <1>2, <1>3, <1>4, <1>5, <1>6, <1>7, <1>8, <1>9, <1>10, <1>11, <1>12, <1>13, <1>14,
     <1>15, <1>16, <1>17, <1>18, <1>19, <1>20, <1>21, <1>22, <1>23, <1>24, <1>25, <1>26, <1>27,
     <1>28, <1>29, <1>30, <1>31, <1>32, <1>33, <1>34, TheRevisions

\* session_maneuvers has a maneuver_type in every version that has the table.
LEMMA ManeuverTypes ==
    /\ \A v \in 1..34 : \A c : HasColumn(SchemaAt[v - 1], "session_maneuvers", c)
          => /\ HasColumn(SchemaAt[v - 1], "session_maneuvers", "maneuver_type")
             /\ HasColumn(SchemaAt[v], "session_maneuvers", "maneuver_type")
    /\ \A v \in 1..34 : \A c : HasColumn(SchemaAt[v], "session_maneuvers", c)
          => HasColumn(SchemaAt[v], "session_maneuvers", "maneuver_type")
    /\ <<"enum", "session_maneuvers", "maneuver_type", {"tack", "gybe", "course_change"}>>
          \in SchemaAt[16]
<1>1. ASSUME NEW f, f \in SessionManeuvers16
      PROVE  f \in SessionManeuvers17 /\ f \in SessionManeuvers18
  BY <1>1 DEF SessionManeuvers17, SessionManeuvers18
<1>2. <<"enum", "session_maneuvers", "maneuver_type", {"tack", "gybe"}>> \in SessionManeuvers4
  BY EnumIs DEF SessionManeuvers4
<1>3. <<"enum", "session_maneuvers", "maneuver_type", {"tack", "gybe", "course_change"}>>
        \in SessionManeuvers16 \cap SessionManeuvers15
  BY EnumIs DEF SessionManeuvers16, SessionManeuvers15
<1>4. \A v \in 4..34 : HasColumn(SchemaAt[v], "session_maneuvers", "maneuver_type")
  BY <1>1, <1>2, <1>3, SessionManeuversTable DEF HasColumn, On
<1>5. \A v \in 0..3 : \A c : ~ HasColumn(SchemaAt[v], "session_maneuvers", c)
  BY SessionManeuversTable, Chain DEF HasColumn, On
<1>. QED BY <1>3, <1>4, <1>5, SessionManeuversTable DEF On

LEMMA StationsHaveProviders == \A v \in 1..34 : HasColumn(SchemaAt[v], "wind_stations",
    "provider")
<1>1. /\ \E vs : <<"enum", "wind_stations", "provider", vs>> \in WindStations1
      /\ \E vs : <<"enum", "wind_stations", "provider", vs>> \in WindStations11
      /\ \E vs : <<"enum", "wind_stations", "provider", vs>> \in WindStations21
      /\ \E vs : <<"enum", "wind_stations", "provider", vs>> \in WindStations22
  BY EnumIs DEF WindStations1, WindStations11, WindStations21, WindStations22
<1>2. \A v \in 1..34 : On(SchemaAt[v], "wind_stations")
        \in {WindStations1, WindStations11, WindStations21, WindStations22}
  BY WindStationsTable
<1>3. \A v \in 1..34 : \E vs : <<"enum", "wind_stations", "provider", vs>> \in SchemaAt[v]
  BY <1>1, <1>2 DEF On
<1>. QED BY <1>3 DEF HasColumn

\* An upgrade leaves values the new CHECKs accept, in tables that had rows.
LEMMA AfterUpgrade ==
    ASSUME NEW v \in 1..34, NEW rs, RowsOK(v - 1, rs), NEW x \in UpRows(v, rs)
    PROVE  /\ Accepts(SchemaAt[v], x)
           /\ x \in rs \/ HasRows(rs, x[1]) \/ x[1] = "post_images"
<1>1. CASE x \in rs
  <2>1. ~ TooOld(v, x)
    <3>1. CASE v = 11
      <4>1. CASE x[1] = "wind_stations" /\ <<x[2], x[3]>> \in OpenMeteo
        <5>1. x \notin WithoutOpenMeteo(rs)
          BY <1>1, <4>1 DEF WithoutOpenMeteo, OpenMeteo, RowsOK, Whole, Of
        <5>2. x[3] # "true"
          BY <4>1 DEF OpenMeteo
        <5>3. \A y \in Filled(WithoutOpenMeteo(rs), "wind_stations", "keeps_local_history",
              "true") :
                y[3] = "true"
          BY DEF Filled
        <5>. QED BY <3>1, <5>1, <5>2, <5>3, Rewrites
      <4>. QED BY <3>1, <4>1 DEF TooOld
    <3>2. CASE v = 20
      BY <1>1, <3>2, Rewrites DEF TooOld, OtherRigs
    <3>. QED BY <3>1, <3>2 DEF TooOld
  <2>. QED BY <1>1, <2>1, AcceptedNext DEF RowsOK
<1>2. ASSUME x \notin rs
      PROVE  Accepts(SchemaAt[v], x) /\ (HasRows(rs, x[1]) \/ x[1] = "post_images")
  <2>1. v \in {2, 6, 9, 11, 17, 18, 26, 27, 33}
    BY <1>2, Rewrites
  <2>2. \A t, c, w, ys : x \in Filled(ys, t, c, w) => x = <<t, c, w>> /\ HasRows(ys, t)
    BY DEF Filled
  <2>3. CASE v = 2
    BY <1>2, <2>2, <2>3, Rewrites, NewRowsAccepted
  <2>4. CASE v = 6
    BY <1>2, <2>2, <2>4, Rewrites, NewRowsAccepted
  <2>5. CASE v = 9
    BY <1>2, <2>2, <2>5, Rewrites, NewRowsAccepted
  <2>6. CASE v = 11
    <3>1. WithoutOpenMeteo(rs) \subseteq rs
      BY DEF WithoutOpenMeteo
    <3>2. HasRows(WithoutOpenMeteo(rs), "wind_stations") => HasRows(rs, "wind_stations")
      BY <3>1 DEF HasRows
    <3>. QED BY <1>2, <2>2, <2>6, <3>1, <3>2, Rewrites, NewRowsAccepted
  <2>7. CASE v = 17
    <3>1. ASSUME x \in OriginalTypes(rs)
          PROVE  Accepts(SchemaAt[v], x) /\ HasRows(rs, x[1])
      <4>1. PICK y \in rs : /\ y[1] = "session_maneuvers" /\ y[2] = "maneuver_type"
                            /\ x = <<"session_maneuvers", "original_maneuver_type", y[3]>>
        BY <3>1 DEF OriginalTypes, Of
      <4>2. y[3] \in {"tack", "gybe", "course_change"}
        BY <2>7, <4>1, ManeuverTypes DEF RowsOK, Accepts
      <4>. QED BY <2>7, <4>1, <4>2, NewRowsAccepted DEF HasRows
    <3>. QED BY <1>2, <2>2, <2>7, <3>1, Rewrites, NewRowsAccepted
  <2>8. CASE v = 18
    BY <1>2, <2>2, <2>8, Rewrites, NewRowsAccepted
  <2>9. CASE v = 26
    <3>1. PICK w : x = <<"post_images", "image_id", w>>
      BY <1>2, <2>9, Rewrites DEF ImagesOfPosts
    <3>. QED BY <2>9, <3>1, NewRowsAccepted
  <2>10. CASE v = 27
    BY <1>2, <2>2, <2>10, Rewrites, NewRowsAccepted
  <2>11. CASE v = 33
    <3>1. x \in Legacy(rs)
      BY <1>2, <2>11, Rewrites
    <3>2. /\ x \in {<<"users", "terms_version", "legacy">>, <<"users", "privacy_version",
             "legacy">>}
          /\ HasRows(rs, "users")
      BY <3>1 DEF Legacy, Of, HasRows
    <3>. QED BY <2>11, <3>2, NewRowsAccepted
  <2>. QED BY <2>1, <2>3, <2>4, <2>5, <2>6, <2>7, <2>8, <2>9, <2>10, <2>11
<1>. QED BY <1>1, <1>2

\* A column added NOT NULL has a value where its table has rows.
LEMMA FilledIn ==
    ASSUME NEW v \in 2..34, NEW rs, RowsOK(v - 1, rs), NEW f, Fills(v, f),
           HasRows(UpRows(v, rs), f[2])
    PROVE  \E x \in UpRows(v, rs) : x[1] = f[2] /\ x[2] = f[3]
<1>1. v \in {2, 6, 9, 11, 17, 18, 27} /\ f[2] # "post_images"
  BY DEF Fills
<1>2. \A t, c, w, ys : HasRows(ys, t) =>
        \E x \in Filled(ys, t, c, w) : x[1] = t /\ x[2] = c
  BY DEF Filled
<1>3. HasRows(rs, f[2])
  BY <1>1, AfterUpgrade DEF HasRows
<1>4. CASE v = 2
  BY <1>2, <1>3, <1>4, Rewrites DEF Fills
<1>5. CASE v = 6
  BY <1>2, <1>3, <1>5, Rewrites DEF Fills
<1>6. CASE v = 9
  BY <1>2, <1>3, <1>6, Rewrites DEF Fills
<1>7. CASE v = 11
  <2>1. f[2] = "wind_stations" /\ f[3] = "keeps_local_history"
    BY <1>7 DEF Fills
  <2>2. \A y \in Filled(WithoutOpenMeteo(rs), "wind_stations", "keeps_local_history", "true") :
          HasRows(WithoutOpenMeteo(rs), "wind_stations")
    BY DEF Filled
  <2>3. HasRows(WithoutOpenMeteo(rs), "wind_stations")
    BY <1>7, <2>1, <2>2, Rewrites DEF HasRows
  <2>. QED BY <1>2, <1>7, <2>1, <2>3, Rewrites
<1>8. CASE v = 17
  <2>1. f[2] = "session_maneuvers" /\ f[3] \in {"original_maneuver_type", "corrected_by_user"}
    BY <1>8 DEF Fills
  <2>2. CASE f[3] = "original_maneuver_type"
    <3>1. PICK w : w \in Of(rs, "session_maneuvers", "maneuver_type")
      BY <1>3, <2>1 DEF RowsOK, Whole
    <3>2. <<"session_maneuvers", "original_maneuver_type", w>> \in OriginalTypes(rs)
      BY <3>1 DEF OriginalTypes
    <3>. QED BY <1>8, <2>1, <2>2, <3>2, Rewrites
  <2>3. CASE f[3] = "corrected_by_user"
    BY <1>2, <1>3, <1>8, <2>1, <2>3, Rewrites
  <2>. QED BY <2>1, <2>2, <2>3
<1>9. CASE v = 18
  BY <1>2, <1>3, <1>9, Rewrites DEF Fills
<1>10. CASE v = 27
  BY <1>2, <1>3, <1>10, Rewrites DEF Fills
<1>. QED BY <1>1, <1>4, <1>5, <1>6, <1>7, <1>8, <1>9, <1>10

(***************************************************************************)
(* From rows the releases so far could write, every upgrade goes through.  *)
(***************************************************************************)
LEMMA UpgradeApplies ==
    ASSUME NEW v \in 1..34, NEW rs, RowsOK(v - 1, rs)
    PROVE  LET after == Kept(UpRows(v, rs), SchemaAt[v])
           IN Applies(SchemaAt[v - 1], Revisions[v].up, after) /\ RowsOK(v, after)
<1>. DEFINE up == Revisions[v].up
            after == Kept(UpRows(v, rs), SchemaAt[v])
<1>1. up.gone = {} /\ Fits(v, up) /\ SchemaAt[v] = Changed(SchemaAt[v - 1], up)
  BY Shapes, TheRevisions, EveryUpgradeFits, Chain DEF Shape, R0001, Add, Change
<1>2. NoDangling(SchemaAt[v])
  BY EverySchemaSound DEF SoundAt, NoDangling
<1>3. \A x \in after : /\ x \in UpRows(v, rs) /\ HasColumn(SchemaAt[v], x[1], x[2])
                       /\ Accepts(SchemaAt[v], x)
  BY AfterUpgrade DEF Kept
<1>4. ChecksHold(SchemaAt[v], after)
  BY <1>3, ChecksByRow
<1>5. ASSUME NEW f \in up.add, f[1] = "column", f[4] = "required", HasRows(after, f[2])
      PROVE  Of(after, f[2], f[3]) # {}
  <2>1. v # 1
    <3>1. ASSUME v = 1
          PROVE  FALSE
      <4>1. rs = {}
        BY <3>1, Chain DEF RowsOK, HasColumn
      <4>2. UpRows(v, rs) = {}
        BY <3>1, <4>1, Rewrites
      <4>. QED BY <1>3, <1>5, <4>2 DEF HasRows
    <3>. QED BY <3>1
  <2>2. Fills(v, f)
    BY <1>5, <2>1, RequiredFilled
  <2>3. HasRows(UpRows(v, rs), f[2])
    BY <1>3, <1>5 DEF HasRows
  <2>4. PICK x \in UpRows(v, rs) : x[1] = f[2] /\ x[2] = f[3]
    BY <2>1, <2>2, <2>3, FilledIn
  <2>5. HasColumn(SchemaAt[v], x[1], x[2])
    BY <1>1, <1>5, <2>4 DEF HasColumn, Changed
  <2>. QED BY <2>4, <2>5 DEF Kept, Of
<1>6. Applies(SchemaAt[v - 1], up, after)
  <2>. HIDE DEF up, after
  <2>. QED BY <1>1, <1>2, <1>4, <1>5 DEF Applies, Fits
<1>7. ASSUME HasRows(after, "session_maneuvers")
      PROVE  Of(after, "session_maneuvers", "maneuver_type") # {}
  <2>1. HasRows(rs, "session_maneuvers")
    BY <1>3, <1>7, AfterUpgrade DEF HasRows
  <2>2. PICK x \in rs : x[1] = "session_maneuvers" /\ x[2] = "maneuver_type"
    BY <2>1 DEF RowsOK, Whole, Of
  <2>3. x \in UpRows(v, rs)
    <3>2. x \in WithoutOpenMeteo(rs) /\ x \notin OtherRigs(rs)
      BY <2>2 DEF WithoutOpenMeteo, OtherRigs
    <3>3. CASE v \in {11, 20}
      BY <2>2, <3>2, <3>3, Rewrites
    <3>4. CASE v \in {2, 6, 9, 17, 18, 26, 27, 33}
      BY <2>2, <3>4, Rewrites
    <3>. QED BY <2>2, <3>3, <3>4, Rewrites
  <2>4. HasColumn(SchemaAt[v], x[1], x[2])
    BY <2>2, ManeuverTypes DEF RowsOK
  <2>. QED BY <2>2, <2>3, <2>4 DEF Kept, Of
<1>8. ASSUME "forecast_grid" \in Of(after, "wind_stations", "station_type")
      PROVE  "open_meteo" \in Of(after, "wind_stations", "provider")
  <2>1. PICK x \in after : x[1] = "wind_stations" /\ x[2] = "station_type" /\ x[3] =
        "forecast_grid"
    BY <1>8 DEF Of
  <2>2. v # 11
    <3>1. ASSUME v = 11
          PROVE  FALSE
      <4>1. Accepts(SchemaAt[11], x)
        BY <1>3, <2>1, <3>1
      <4>2. <<"enum", "wind_stations", "station_type", {"buoy", "metar", "custom_device"}>> \in
            WindStations11
        BY EnumIs DEF WindStations11
      <4>3. <<"enum", "wind_stations", "station_type", {"buoy", "metar", "custom_device"}>> \in
            SchemaAt[11]
        BY <4>2, WindStationsTable DEF On
      <4>. QED BY <2>1, <4>1, <4>3 DEF Accepts
    <3>. QED BY <3>1
  <2>3. x \in rs
    <3>1. \A t, c, w, ys : \A z \in Filled(ys, t, c, w) : z = <<t, c, w>>
      BY DEF Filled
    <3>2. \A z \in OriginalTypes(rs) \cup ImagesOfPosts(rs) \cup Legacy(rs) : z[1] #
          "wind_stations"
      BY DEF OriginalTypes, ImagesOfPosts, Legacy
    <3>3. x \in UpRows(v, rs)
      BY <1>3
    <3>4. CASE v \in {2, 6, 9, 18, 27}
      BY <2>1, <3>1, <3>3, <3>4, Rewrites
    <3>5. CASE v \in {17, 20, 26, 33}
      BY <2>1, <3>1, <3>2, <3>3, <3>5, Rewrites
    <3>. QED BY <2>2, <3>3, <3>4, <3>5, Rewrites
  <2>4. PICK y \in rs : y[1] = "wind_stations" /\ y[2] = "provider" /\ y[3] = "open_meteo"
    BY <2>1, <2>3 DEF RowsOK, Whole, Of
  <2>5. y \in UpRows(v, rs)
    <3>1. y \notin OtherRigs(rs)
      BY <2>4 DEF OtherRigs
    <3>2. CASE v \in {2, 6, 9, 17, 18}
      BY <2>4, <3>2, Rewrites
    <3>3. CASE v \in {20, 26, 27, 33}
      BY <2>4, <3>1, <3>3, Rewrites
    <3>. QED BY <2>2, <2>4, <3>2, <3>3, Rewrites
  <2>. QED BY <2>4, <2>5, StationsHaveProviders DEF Kept, Of
<1>9. RowsOK(v, after)
  BY <1>3, <1>7, <1>8 DEF RowsOK, Whole
<1>. QED BY <1>6, <1>9

\* A downgrade PostgreSQL does not refuse leaves rows the older release could have written.
LEMMA DowngradeKeeps ==
    ASSUME NEW v \in (1..34) \ {31}, NEW rs, RowsOK(v, rs), NEW after \in DownRows(v, rs),
           ChecksHold(SchemaAt[v - 1], Kept(after, SchemaAt[v - 1]))
    PROVE  RowsOK(v - 1, Kept(after, SchemaAt[v - 1]))
<1>. DEFINE left == Kept(after, SchemaAt[v - 1])
<1>1. \A x \in left : HasColumn(SchemaAt[v - 1], x[1], x[2]) /\ Accepts(SchemaAt[v - 1], x)
  BY ChecksByRow DEF Kept
<1>2. \A x : x[1] \in {"session_maneuvers", "wind_stations"} => (x \in after <=> x \in rs)
  <2>1. CASE v = 11
    BY <2>1 DEF DownRows, Filled
  <2>2. CASE v = 26
    <3>1. PICK images \in FirstImages(rs) : after = rs \cup images
      BY <2>2 DEF DownRows
    <3>2. \A x \in images : x[1] = "posts"
      BY <3>1 DEF FirstImages
    <3>. QED BY <3>1, <3>2
  <2>3. CASE v = 30
    BY <2>3 DEF DownRows, FinishMarks
  <2>4. CASE v \notin {11, 26, 30}
    BY <2>4 DEF DownRows
  <2>. QED BY <2>1, <2>2, <2>3, <2>4
<1>3. ASSUME HasRows(left, "session_maneuvers")
      PROVE  Of(left, "session_maneuvers", "maneuver_type") # {}
  <2>1. PICK y \in left : y[1] = "session_maneuvers"
    BY <1>3 DEF HasRows
  <2>2. y \in rs
    BY <2>1, <1>2 DEF Kept
  <2>3. PICK x \in rs : x[1] = "session_maneuvers" /\ x[2] = "maneuver_type"
    BY <2>1, <2>2 DEF RowsOK, Whole, HasRows, Of
  <2>4. HasColumn(SchemaAt[v - 1], x[1], x[2])
    BY <1>1, <2>1, <2>3, ManeuverTypes
  <2>5. x \in left
    BY <1>2, <2>3, <2>4 DEF Kept
  <2>. QED BY <2>3, <2>5 DEF Of
<1>4. ASSUME "forecast_grid" \in Of(left, "wind_stations", "station_type")
      PROVE  "open_meteo" \in Of(left, "wind_stations", "provider")
  <2>1. PICK x \in left : x[1] = "wind_stations" /\ x[2] = "station_type" /\ x[3] =
        "forecast_grid"
    BY <1>4 DEF Of
  <2>2. PICK y \in rs : y[1] = "wind_stations" /\ y[2] = "provider" /\ y[3] = "open_meteo"
    BY <2>1, <1>2 DEF Kept, RowsOK, Whole, Of
  <2>3. v # 1
    BY <1>1, <2>1, Chain DEF HasColumn
  <2>. QED BY <1>2, <2>2, <2>3, StationsHaveProviders DEF Kept, Of
<1>. QED BY <1>1, <1>3, <1>4 DEF RowsOK, Whole

(***************************************************************************)
(* The inductive invariant: the schema is that of the version, the rows    *)
(* are such as its releases write, and only a downgrade was ever refused.  *)
(***************************************************************************)
RowsIInv ==
    /\ version \in 0..34
    /\ schema = SchemaAt[version]
    /\ RowsOK(version, rows)
    /\ refused = <<>> \/ refused[1] = "down"

LEMMA InitHolds == SchemaInit => RowsIInv
<1> SUFFICES ASSUME SchemaInit PROVE RowsIInv
  OBVIOUS
<1>1. version = 0 /\ schema = SchemaAt[0] /\ rows = {} /\ refused = <<>>
  BY Chain DEF SchemaInit
<1>2. RowsOK(0, {})
  BY DEF RowsOK, Whole, HasRows, Of
<1> QED BY <1>1, <1>2 DEF RowsIInv

LEMMA UpgradeHolds == ASSUME RowsIInv, Upgrade PROVE RowsIInv'
<1>. DEFINE v == version + 1
            ch == Revisions[v].up
            after == Kept(UpRows(v, rows), Changed(schema, ch))
<1>1. v \in 1..34 /\ v - 1 = version
  BY ChainLength DEF RowsIInv, Upgrade
<1>2. SchemaAt[v] = Changed(schema, ch)
  BY <1>1, Chain DEF RowsIInv
<1>3. Applies(schema, ch, after) /\ RowsOK(v, after)
  BY <1>1, <1>2, UpgradeApplies DEF RowsIInv
<1>4. version' = v /\ schema' = Changed(schema, ch) /\ rows' = after /\ refused' = <<>>
  BY <1>3 DEF Upgrade
<1>. HIDE DEF v, ch, after
<1>. QED BY <1>1, <1>2, <1>3, <1>4 DEF RowsIInv

LEMMA DowngradeHolds == ASSUME RowsIInv, Downgrade PROVE RowsIInv'
<1>. DEFINE v == version
            ch == Revisions[v].down
<1>1. v \in 1..34 /\ v - 1 \in 0..34
  BY DEF RowsIInv, Downgrade
<1>2. PICK after \in DownRows(v, rows) :
        LET left == Kept(after, Changed(schema, ch))
        IN IF Applies(schema, ch, left)
           THEN /\ version' = v - 1
                /\ schema' = Changed(schema, ch)
                /\ rows' = left
                /\ refused' = <<>>
           ELSE refused' = <<"down", v>> /\ UNCHANGED <<version, schema, rows>>
  BY DEF Downgrade
<1>. DEFINE left == Kept(after, Changed(schema, ch))
<1>3. CASE Applies(schema, ch, left)
  <2>1. v # 31
    BY <1>3, NoWayBack, TheRevisions DEF RowsIInv, Applies
  <2>2. Changed(schema, ch) = SchemaAt[v - 1]
    BY <1>1, <2>1, WayBack DEF RowsIInv
  <2>3. ChecksHold(SchemaAt[v - 1], Kept(after, SchemaAt[v - 1]))
    BY <1>3, <2>2 DEF Applies
  <2>4. RowsOK(v - 1, Kept(after, SchemaAt[v - 1]))
    BY <1>1, <2>1, <2>3, DowngradeKeeps DEF RowsIInv
  <2>5. /\ version' = v - 1 /\ schema' = SchemaAt[v - 1] /\ refused' = <<>>
        /\ rows' = Kept(after, SchemaAt[v - 1])
    BY <1>2, <1>3, <2>2
  <2>. QED BY <1>1, <2>4, <2>5 DEF RowsIInv
<1>4. CASE ~ Applies(schema, ch, left)
  BY <1>2, <1>4 DEF RowsIInv
<1>. QED BY <1>3, <1>4

LEMMA WriteHolds == ASSUME RowsIInv, Write PROVE RowsIInv'
<1>1. PICK x \in Values \ rows : /\ HasColumn(schema, x[1], x[2])
                                 /\ Whole(rows \cup {x})
                                 /\ ChecksHold(schema, {x})
                                 /\ rows' = rows \cup {x}
  BY DEF Write
<1>2. Accepts(schema, x)
  BY <1>1, ChecksByRow
<1>3. RowsOK(version, rows \cup {x})
  BY <1>1, <1>2 DEF RowsIInv, RowsOK
<1>. QED BY <1>1, <1>3 DEF RowsIInv, Write

LEMMA AlwaysRows == SchemaSpec => []RowsIInv
<1>1. RowsIInv /\ [SchemaNext]_schemaVars => RowsIInv'
  BY UpgradeHolds, DowngradeHolds, WriteHolds DEF SchemaNext, schemaVars, RowsIInv
<1>. QED BY InitHolds, <1>1, PTL DEF SchemaSpec

(***************************************************************************)
(* Whatever is upgraded, taken back, refused and written in between, the   *)
(* schema is the one the chain gives the version, and at the newest        *)
(* version the one backend.db.models declares (alembic/versions).          *)
(***************************************************************************)
THEOREM SchemaAlwaysIsVersion == SchemaSpec => []SchemaIsVersion
<1>1. RowsIInv => SchemaIsVersion
  BY EndsAtModels, ChainLength DEF RowsIInv, SchemaIsVersion
<1>. QED BY AlwaysRows, <1>1, PTL

(***************************************************************************)
(* No rows that earlier releases could write make an upgrade fail: the     *)
(* server that migrates when it starts (db/__init__.py) does start.        *)
(***************************************************************************)
THEOREM StartupAlwaysMigrates == SchemaSpec => []StartupMigrates
<1>1. RowsIInv => StartupMigrates
  BY DEF RowsIInv, StartupMigrates
<1>. QED BY AlwaysRows, <1>1, PTL

\* One step of ON DELETE CASCADE stays off the history ...
LEMMA PartsOfOthers ==
    ASSUME NEW s, \A f \in s : Harmless(f), NEW B \in {Upstream, Upstream \ {"boats"}},
           NEW ts, ts \cap B = {}
    PROVE  WithParts(s, ts) \cap B = {}
  BY DEF WithParts, Harmless, Upstream

\* ... and Erased takes six of them.
LEMMA ErasedIs ==
    ASSUME NEW s, NEW t
    PROVE  \E r : /\ r[0] = {t}
                  /\ \A n \in 1..6 : r[n] = WithParts(s, r[n - 1])
                  /\ Erased(s, t) = r[6]
<1>. DEFINE W(ts) == WithParts(s, ts)
            Equation(r) == r = [n \in 0..6 |-> IF n = 0 THEN {t} ELSE W(r[n - 1])]
            a == W({t})
            b == W(a)
            c == W(b)
            d == W(c)
            e == W(d)
            h == [n \in 0..6 |-> CASE n = 0 -> {t} [] n = 1 -> a [] n = 2 -> b [] n = 3 -> c
                                   [] n = 4 -> d [] n = 5 -> e [] OTHER -> W(e)]
<1>1. h[0] = {t} /\ h[1] = W(h[0]) /\ h[2] = W(h[1]) /\ h[3] = W(h[2])
        /\ h[4] = W(h[3]) /\ h[5] = W(h[4]) /\ h[6] = W(h[5])
  <2>. HIDE DEF W
  <2>. QED OBVIOUS
<1>2. Equation(h)
  <2>. HIDE DEF W, a, b, c, d, e
  <2>1. DOMAIN h = 0..6 /\ h = [n \in 0..6 |-> h[n]]
    OBVIOUS
  <2>. HIDE DEF h
  <2>2. \A n \in 0..6 : h[n] = IF n = 0 THEN {t} ELSE W(h[n - 1])
    BY <1>1
  <2>. QED BY <2>1, <2>2
<1>. DEFINE r == CHOOSE k : Equation(k)
<1>3. Equation(r)
  <2>. HIDE DEF Equation, h
  <2>. QED BY <1>2
<1>4. Erased(s, t) = r[6]
  BY DEF Erased
<1>. HIDE DEF r, W
<1>5. \A n \in 0..6 : r[n] = IF n = 0 THEN {t} ELSE W(r[n - 1])
  BY <1>3, Zenon
<1>. QED BY <1>4, <1>5 DEF W

LEMMA ErasesOnlyParts ==
    ASSUME NEW s, \A f \in s : Harmless(f), NEW B \in {Upstream, Upstream \ {"boats"}},
           NEW t, t \notin B
    PROVE  Erased(s, t) \cap B = {}
<1>1. PICK r : /\ r[0] = {t}
               /\ \A n \in 1..6 : r[n] = WithParts(s, r[n - 1])
               /\ Erased(s, t) = r[6]
  BY ErasedIs
<1>2. \A n \in 1..6 : r[n - 1] \cap B = {} => r[n] \cap B = {}
  BY <1>1, PartsOfOthers
<1>3. r[0] \cap B = {}
  BY <1>1
<1>4. r[6] \cap B = {}
  BY <1>2, <1>3
<1>. QED BY <1>1, <1>4

(***************************************************************************)
(* In no version does deleting an account, a club, a group, a picture, a   *)
(* document, a device or an import delete a session, a boat, an activity,  *)
(* a result or a regatta, nor deleting a boat a session or a result.       *)
(***************************************************************************)
THEOREM HistoryAlwaysSurvives == SchemaSpec => []HistorySurvives
<1>1. ASSUME RowsIInv PROVE HistorySurvives
  <2>1. \A f \in schema : Harmless(f)
    <3>1. CASE version = 0
      BY <1>1, <3>1, Chain DEF RowsIInv
    <3>2. CASE version \in 1..34
      <4>1. SoundAt(version)
        BY <3>2, EverySchemaSound
      <4>. QED BY <1>1, <4>1 DEF RowsIInv, SoundAt
    <3>. QED BY <1>1, <3>1, <3>2 DEF RowsIInv
  <2>2. ASSUME NEW t \in {"users", "clubs", "groups", "images", "files", "devices", "imports"}
        PROVE  Erased(schema, t) \cap {"sessions", "boats", "activities", "results", "regattas"}
            = {}
    <3>1. Erased(schema, t) \cap Upstream = {}
      BY <2>1, ErasesOnlyParts DEF Upstream
    <3>. QED BY <3>1 DEF Upstream
  <2>3. Erased(schema, "boats") \cap {"sessions", "results"} = {}
    <3>1. Erased(schema, "boats") \cap (Upstream \ {"boats"}) = {}
      BY <2>1, ErasesOnlyParts
    <3>. QED BY <3>1 DEF Upstream
  <2>. QED BY <2>2, <2>3 DEF HistorySurvives
<1>. QED BY AlwaysRows, <1>1, PTL

(***************************************************************************)
(* A database at revision 0031 or later never gets below it: the downgrade *)
(* of 0031 names a CHECK that does not exist and is refused on any rows.   *)
(***************************************************************************)
THEOREM NoReturnFrom31 == SchemaSpec => [][version >= 31 => version' >= 31]_schemaVars
<1>1. ASSUME RowsIInv, [SchemaNext]_schemaVars
      PROVE  [version >= 31 => version' >= 31]_schemaVars
  <2>1. CASE Upgrade
    BY <1>1, <2>1 DEF Upgrade, RowsIInv
  <2>2. CASE Downgrade
    <3>1. version = 31 => \A rs : ~ Applies(schema, Revisions[version].down, rs)
      BY <1>1, NoWayBack, TheRevisions DEF RowsIInv, Applies
    <3>. QED BY <1>1, <2>2, <3>1 DEF Downgrade, RowsIInv
  <2>3. CASE Write
    BY <1>1, <2>3 DEF Write, RowsIInv
  <2>. QED BY <1>1, <2>1, <2>2, <2>3 DEF SchemaNext
<1>. QED BY AlwaysRows, <1>1, PTL DEF SchemaSpec
=============================================================================
