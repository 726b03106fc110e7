------------------------ MODULE DeviceRegistryProofs ------------------------
(***************************************************************************)
(* Type correctness of DeviceRegistry, and that hardware is never claimed  *)
(* twice, for any number of concurrent requests.  Until three confirms of  *)
(* one code overlap, a key only authenticates the hardware it was issued   *)
(* to; until any two requests do, a key that was answered and a code that  *)
(* was given stay usable.                                                  *)
(***************************************************************************)
EXTENDS MCDeviceRegistry, FiniteSetTheorems, TLAPS

\* A request that mints a code or a key has a number.
Numbered(request) == request.pc \notin {"idle", "revoke"}

\* What the program counter says of a request's locals.
RequestInv ==
    \A h \in Handlers :
        /\ Numbered(handler[h]) => handler[h].n \in 1..last
        /\ handler[h].pc = "claim" => handler[h].target \in Targets
        /\ handler[h].pc \in {"check", "confirm", "bind"} =>
              /\ handler[h].row \in Requests
              /\ handler[h].code \in Requests
              /\ handler[h].hw \in Hardware
        /\ handler[h].pc \in {"rotate", "store", "revoke"} => handler[h].row \in Requests

Typed == TypeOK /\ RequestInv

USE RegistryAssumption

LEMMA TypedInit == Init => Typed
BY DEF Init, Typed, TypeOK, RequestInv, Numbered, Row, NoRow, Request, Idle, Maybe, Requests

\* A request that begins takes the next number.
LEMMA BeginTyped ==
    ASSUME Typed, NEW h \in Handlers, NEW rec \in Request, Begin(h, rec),
           rec.n = last + 1, rec.pc # "idle",
           rec.pc = "claim" => rec.target \in Targets,
           rec.pc \in {"check", "confirm", "bind"} =>
              rec.row \in Requests /\ rec.code \in Requests /\ rec.hw \in Hardware,
           rec.pc \in {"rotate", "store", "revoke"} => rec.row \in Requests
    PROVE  /\ last' \in 0..MaxRequests
           /\ handler' \in [Handlers -> Request]
           /\ RequestInv'
<1>1. last \in 0..MaxRequests /\ last' = last + 1 /\ last < MaxRequests
  BY DEF Typed, TypeOK, Begin
<1>2. handler' = [handler EXCEPT ![h] = rec] /\ handler \in [Handlers -> Request]
  BY DEF Typed, TypeOK, Begin
<1>3. \A g \in Handlers : handler'[g] = IF g = h THEN rec ELSE handler[g]
  BY <1>2
<1>4. \A n \in 1..last : n \in 1..last'
  BY <1>1
<1>5. rec.n \in 1..last'
  BY <1>1
<1>6. RequestInv'
  BY <1>3, <1>4, <1>5 DEF Typed, RequestInv
<1> QED BY <1>1, <1>2, <1>6

\* A request that ends, or goes on to another step with the same locals.
LEMMA OneHandler ==
    ASSUME Typed, NEW h \in Handlers, NEW rec \in Request,
           handler' = [handler EXCEPT ![h] = rec], last' = last,
           ~Numbered(rec) \/ (rec.n = handler[h].n /\ Numbered(handler[h])),
           rec.pc # "claim",
           rec.pc \in {"check", "confirm", "bind"} =>
              rec.row \in Requests /\ rec.code \in Requests /\ rec.hw \in Hardware,
           rec.pc \in {"rotate", "store", "revoke"} => rec.row \in Requests
    PROVE  /\ handler' \in [Handlers -> Request]
           /\ RequestInv'
<1>1. handler \in [Handlers -> Request]
  BY DEF Typed, TypeOK
<1>2. \A g \in Handlers : handler'[g] = IF g = h THEN rec ELSE handler[g]
  BY <1>1
<1>3. Numbered(rec) => rec.n \in 1..last'
  BY DEF Typed, RequestInv
<1>4. RequestInv'
  BY <1>2, <1>3 DEF Typed, RequestInv
<1> QED BY <1>1, <1>4

LEMMA DoneTyped ==
    ASSUME Typed, NEW h \in Handlers, Done(h), last' = last
    PROVE  handler' \in [Handlers -> Request] /\ RequestInv'
<1>1. Idle \in Request /\ Idle.pc = "idle" /\ ~Numbered(Idle)
  BY DEF Idle, Request, Maybe, NoRow, Row, Numbered
<1> QED BY <1>1, OneHandler DEF Done

\* What an UPDATE of the changed columns leaves in the row.
LEMMA Updated ==
    ASSUME NEW row \in Row, NEW seen \in Row, NEW new \in Row
    PROVE  /\ Update(row, seen, new) \in Row
           /\ Update(row, seen, new).status = IF new.status = seen.status THEN row.status ELSE new.status
           /\ Update(row, seen, new).target = IF new.target = seen.target THEN row.target ELSE new.target
           /\ Update(row, seen, new).code = IF new.code = seen.code THEN row.code ELSE new.code
           /\ Update(row, seen, new).ext = IF new.ext = seen.ext THEN row.ext ELSE new.ext
           /\ Update(row, seen, new).key = IF new.key = seen.key THEN row.key ELSE new.key
<1> DEFINE u == Update(row, seen, new)
<1>1. DOMAIN row = {"status", "target", "code", "ext", "key"}
  BY DEF Row
<1>2. u = [c \in {"status", "target", "code", "ext", "key"} |-> IF new[c] = seen[c] THEN row[c] ELSE new[c]]
  BY <1>1 DEF Update
<1>3. /\ u["status"] = IF new["status"] = seen["status"] THEN row["status"] ELSE new["status"]
      /\ u["target"] = IF new["target"] = seen["target"] THEN row["target"] ELSE new["target"]
      /\ u["code"] = IF new["code"] = seen["code"] THEN row["code"] ELSE new["code"]
      /\ u["ext"] = IF new["ext"] = seen["ext"] THEN row["ext"] ELSE new["ext"]
      /\ u["key"] = IF new["key"] = seen["key"] THEN row["key"] ELSE new["key"]
  BY <1>2
<1>4. u = [status |-> u.status, target |-> u.target, code |-> u.code, ext |-> u.ext, key |-> u.key]
  BY <1>2
<1>5. u \in Row
  <2> HIDE DEF u
  <2> QED BY <1>3, <1>4 DEF Row
<1> QED BY <1>3, <1>5

\* The attributes a confirm and a revoke assign to the row they have read.
LEMMA ConfirmedRow ==
    ASSUME NEW r \in Request, r.hw \in Hardware, r.n \in Requests
    PROVE  /\ Confirmed(r) \in Row
           /\ Confirmed(r).status = "claimed" /\ Confirmed(r).ext = r.hw
           /\ Confirmed(r).key = r.n /\ Confirmed(r).code = None
           /\ Confirmed(r).target = r.seen.target
<1>0. r.seen \in Row
  BY DEF Request
<1>1. [r.seen EXCEPT !.status = "claimed"] \in Row
  BY <1>0 DEF Row
<1>2. [r.seen EXCEPT !.status = "claimed", !.ext = r.hw] \in Row
  BY <1>1 DEF Row, Maybe
<1>3. [r.seen EXCEPT !.status = "claimed", !.ext = r.hw, !.key = r.n] \in Row
  BY <1>2 DEF Row, Maybe
<1>4. Confirmed(r) \in Row
  BY <1>3 DEF Row, Maybe, Confirmed
<1>5. /\ Confirmed(r).status = "claimed" /\ Confirmed(r).ext = r.hw
      /\ Confirmed(r).key = r.n /\ Confirmed(r).code = None
      /\ Confirmed(r).target = r.seen.target
  BY <1>0 DEF Confirmed, Row
<1> QED BY <1>4, <1>5

RevokedFrom(seen) == [seen EXCEPT !.status = "revoked", !.key = None, !.code = None]

LEMMA RevokedRow ==
    ASSUME NEW row \in Row
    PROVE  /\ RevokedFrom(row) \in Row
           /\ RevokedFrom(row).status = "revoked" /\ RevokedFrom(row).key = None
           /\ RevokedFrom(row).code = None /\ RevokedFrom(row).ext = row.ext
           /\ RevokedFrom(row).target = row.target
<1>1. [row EXCEPT !.status = "revoked"] \in Row
  BY DEF Row
<1>2. [row EXCEPT !.status = "revoked", !.key = None] \in Row
  BY <1>1 DEF Row, Maybe
<1>3. RevokedFrom(row) \in Row
  BY <1>2 DEF Row, Maybe, RevokedFrom
<1>4. /\ RevokedFrom(row).status = "revoked" /\ RevokedFrom(row).key = None
      /\ RevokedFrom(row).code = None /\ RevokedFrom(row).ext = row.ext
      /\ RevokedFrom(row).target = row.target
  BY DEF Row, RevokedFrom
<1> QED BY <1>3, <1>4

\* What the commit of a confirm does to its row, and to no other.
LEMMA ConfirmEffect ==
    ASSUME Typed, NEW h \in Handlers, WriteConfirm(h), ~Taken(handler[h])
    PROVE  LET r == handler[h]
               d == r.row IN
           /\ r.pc = "bind" /\ r \in Request /\ r.n \in 1..last /\ r.n \in Requests
           /\ d \in Requests /\ r.code \in Requests /\ r.hw \in Hardware /\ r.seen \in Row
           /\ Confirm(h, Confirmed(r))
           /\ device' \in [Requests -> Row]
           /\ \A e \in Requests \ {d} : device'[e] = device[e]
           /\ device'[d].status = IF r.seen.status = "claimed" THEN device[d].status ELSE "claimed"
           /\ device'[d].ext = IF r.seen.ext = r.hw THEN device[d].ext ELSE r.hw
           /\ device'[d].key = IF r.seen.key = r.n THEN device[d].key ELSE r.n
           /\ device'[d].code = IF r.seen.code = None THEN device[d].code ELSE None
<1> DEFINE r == handler[h]
           u == Update(device[r.row], r.seen, Confirmed(r))
<1>1. /\ r \in Request /\ r.n \in 1..last /\ r.n \in Requests /\ r.pc = "bind"
      /\ r.row \in Requests /\ r.code \in Requests /\ r.hw \in Hardware /\ r.seen \in Row
      /\ device \in [Requests -> Row]
  BY DEF WriteConfirm, Typed, TypeOK, RequestInv, Numbered, Request, Requests
<1>2. Confirm(h, Confirmed(r)) /\ device' = [device EXCEPT ![r.row] = u]
  BY DEF WriteConfirm, Confirm
<1>3. /\ u \in Row
      /\ u.status = IF "claimed" = r.seen.status THEN device[r.row].status ELSE "claimed"
      /\ u.ext = IF r.hw = r.seen.ext THEN device[r.row].ext ELSE r.hw
      /\ u.key = IF r.n = r.seen.key THEN device[r.row].key ELSE r.n
      /\ u.code = IF None = r.seen.code THEN device[r.row].code ELSE None
  <2>1. device[r.row] \in Row
    BY <1>1
  <2>2. /\ Confirmed(r) \in Row
        /\ Confirmed(r).status = "claimed" /\ Confirmed(r).ext = r.hw
        /\ Confirmed(r).key = r.n /\ Confirmed(r).code = None
    BY <1>1, ConfirmedRow
  <2> HIDE DEF r
  <2> QED BY <1>1, <2>1, <2>2, Updated
<1> HIDE DEF u
<1>4. device' \in [Requests -> Row] /\ device'[r.row] = u /\ \A e \in Requests \ {r.row} : device'[e] = device[e]
  BY <1>1, <1>2, <1>3
<1> QED BY <1>1, <1>2, <1>3, <1>4

\* And that of a revoke.
LEMMA RevokeEffect ==
    ASSUME Typed, NEW h \in Handlers, WriteRevoke(h)
    PROVE  LET r == handler[h]
               d == r.row IN
           /\ r.pc = "revoke" /\ d \in Requests /\ r.seen \in Row
           /\ device' \in [Requests -> Row]
           /\ \A e \in Requests \ {d} : device'[e] = device[e]
           /\ device'[d].status = IF r.seen.status = "revoked" THEN device[d].status ELSE "revoked"
           /\ device'[d].ext = device[d].ext
           /\ device'[d].key = IF r.seen.key = None THEN device[d].key ELSE None
           /\ device'[d].code = IF r.seen.code = None THEN device[d].code ELSE None
<1> DEFINE r == handler[h]
           u == Update(device[r.row], r.seen, RevokedFrom(r.seen))
<1>1. r \in Request /\ r.pc = "revoke" /\ r.row \in Requests /\ r.seen \in Row /\ device \in [Requests -> Row]
  BY DEF WriteRevoke, Typed, TypeOK, RequestInv, Request
<1>2. device' = [device EXCEPT ![r.row] = u]
  BY DEF WriteRevoke, RevokedFrom
<1>3. /\ u \in Row
      /\ u.status = IF "revoked" = r.seen.status THEN device[r.row].status ELSE "revoked"
      /\ u.ext = device[r.row].ext
      /\ u.key = IF None = r.seen.key THEN device[r.row].key ELSE None
      /\ u.code = IF None = r.seen.code THEN device[r.row].code ELSE None
  <2>1. device[r.row] \in Row
    BY <1>1
  <2>2. /\ RevokedFrom(r.seen) \in Row
        /\ RevokedFrom(r.seen).status = "revoked" /\ RevokedFrom(r.seen).ext = r.seen.ext
        /\ RevokedFrom(r.seen).key = None /\ RevokedFrom(r.seen).code = None
    BY <1>1, RevokedRow
  <2> HIDE DEF r
  <2> QED BY <1>1, <2>1, <2>2, Updated
<1> HIDE DEF u
<1>4. device' \in [Requests -> Row] /\ device'[r.row] = u /\ \A e \in Requests \ {r.row} : device'[e] = device[e]
  BY <1>1, <1>2, <1>3
<1> QED BY <1>1, <1>3, <1>4

LEMMA TypedStep == Typed /\ [Next]_vars => Typed'
<1> SUFFICES ASSUME Typed, [Next]_vars PROVE Typed'
  OBVIOUS
<1>t. TypeOK
  BY DEF Typed
<1>n. 0..MaxRequests \in SUBSET Nat /\ \A n \in 1..last : n \in Requests
  BY <1>t DEF TypeOK, Requests
<1>1. ASSUME NEW h \in Handlers, NEW t \in Targets, ReadClaim(h, t) PROVE Typed'
  <2>1. PICK d \in IF Reusable(t) = {} THEN {None} ELSE Reusable(t) :
            Begin(h, [Idle EXCEPT !.pc = "claim", !.n = last + 1, !.target = t, !.row = d])
    BY <1>1 DEF ReadClaim
  <2>2. d \in Maybe(Requests)
    BY DEF Reusable, Devices, Maybe
  <2> DEFINE rec == [Idle EXCEPT !.pc = "claim", !.n = last + 1, !.target = t, !.row = d]
  <2>3. last + 1 \in Requests
    BY <1>t, <2>1 DEF TypeOK, Begin, Requests
  <2>4. rec \in Request /\ rec.pc = "claim" /\ rec.n = last + 1 /\ rec.target = t
    BY <2>2, <2>3 DEF Idle, Request, Maybe, NoRow, Row
  <2>5. last' \in 0..MaxRequests /\ handler' \in [Handlers -> Request] /\ RequestInv'
    BY <2>1, <2>4, BeginTyped
  <2> QED BY <1>1, <1>t, <2>5 DEF ReadClaim, Typed, TypeOK
<1>2. ASSUME NEW h \in Handlers, WriteClaim(h) PROVE Typed'
  <2> DEFINE r == handler[h]
  <2>1. r \in Request /\ r.n \in Requests /\ r.target \in Targets /\ r.row \in Maybe(Requests)
    BY <1>2, <1>t, <1>n DEF WriteClaim, Typed, TypeOK, RequestInv, Numbered, Request
  <2>2. handler' \in [Handlers -> Request] /\ RequestInv'
    BY <1>2, DoneTyped DEF WriteClaim
  <2>3. [NoRow EXCEPT !.status = "unclaimed", !.target = r.target, !.code = r.n] \in Row
    BY <2>1 DEF NoRow, Row, Maybe
  <2>4. ASSUME NEW d \in Requests PROVE [device[d] EXCEPT !.code = r.n] \in Row
    BY <1>t, <2>1 DEF TypeOK, Row, Maybe
  <2>5. \A d \in Requests : device[d].code \in Maybe(Requests)
    BY <1>t DEF TypeOK, Row
  <2>6. device' \in [Requests -> Row]
    <3>1. CASE r.row = None
      BY <1>2, <3>1, <1>t, <2>1, <2>3 DEF WriteClaim, TypeOK
    <3>2. CASE r.row # None
      <4>1. r.row \in Requests /\ device' = [device EXCEPT ![r.row].code = r.n]
        BY <1>2, <3>2, <2>1 DEF WriteClaim, Maybe
      <4> QED BY <4>1, <2>4, <1>t DEF TypeOK
    <3> QED BY <3>1, <3>2
  <2>7. withdrawn' \subseteq Requests
    BY <1>2, <1>t, <2>1, <2>5 DEF WriteClaim, TypeOK, Maybe
  <2>8. given' \subseteq Requests
    BY <1>2, <1>t, <2>1 DEF WriteClaim, TypeOK
  <2> QED BY <1>2, <1>t, <2>2, <2>6, <2>7, <2>8 DEF WriteClaim, Typed, TypeOK
<1>3. ASSUME NEW h \in Handlers, NEW x \in Hardware, NEW c \in Requests, FindCode(h, x, c) PROVE Typed'
  <2>1. CASE UNCHANGED <<handler, last>> /\ Refuse
    <3>1. UNCHANGED <<device, used, held, handler, last>>
      BY <2>1 DEF Refuse
    <3>2. UNCHANGED <<expired, given, withdrawn>>
      BY <1>3 DEF FindCode
    <3> QED BY <1>t, <3>1, <3>2 DEF Typed, TypeOK, RequestInv
  <2>2. ASSUME NEW d \in Devices,
               Begin(h, [Idle EXCEPT !.pc = "check", !.n = last + 1, !.row = d, !.code = c, !.hw = x]),
               UNCHANGED <<device, used, held>>
        PROVE  Typed'
    <3> DEFINE rec == [Idle EXCEPT !.pc = "check", !.n = last + 1, !.row = d, !.code = c, !.hw = x]
    <3>1. last + 1 \in Requests /\ d \in Requests
      BY <1>t, <2>2 DEF TypeOK, Begin, Requests, Devices
    <3>2. rec \in Request /\ rec.pc = "check" /\ rec.n = last + 1 /\ rec.row = d /\ rec.code = c /\ rec.hw = x
      BY <3>1 DEF Idle, Request, Maybe, NoRow, Row
    <3>3. last' \in 0..MaxRequests /\ handler' \in [Handlers -> Request] /\ RequestInv'
      BY <2>2, <3>1, <3>2, BeginTyped
    <3> QED BY <1>3, <1>t, <2>2, <3>3 DEF FindCode, Typed, TypeOK
  <2>3. CASE ~(UNCHANGED <<handler, last>> /\ Refuse)
    BY <1>3, <2>2, <2>3 DEF FindCode
  <2> QED BY <2>1, <2>3
<1>4. ASSUME NEW h \in Handlers, CheckHardware(h) PROVE Typed'
  <2>1. CASE Refuse /\ Done(h)
    BY <1>4, <1>t, <2>1, DoneTyped DEF CheckHardware, Refuse, Typed, TypeOK
  <2>2. CASE handler' = [handler EXCEPT ![h].pc = "confirm"] /\ UNCHANGED <<device, used, held>>
    <3> DEFINE rec == [handler[h] EXCEPT !.pc = "confirm"]
    <3>1. handler[h] \in Request /\ handler[h].pc = "check"
      BY <1>4, <1>t DEF CheckHardware, TypeOK
    <3>2. /\ rec \in Request /\ rec.pc = "confirm" /\ rec.n = handler[h].n
          /\ Numbered(rec) /\ Numbered(handler[h])
          /\ rec.row = handler[h].row /\ rec.code = handler[h].code /\ rec.hw = handler[h].hw
      BY <3>1 DEF Request, Numbered
    <3>3. rec.row \in Requests /\ rec.code \in Requests /\ rec.hw \in Hardware
      BY <3>1, <3>2 DEF Typed, RequestInv
    <3>4. handler' \in [Handlers -> Request] /\ RequestInv'
      BY <1>4, <2>2, <3>1, <3>2, <3>3, OneHandler DEF CheckHardware
    <3> QED BY <1>4, <1>t, <2>2, <3>4 DEF CheckHardware, Typed, TypeOK
  <2> QED BY <1>4, <2>1, <2>2 DEF CheckHardware
<1>5. ASSUME NEW h \in Handlers, WriteConfirm(h) PROVE Typed'
  <2> DEFINE r == handler[h]
  <2>1. CASE Taken(r)
    <3>1. Refuse /\ Done(h) /\ UNCHANGED <<last, expired, given, withdrawn>>
      BY <1>5, <2>1 DEF WriteConfirm
    <3> QED BY <1>t, <3>1, DoneTyped DEF Refuse, Typed, TypeOK
  <2>2. CASE ~Taken(r)
    <3>1. /\ Confirm(h, Confirmed(r)) /\ device' \in [Requests -> Row]
          /\ r.n \in Requests /\ r.code \in Requests /\ r.hw \in Hardware
      BY <1>5, <2>2, ConfirmEffect
    <3>2. handler' \in [Handlers -> Request] /\ RequestInv'
      BY <3>1, DoneTyped DEF Confirm
    <3>3. used' \in [Requests -> SUBSET Requests]
      BY <3>1, <1>t DEF TypeOK, Confirm
    <3>4. held' \in [Hardware -> SUBSET Requests]
      BY <3>1, <1>t DEF TypeOK, Confirm, Deliver
    <3> QED BY <1>t, <3>1, <3>2, <3>3, <3>4 DEF Confirm, Typed, TypeOK
  <2> QED BY <2>1, <2>2
<1>6. ASSUME NEW h \in Handlers, NEW d \in Requests, StartRotate(h, d) PROVE Typed'
  <2> DEFINE rec == [Idle EXCEPT !.pc = "rotate", !.n = last + 1, !.row = d]
  <2>1. last + 1 \in Requests /\ Begin(h, rec)
    BY <1>6, <1>t DEF TypeOK, Begin, Requests, StartRotate
  <2>2. rec \in Request /\ rec.pc = "rotate" /\ rec.n = last + 1 /\ rec.row = d
    BY <2>1 DEF Idle, Request, Maybe, NoRow, Row
  <2>3. last' \in 0..MaxRequests /\ handler' \in [Handlers -> Request] /\ RequestInv'
    BY <2>1, <2>2, BeginTyped
  <2> QED BY <1>6, <1>t, <2>3 DEF StartRotate, Typed, TypeOK
<1>7. ASSUME NEW h \in Handlers, ReadKey(h) PROVE Typed'
  <2>1. CASE Done(h)
    BY <1>7, <1>t, <2>1, DoneTyped DEF ReadKey, Typed, TypeOK
  <2>2. CASE handler' = [handler EXCEPT ![h].pc = "store"]
    <3> DEFINE rec == [handler[h] EXCEPT !.pc = "store"]
    <3>1. handler[h] \in Request /\ handler[h].pc = "rotate"
      BY <1>7, <1>t DEF ReadKey, TypeOK
    <3>2. /\ rec \in Request /\ rec.pc = "store" /\ rec.n = handler[h].n /\ rec.row = handler[h].row
          /\ Numbered(rec) /\ Numbered(handler[h])
      BY <3>1 DEF Request, Numbered
    <3>3. rec.row \in Requests
      BY <3>1, <3>2 DEF Typed, RequestInv
    <3>4. handler' \in [Handlers -> Request] /\ RequestInv'
      BY <1>7, <2>2, <3>1, <3>2, <3>3, OneHandler DEF ReadKey
    <3> QED BY <1>7, <1>t, <3>4 DEF ReadKey, Typed, TypeOK
  <2> QED BY <1>7, <2>1, <2>2 DEF ReadKey
<1>8. ASSUME NEW h \in Handlers, WriteKey(h) PROVE Typed'
  <2>1. handler[h].n \in Requests /\ handler[h].row \in Requests
    BY <1>8, <1>t, <1>n DEF WriteKey, Typed, RequestInv, Numbered
  <2>2. [device[handler[h].row] EXCEPT !.key = handler[h].n] \in Row
    BY <1>t, <2>1 DEF TypeOK, Row, Maybe
  <2>3. device' \in [Requests -> Row]
    BY <1>8, <1>t, <2>1, <2>2 DEF WriteKey, TypeOK
  <2>4. handler' \in [Handlers -> Request] /\ RequestInv'
    BY <1>8, DoneTyped DEF WriteKey
  <2> QED BY <1>8, <1>t, <2>3, <2>4 DEF WriteKey, Typed, TypeOK
<1>9. ASSUME NEW h \in Handlers, NEW d \in Requests, NEW t \in Targets, Reassign(h, d, t) PROVE Typed'
  <2>1. [device[d] EXCEPT !.target = t] \in Row
    BY <1>t DEF TypeOK, Row, Maybe
  <2>2. device' \in [Requests -> Row]
    BY <1>9, <1>t, <2>1 DEF Reassign, TypeOK
  <2> QED BY <1>9, <1>t, <2>2 DEF Reassign, Typed, TypeOK, RequestInv
<1>10. ASSUME NEW h \in Handlers, NEW d \in Requests, ReadRevoke(h, d) PROVE Typed'
  <2> DEFINE rec == [Idle EXCEPT !.pc = "revoke", !.row = d, !.seen = device[d]]
  <2>1. rec \in Request /\ rec.pc = "revoke" /\ rec.row = d /\ ~Numbered(rec)
    BY <1>t DEF Idle, Request, Maybe, TypeOK, Numbered
  <2>2. handler' = [handler EXCEPT ![h] = rec] /\ last' = last
    BY <1>10 DEF ReadRevoke
  <2>3. handler' \in [Handlers -> Request] /\ RequestInv'
    BY <2>1, <2>2, OneHandler
  <2> QED BY <1>10, <1>t, <2>3 DEF ReadRevoke, Typed, TypeOK
<1>13. ASSUME NEW h \in Handlers, WriteRevoke(h) PROVE Typed'
  <2>1. device' \in [Requests -> Row] /\ handler[h].row \in Requests
    BY <1>13, RevokeEffect
  <2>2. device[handler[h].row].code \in Maybe(Requests)
    BY <1>t, <2>1 DEF TypeOK, Row
  <2>3. withdrawn' \subseteq Requests
    BY <1>13, <1>t, <2>2 DEF WriteRevoke, TypeOK, Maybe
  <2>4. handler' \in [Handlers -> Request] /\ RequestInv'
    BY <1>13, DoneTyped DEF WriteRevoke
  <2> QED BY <1>13, <1>t, <2>1, <2>3, <2>4 DEF WriteRevoke, Typed, TypeOK
<1>14. ASSUME NEW h \in Handlers, ReadConfirm(h) PROVE Typed'
  <2> DEFINE rec == [handler[h] EXCEPT !.pc = "bind", !.seen = device[handler[h].row]]
  <2>1. handler[h] \in Request /\ handler[h].pc = "confirm" /\ handler[h].row \in Requests
    BY <1>14, <1>t DEF ReadConfirm, Typed, TypeOK, RequestInv
  <2>2. device[handler[h].row] \in Row
    BY <1>t, <2>1 DEF TypeOK
  <2>3. /\ rec \in Request /\ rec.pc = "bind" /\ rec.n = handler[h].n
        /\ Numbered(rec) /\ Numbered(handler[h])
        /\ rec.row = handler[h].row /\ rec.code = handler[h].code /\ rec.hw = handler[h].hw
    BY <2>1, <2>2 DEF Request, Numbered
  <2>4. rec.row \in Requests /\ rec.code \in Requests /\ rec.hw \in Hardware
    BY <2>1, <2>3 DEF Typed, RequestInv
  <2>5. handler' = [handler EXCEPT ![h] = rec] /\ last' = last
    BY <1>14 DEF ReadConfirm
  <2> HIDE DEF rec
  <2>6. handler' \in [Handlers -> Request] /\ RequestInv'
    BY <2>3, <2>4, <2>5, OneHandler
  <2> QED BY <1>14, <1>t, <2>6 DEF ReadConfirm, Typed, TypeOK
<1>11. ASSUME NEW c \in Requests, Expire(c) PROVE Typed'
  BY <1>11, <1>t DEF Expire, Typed, TypeOK, RequestInv
<1>12. CASE UNCHANGED vars
  BY <1>12, <1>t DEF vars, Typed, TypeOK, RequestInv
<1> QED BY <1>1, <1>2, <1>3, <1>4, <1>5, <1>6, <1>7, <1>8, <1>9, <1>10, <1>11, <1>12, <1>13, <1>14 DEF Next

\* Every reachable state of the registry is well typed, for any number of
\* requests handled at a time.
THEOREM TypeSafety == Spec => []TypeOK
<1>1. Typed => TypeOK
  BY DEF Typed
<1> QED BY <1>1, TypedInit, TypedStep, PTL DEF Spec

-----------------------------------------------------------------------------
(* Keys and hardware.  Every key carries the number of the request that    *)
(* mints it, so a request in progress holds a number no row and no         *)
(* hardware has seen; that is what makes a late write harmless.            *)

NumbersFresh ==
    /\ \A g, h \in Handlers :
          g # h /\ Numbered(handler[g]) /\ Numbered(handler[h]) => handler[g].n # handler[h].n
    /\ \A h \in Handlers : Numbered(handler[h]) =>
          /\ \A d \in Requests : device[d].key # handler[h].n
          /\ \A x \in Hardware : handler[h].n \notin held[x]

KeysIssued ==
    /\ \A d \in Requests : device[d].key \in Maybe(1..last)
    /\ \A x \in Hardware : held[x] \subseteq 1..last

\* A row is inserted by a request begun, which still has it to insert; the
\* other requests have a row that exists.
RowsBegun ==
    /\ \A d \in Requests : device[d].status # "none" => d \in 1..last
    /\ \A h \in Handlers :
          /\ handler[h].pc = "claim" => device[handler[h].n].status = "none"
          /\ handler[h].row # None => device[handler[h].row].status # "none"

\* The unique column, over rows of every status.
ExternalIdUnique ==
    /\ \A d, e \in Requests : d # e /\ device[d].ext # None => device[d].ext # device[e].ext
    /\ \A d \in Requests : /\ device[d].status \in {"none", "unclaimed"} => device[d].ext = None
                           /\ device[d].status = "claimed" => device[d].ext # None

\* What a confirm has read and never goes back: the row is no longer
\* unclaimed, the row has hardware.  Its own key it has not read.
SeenStays ==
    \A h \in Handlers : LET r == handler[h] IN r.pc = "bind" =>
        /\ r.seen.status \notin {"none", "unclaimed"} => device[r.row].status \notin {"none", "unclaimed"}
        /\ r.seen.ext # None => device[r.row].ext # None
        /\ r.seen.key # r.n

KeyInv == NumbersFresh /\ KeysIssued /\ RowsBegun /\ ExternalIdUnique /\ SeenStays

LEMMA KeyInit == Init => KeyInv
BY DEF Init, KeyInv, NumbersFresh, KeysIssued, RowsBegun, ExternalIdUnique, SeenStays, NoRow, Idle,
       Maybe, Numbered

\* How a request goes on: it ends, waits, keeps its number and its row, or has
\* no number; what it reads is the row as it is.
GoesOn(r, q) ==
    \/ q.pc = "idle" /\ q.row = None
    \/ q = r
    \/ /\ q.pc # "claim"
       /\ q.row # None => device[q.row].status # "none"
       /\ Numbered(q) => Numbered(r) /\ q.n = r.n
       /\ q.pc = "bind" => q.seen = device[q.row]

\* How a row goes on when no key is stored in it and no hardware named: it may
\* be inserted, and lose its key.
Loses(d) ==
    \/ /\ device'[d].key = device[d].key /\ device'[d].ext = device[d].ext
       /\ device'[d].status = device[d].status
    \/ /\ device[d].status = "none" /\ d \in 1..last
       /\ \A g \in Handlers : handler'[g].pc = "claim" => handler'[g].n # d
       /\ device'[d].key = None /\ device'[d].ext = None /\ device'[d].status = "unclaimed"
    \/ /\ device[d].status # "none"
       /\ device'[d].key \in {None, device[d].key} /\ device'[d].ext = device[d].ext
       /\ device'[d].status \in {device[d].status, "revoked"}

LEMMA StoresNothing ==
    ASSUME Typed, Typed', KeyInv, held' = held, last' = last,
           \A h \in Handlers : GoesOn(handler[h], handler'[h]),
           \A d \in Requests : Loses(d)
    PROVE  KeyInv'
<1>0. /\ None \notin 1..last /\ \A h \in Handlers : Numbered(handler[h]) => handler[h].n \in 1..last
      /\ \A h \in Handlers : handler'[h].row \in Maybe(Requests)
      /\ \A h \in Handlers : handler'[h].pc = "bind" => handler'[h].row \in Requests
      /\ \A n \in 1..last : n \in Requests
      /\ None \notin Requests
  BY DEF Typed, TypeOK, RequestInv, Requests, Request
<1>n. \A h \in Handlers : Numbered(handler'[h]) =>
          Numbered(handler[h]) /\ handler'[h].n = handler[h].n
  BY DEF GoesOn, Numbered
<1>k. \A d \in Requests : device'[d].key \in {None, device[d].key}
  BY DEF Loses
<1>s. \A d \in Requests : device[d].status # "none" => device'[d].status # "none"
  BY DEF Loses
<1>1. NumbersFresh'
  BY <1>0, <1>n, <1>k DEF KeyInv, NumbersFresh
<1>2. KeysIssued'
  BY <1>k DEF KeyInv, KeysIssued, Maybe
<1>3. RowsBegun'
  <2>1. \A d \in Requests : device'[d].status # "none" => d \in 1..last'
    BY DEF Loses, KeyInv, RowsBegun
  <2>2. ASSUME NEW h \in Handlers, handler'[h].pc = "claim" PROVE device'[handler'[h].n].status = "none"
    <3>1. handler'[h] = handler[h]
      BY <2>2 DEF GoesOn
    <3>2. device[handler'[h].n].status = "none" /\ handler'[h].n \in Requests
      BY <2>2, <3>1, <1>0 DEF KeyInv, RowsBegun, Numbered
    <3> QED BY <2>2, <3>2 DEF Loses
  <2>3. ASSUME NEW h \in Handlers, handler'[h].row # None PROVE device'[handler'[h].row].status # "none"
    <3>1. device[handler'[h].row].status # "none"
      BY <2>3 DEF GoesOn, KeyInv, RowsBegun
    <3> QED BY <1>0, <1>s, <2>3, <3>1 DEF Maybe
  <2> QED BY <2>1, <2>2, <2>3 DEF RowsBegun
<1>e. \A d \in Requests : /\ device'[d].ext = device[d].ext
                          /\ device[d].status \notin {"none", "unclaimed"} =>
                                device'[d].status \notin {"none", "unclaimed"}
                          /\ device'[d].status \in {"none", "unclaimed"} =>
                                device[d].status \in {"none", "unclaimed"}
                          /\ device'[d].status = "claimed" => device[d].status = "claimed"
  BY DEF Loses, KeyInv, ExternalIdUnique
<1>4. ExternalIdUnique'
  BY <1>e DEF KeyInv, ExternalIdUnique
<1>5. SeenStays'
  <2> SUFFICES ASSUME NEW h \in Handlers, handler'[h].pc = "bind"
               PROVE  LET q == handler'[h] IN
                      /\ q.seen.status \notin {"none", "unclaimed"} =>
                            device'[q.row].status \notin {"none", "unclaimed"}
                      /\ q.seen.ext # None => device'[q.row].ext # None
                      /\ q.seen.key # q.n
    BY DEF SeenStays
  <2>1. CASE handler'[h] = handler[h]
    BY <1>0, <1>e, <2>1 DEF KeyInv, SeenStays
  <2>2. CASE handler'[h].seen = device[handler'[h].row]
    BY <1>0, <1>e, <1>n, <2>2 DEF KeyInv, NumbersFresh, Numbered
  <2> QED BY <2>1, <2>2 DEF GoesOn
<1> QED BY <1>1, <1>2, <1>3, <1>4, <1>5 DEF KeyInv

\* A request that begins: its number is new.
LEMMA Begins ==
    ASSUME Typed, Typed', KeyInv, NEW h \in Handlers, NEW rec \in Request, Begin(h, rec),
           rec.n = last + 1, rec.pc # "bind",
           rec.row # None => device[rec.row].status # "none",
           UNCHANGED <<device, held>>
    PROVE  KeyInv'
<1>0. last \in Nat /\ last' = last + 1 /\ last + 1 \in Requests
  BY DEF Typed, TypeOK, Begin, Requests
<1>1. \A g \in Handlers : handler'[g] = IF g = h THEN rec ELSE handler[g]
  BY DEF Typed, TypeOK, Begin
<1>2. /\ last + 1 \notin 1..last /\ None \notin Requests
      /\ \A g \in Handlers : Numbered(handler[g]) => handler[g].n \in 1..last
  BY <1>0 DEF Typed, RequestInv
<1>3. \A d \in Requests : device[d].key # last + 1
  BY <1>0, <1>2 DEF KeyInv, KeysIssued, Maybe
<1>4. \A x \in Hardware : last + 1 \notin held[x]
  BY <1>2 DEF KeyInv, KeysIssued
<1>5. NumbersFresh'
  BY <1>1, <1>2, <1>3, <1>4 DEF KeyInv, NumbersFresh
<1>6. KeysIssued'
  BY <1>0 DEF KeyInv, KeysIssued, Maybe
<1>7. device[last + 1].status = "none"
  BY <1>0, <1>2 DEF KeyInv, RowsBegun
<1>8. RowsBegun'
  BY <1>0, <1>1, <1>7 DEF KeyInv, RowsBegun
<1>9. SeenStays'
  BY <1>1 DEF KeyInv, SeenStays
<1> QED BY <1>5, <1>6, <1>8, <1>9 DEF KeyInv, ExternalIdUnique

\* The confirm that is answered with a key.
LEMMA Confirms ==
    ASSUME Typed, Typed', KeyInv, NEW h \in Handlers, WriteConfirm(h), ~Taken(handler[h])
    PROVE  KeyInv'
<1> DEFINE r == handler[h]
           d == r.row
<1>1. /\ Numbered(r) /\ r.pc = "bind" /\ r.n \in 1..last /\ r.n \in Requests /\ d \in Requests
      /\ r.hw \in Hardware /\ None \notin Hardware /\ d # None
      /\ \A e \in Requests \ {d} : device'[e] = device[e]
      /\ device'[d].status = IF r.seen.status = "claimed" THEN device[d].status ELSE "claimed"
      /\ device'[d].ext = IF r.seen.ext = r.hw THEN device[d].ext ELSE r.hw
      /\ device'[d].key \in {device[d].key, r.n}
      /\ handler \in [Handlers -> Request] /\ held \in [Hardware -> SUBSET Requests]
  BY ConfirmEffect DEF Numbered, Typed, TypeOK
<1>2. Deliver(r.hw, r.n) /\ Done(h) /\ last' = last
  BY ConfirmEffect DEF Confirm
<1>5. \A g \in Handlers : handler'[g] = IF g = h THEN Idle ELSE handler[g]
  BY <1>1, <1>2 DEF Done
<1>6. \A x \in Hardware : held'[x] = held[x] \/ (x = r.hw /\ held'[x] = held[x] \cup {r.n})
  BY <1>1, <1>2 DEF Deliver
<1>i. ~Numbered(Idle) /\ Idle.pc = "idle" /\ Idle.row = None
  BY DEF Idle, Numbered
<1>7. NumbersFresh'
  <2>1. ASSUME NEW f \in Handlers, NEW g \in Handlers, f # g, Numbered(handler'[f]), Numbered(handler'[g])
        PROVE  handler'[f].n # handler'[g].n
    BY <1>5, <1>i, <2>1 DEF KeyInv, NumbersFresh
  <2>2. ASSUME NEW g \in Handlers, Numbered(handler'[g])
        PROVE  /\ \A e \in Requests : device'[e].key # handler'[g].n
               /\ \A x \in Hardware : handler'[g].n \notin held'[x]
    <3>1. g # h /\ handler'[g] = handler[g] /\ handler[g].n # r.n
      BY <1>1, <1>5, <1>i, <2>2 DEF KeyInv, NumbersFresh
    <3>2. /\ \A e \in Requests : device[e].key # handler[g].n
          /\ \A x \in Hardware : handler[g].n \notin held[x]
      BY <2>2, <3>1 DEF KeyInv, NumbersFresh
    <3> QED BY <1>1, <1>6, <3>1, <3>2
  <2> QED BY <2>1, <2>2 DEF NumbersFresh
<1>8. KeysIssued'
  BY <1>1, <1>2, <1>6 DEF KeyInv, KeysIssued, Maybe
<1>s. /\ device[d].status # "none" /\ device'[d].status \notin {"none", "unclaimed"}
      /\ device'[d].ext # None
  <2>1. device[d].status # "none"
    BY <1>1 DEF KeyInv, RowsBegun
  <2>2. device'[d].status \notin {"none", "unclaimed"}
    BY <1>1 DEF KeyInv, SeenStays
  <2>3. device'[d].ext # None
    <3>1. CASE r.seen.ext = r.hw
      <4>1. r.seen.ext # None
        BY <1>1, <3>1
      <4> QED BY <1>1, <3>1, <4>1 DEF KeyInv, SeenStays
    <3>2. CASE r.seen.ext # r.hw
      BY <1>1, <3>2
    <3> QED BY <3>1, <3>2
  <2> QED BY <2>1, <2>2, <2>3
<1>9. \A e \in Requests \ {d} : device'[e].ext # device'[d].ext \/ device'[e].ext = None
  <2>1. CASE r.seen.ext = r.hw
    BY <1>1, <2>1 DEF KeyInv, ExternalIdUnique
  <2>2. CASE r.seen.ext # r.hw
    <3>1. \A e \in Devices \ {d} : device[e].ext # r.hw
      BY <2>2 DEF Taken
    <3>2. \A e \in Requests \ {d} : device[e].ext = r.hw => e \in Devices
      BY <1>1 DEF KeyInv, ExternalIdUnique, Devices
    <3> QED BY <1>1, <2>2, <3>1, <3>2
  <2> QED BY <2>1, <2>2
<1>10. ExternalIdUnique'
  BY <1>1, <1>s, <1>9 DEF KeyInv, ExternalIdUnique
<1>11. RowsBegun'
  <2>1. \A e \in Requests : device'[e].status # "none" => e \in 1..last'
    BY <1>1, <1>2, <1>s DEF KeyInv, RowsBegun
  <2>2. ASSUME NEW g \in Handlers, handler'[g].pc = "claim" PROVE device'[handler'[g].n].status = "none"
    <3>1. g # h /\ handler'[g] = handler[g] /\ device[handler[g].n].status = "none"
      BY <1>5, <1>i, <2>2 DEF KeyInv, RowsBegun
    <3>2. handler[g].n \in Requests
      BY <2>2, <3>1 DEF Typed, TypeOK, RequestInv, Numbered, Requests
    <3> QED BY <1>1, <1>s, <3>1, <3>2
  <2>3. ASSUME NEW g \in Handlers, handler'[g].row # None PROVE device'[handler'[g].row].status # "none"
    <3>1. g # h /\ handler'[g] = handler[g] /\ device[handler[g].row].status # "none"
      BY <1>5, <1>i, <2>3 DEF KeyInv, RowsBegun
    <3>2. handler[g].row \in Requests
      BY <1>1, <2>3, <3>1 DEF Request, Maybe
    <3> QED BY <1>1, <1>s, <3>1, <3>2
  <2> QED BY <2>1, <2>2, <2>3 DEF RowsBegun
<1>12. SeenStays'
  <2> SUFFICES ASSUME NEW g \in Handlers, handler'[g].pc = "bind"
               PROVE  LET q == handler'[g] IN
                      /\ q.seen.status \notin {"none", "unclaimed"} =>
                            device'[q.row].status \notin {"none", "unclaimed"}
                      /\ q.seen.ext # None => device'[q.row].ext # None
                      /\ q.seen.key # q.n
    BY DEF SeenStays
  <2>1. handler'[g] = handler[g] /\ handler[g].row \in Requests
    BY <1>5, <1>i DEF Typed, RequestInv
  <2>2. CASE handler[g].row = d
    BY <1>s, <2>1, <2>2 DEF KeyInv, SeenStays
  <2>3. CASE handler[g].row # d
    BY <1>1, <2>1, <2>3 DEF KeyInv, SeenStays
  <2> QED BY <2>2, <2>3
<1> QED BY <1>7, <1>8, <1>10, <1>11, <1>12 DEF KeyInv

\* The rotated key is given to the user, never to hardware.
LEMMA Rotates ==
    ASSUME Typed, Typed', KeyInv, NEW h \in Handlers, WriteKey(h)
    PROVE  KeyInv'
<1> DEFINE r == handler[h]
<1>1. /\ Numbered(r) /\ r.n \in 1..last /\ r.row \in Requests
      /\ device \in [Requests -> Row] /\ handler \in [Handlers -> Request]
  BY DEF WriteKey, Typed, TypeOK, RequestInv, Numbered
<1>2. device' = [device EXCEPT ![r.row].key = r.n] /\ Done(h) /\ last' = last /\ held' = held
  BY DEF WriteKey
<1>3. \A d \in Requests : /\ device'[d].ext = device[d].ext /\ device'[d].status = device[d].status
                          /\ device'[d].key = IF d = r.row THEN r.n ELSE device[d].key
  BY <1>1, <1>2 DEF Row
<1>4. \A g \in Handlers : handler'[g] = IF g = h THEN Idle ELSE handler[g]
  BY <1>1, <1>2 DEF Done
<1>i. ~Numbered(Idle) /\ Idle.pc = "idle" /\ Idle.row = None
  BY DEF Idle, Numbered
<1>5. NumbersFresh'
  BY <1>1, <1>2, <1>3, <1>4, <1>i DEF KeyInv, NumbersFresh
<1>6. KeysIssued'
  BY <1>1, <1>2, <1>3 DEF KeyInv, KeysIssued, Maybe
<1>7. ExternalIdUnique'
  BY <1>3 DEF KeyInv, ExternalIdUnique
<1>t. \A g \in Handlers : /\ handler[g].row \in Maybe(Requests)
                          /\ handler[g].pc = "bind" => handler[g].row \in Requests
                          /\ handler[g].pc = "claim" => handler[g].n \in Requests
  BY <1>1 DEF Typed, TypeOK, RequestInv, Numbered, Requests, Request
<1>8. RowsBegun'
  BY <1>2, <1>3, <1>4, <1>i, <1>t DEF KeyInv, RowsBegun, Maybe
<1>9. SeenStays'
  BY <1>3, <1>4, <1>i, <1>t DEF KeyInv, SeenStays
<1> QED BY <1>5, <1>6, <1>7, <1>8, <1>9 DEF KeyInv

LEMMA KeyStep == Typed /\ KeyInv /\ [Next]_vars => KeyInv'
<1> SUFFICES ASSUME Typed, KeyInv, [Next]_vars PROVE KeyInv'
  OBVIOUS
<1>t. device \in [Requests -> Row] /\ handler \in [Handlers -> Request]
  BY DEF Typed, TypeOK
<1>p. Typed'
  BY TypedStep
<1>d. ASSUME NEW h \in Handlers, Done(h)
      PROVE  \A g \in Handlers : GoesOn(handler[g], handler'[g])
  BY <1>t, <1>d DEF Done, Idle, GoesOn
<1>u. ASSUME UNCHANGED <<handler, last, held>>, \A d \in Requests : Loses(d)
      PROVE  KeyInv'
  BY <1>p, <1>u, StoresNothing DEF GoesOn
<1>s. device' = device => \A d \in Requests : Loses(d)
  BY DEF Loses
<1>1. ASSUME NEW h \in Handlers, NEW t \in Targets, ReadClaim(h, t) PROVE KeyInv'
  <2>1. PICK d \in IF Reusable(t) = {} THEN {None} ELSE Reusable(t) :
            Begin(h, [Idle EXCEPT !.pc = "claim", !.n = last + 1, !.target = t, !.row = d])
    BY <1>1 DEF ReadClaim
  <2> DEFINE rec == [Idle EXCEPT !.pc = "claim", !.n = last + 1, !.target = t, !.row = d]
  <2>2. /\ d \in Maybe(Requests) /\ last + 1 \in Requests
        /\ d # None => device[d].status # "none"
    BY <2>1 DEF Reusable, Devices, Maybe, Typed, TypeOK, Begin, Requests
  <2>3. rec \in Request /\ rec.n = last + 1 /\ rec.pc = "claim" /\ rec.row = d
    BY <2>2 DEF Idle, Request, Maybe, NoRow, Row
  <2> QED BY <1>1, <1>p, <2>1, <2>2, <2>3, Begins DEF ReadClaim
<1>2. ASSUME NEW h \in Handlers, WriteClaim(h) PROVE KeyInv'
  <2> DEFINE r == handler[h]
  <2>1. /\ r.n \in Requests /\ r.n \in 1..last /\ r.row \in Maybe(Requests)
        /\ Numbered(r) /\ device[r.n].status = "none"
    BY <1>2, <1>t DEF WriteClaim, Typed, TypeOK, RequestInv, Request, Requests, Numbered, KeyInv, RowsBegun
  <2>2. /\ \A g \in Handlers : GoesOn(handler[g], handler'[g])
        /\ held' = held /\ last' = last /\ Done(h)
    BY <1>2, <1>d DEF WriteClaim
  <2>3. CASE r.row = None
    <3> DEFINE new == [NoRow EXCEPT !.status = "unclaimed", !.target = r.target, !.code = r.n]
    <3>1. device' = [device EXCEPT ![r.n] = new]
      BY <1>2, <2>3 DEF WriteClaim
    <3>2. new.key = None /\ new.ext = None /\ new.status = "unclaimed"
      BY DEF NoRow
    <3>3. \A g \in Handlers : handler'[g].pc = "claim" => handler'[g].n # r.n
      <4>1. \A g \in Handlers : handler'[g] = IF g = h THEN Idle ELSE handler[g]
        BY <1>t, <2>2 DEF Done
      <4>2. \A g \in Handlers : g # h /\ handler[g].pc = "claim" => handler[g].n # r.n
        BY <2>1 DEF KeyInv, NumbersFresh, Numbered
      <4> QED BY <4>1, <4>2 DEF Idle
    <3> HIDE DEF new
    <3>4. \A d \in Requests : Loses(d)
      BY <1>t, <2>1, <3>1, <3>2, <3>3 DEF Loses
    <3> QED BY <1>p, <2>2, <3>4, StoresNothing
  <2>4. CASE r.row # None
    <3>1. r.row \in Requests /\ device' = [device EXCEPT ![r.row].code = r.n]
      BY <1>2, <2>1, <2>4 DEF WriteClaim, Maybe
    <3>2. \A d \in Requests : Loses(d)
      BY <1>t, <3>1 DEF Row, Loses
    <3> QED BY <1>p, <2>2, <3>2, StoresNothing
  <2> QED BY <2>3, <2>4
<1>3. ASSUME NEW h \in Handlers, NEW x \in Hardware, NEW c \in Requests, FindCode(h, x, c) PROVE KeyInv'
  <2>1. CASE UNCHANGED <<handler, last>> /\ Refuse
    BY <1>u, <1>s, <2>1 DEF Refuse
  <2>2. ASSUME NEW d \in Devices,
               Begin(h, [Idle EXCEPT !.pc = "check", !.n = last + 1, !.row = d, !.code = c, !.hw = x]),
               UNCHANGED <<device, used, held>>
        PROVE  KeyInv'
    <3> DEFINE rec == [Idle EXCEPT !.pc = "check", !.n = last + 1, !.row = d, !.code = c, !.hw = x]
    <3>1. last + 1 \in Requests /\ d \in Requests /\ device[d].status # "none"
      BY <2>2 DEF Typed, TypeOK, Begin, Requests, Devices
    <3>2. rec \in Request /\ rec.n = last + 1 /\ rec.pc = "check" /\ rec.row = d
      BY <3>1 DEF Idle, Request, Maybe, NoRow, Row
    <3> QED BY <1>p, <2>2, <3>1, <3>2, Begins
  <2>3. CASE ~(UNCHANGED <<handler, last>> /\ Refuse)
    BY <1>3, <2>2, <2>3 DEF FindCode
  <2> QED BY <2>1, <2>3
<1>4. ASSUME NEW h \in Handlers, CheckHardware(h) PROVE KeyInv'
  <2>1. UNCHANGED <<device, held, last>>
    BY <1>4 DEF CheckHardware, Refuse
  <2>2. CASE Done(h)
    BY <1>d, <1>p, <1>s, <2>1, <2>2, StoresNothing
  <2>3. CASE handler' = [handler EXCEPT ![h].pc = "confirm"]
    <3>1. \A g \in Handlers : GoesOn(handler[g], handler'[g])
      <4>1. handler[h].pc = "check" /\ handler[h] \in Request
        BY <1>4, <1>t DEF CheckHardware
      <4>2. /\ handler'[h].pc = "confirm" /\ handler'[h].n = handler[h].n
            /\ handler'[h].row = handler[h].row
        BY <1>t, <2>3 DEF Request
      <4>3. handler[h].row # None => device[handler[h].row].status # "none"
        BY DEF KeyInv, RowsBegun
      <4> QED BY <1>t, <2>3, <4>1, <4>2, <4>3 DEF GoesOn, Numbered
    <3> QED BY <1>p, <1>s, <2>1, <3>1, StoresNothing
  <2> QED BY <1>4, <2>2, <2>3 DEF CheckHardware
<1>5. ASSUME NEW h \in Handlers, WriteConfirm(h) PROVE KeyInv'
  <2>1. CASE Taken(handler[h])
    <3>1. Refuse /\ Done(h) /\ last' = last
      BY <1>5, <2>1 DEF WriteConfirm
    <3> QED BY <1>d, <1>p, <1>s, <3>1, StoresNothing DEF Refuse
  <2> QED BY <1>5, <1>p, <2>1, Confirms
<1>6. ASSUME NEW h \in Handlers, NEW d \in Requests, StartRotate(h, d) PROVE KeyInv'
  <2> DEFINE rec == [Idle EXCEPT !.pc = "rotate", !.n = last + 1, !.row = d]
  <2>1. last + 1 \in Requests /\ Begin(h, rec) /\ device[d].status # "none"
    BY <1>6 DEF Typed, TypeOK, Begin, Requests, StartRotate, Devices
  <2>2. rec \in Request /\ rec.n = last + 1 /\ rec.pc = "rotate" /\ rec.row = d
    BY <2>1 DEF Idle, Request, Maybe, NoRow, Row
  <2> QED BY <1>6, <1>p, <2>1, <2>2, Begins DEF StartRotate
<1>7. ASSUME NEW h \in Handlers, ReadKey(h) PROVE KeyInv'
  <2>1. UNCHANGED <<device, held, last>>
    BY <1>7 DEF ReadKey
  <2>2. CASE Done(h)
    BY <1>d, <1>p, <1>s, <2>1, <2>2, StoresNothing
  <2>3. CASE handler' = [handler EXCEPT ![h].pc = "store"]
    <3>1. \A g \in Handlers : GoesOn(handler[g], handler'[g])
      <4>1. handler[h].pc = "rotate" /\ handler[h] \in Request
        BY <1>7, <1>t DEF ReadKey
      <4>2. /\ handler'[h].pc = "store" /\ handler'[h].n = handler[h].n
            /\ handler'[h].row = handler[h].row
        BY <1>t, <2>3 DEF Request
      <4>3. handler[h].row # None => device[handler[h].row].status # "none"
        BY DEF KeyInv, RowsBegun
      <4> QED BY <1>t, <2>3, <4>1, <4>2, <4>3 DEF GoesOn, Numbered
    <3> QED BY <1>p, <1>s, <2>1, <3>1, StoresNothing
  <2> QED BY <1>7, <2>2, <2>3 DEF ReadKey
<1>8. ASSUME NEW h \in Handlers, WriteKey(h) PROVE KeyInv'
  BY <1>8, <1>p, Rotates
<1>9. ASSUME NEW h \in Handlers, NEW d \in Requests, NEW t \in Targets, Reassign(h, d, t) PROVE KeyInv'
  <2>1. \A e \in Requests : Loses(e)
    BY <1>9, <1>t DEF Reassign, Row, Loses
  <2> QED BY <1>9, <1>u, <2>1 DEF Reassign
<1>10. ASSUME NEW h \in Handlers, NEW d \in Requests, ReadRevoke(h, d) PROVE KeyInv'
  <2> DEFINE rec == [Idle EXCEPT !.pc = "revoke", !.row = d, !.seen = device[d]]
  <2>1. rec.pc = "revoke" /\ rec.row = d /\ ~Numbered(rec) /\ device[d].status # "none"
    BY <1>10 DEF Idle, Numbered, ReadRevoke, Devices
  <2>2. \A g \in Handlers : handler'[g] = IF g = h THEN rec ELSE handler[g]
    BY <1>10, <1>t DEF ReadRevoke
  <2> HIDE DEF rec
  <2>3. \A g \in Handlers : GoesOn(handler[g], handler'[g])
    BY <2>1, <2>2 DEF GoesOn
  <2> QED BY <1>10, <1>p, <1>s, <2>3, StoresNothing DEF ReadRevoke
<1>11. ASSUME NEW c \in Requests, Expire(c) PROVE KeyInv'
  BY <1>11, <1>u, <1>s DEF Expire
<1>12. CASE UNCHANGED vars
  BY <1>12, <1>u, <1>s DEF vars
<1>13. ASSUME NEW h \in Handlers, WriteRevoke(h) PROVE KeyInv'
  <2>1. \A d \in Requests : Loses(d)
    <3>1. handler[h].row # None => device[handler[h].row].status # "none"
      BY DEF KeyInv, RowsBegun
    <3>2. /\ handler[h].row \in Requests
          /\ \A e \in Requests \ {handler[h].row} : device'[e] = device[e]
          /\ device'[handler[h].row].status \in {device[handler[h].row].status, "revoked"}
          /\ device'[handler[h].row].ext = device[handler[h].row].ext
          /\ device'[handler[h].row].key \in {None, device[handler[h].row].key}
      BY <1>13, RevokeEffect
    <3>3. None \notin Requests
      OBVIOUS
    <3> QED BY <3>1, <3>2, <3>3 DEF Loses
  <2>2. held' = held /\ last' = last /\ Done(h)
    BY <1>13 DEF WriteRevoke
  <2> QED BY <1>d, <1>p, <2>1, <2>2, StoresNothing
<1>14. ASSUME NEW h \in Handlers, ReadConfirm(h) PROVE KeyInv'
  <2>1. handler[h].pc = "confirm" /\ handler[h] \in Request /\ UNCHANGED <<device, held, last>>
    BY <1>14, <1>t DEF ReadConfirm
  <2>2. /\ handler'[h].pc = "bind" /\ handler'[h].n = handler[h].n
        /\ handler'[h].row = handler[h].row /\ handler'[h].seen = device[handler[h].row]
        /\ \A g \in Handlers \ {h} : handler'[g] = handler[g]
    BY <1>14, <1>t DEF ReadConfirm, Request
  <2>3. handler[h].row # None => device[handler[h].row].status # "none"
    BY DEF KeyInv, RowsBegun
  <2>4. \A g \in Handlers : GoesOn(handler[g], handler'[g])
    BY <2>1, <2>2, <2>3 DEF GoesOn, Numbered
  <2> QED BY <1>p, <1>s, <2>1, <2>4, StoresNothing
<1> QED BY <1>1, <1>2, <1>3, <1>4, <1>5, <1>6, <1>7, <1>8, <1>9, <1>10, <1>11, <1>12, <1>13, <1>14 DEF Next

\* Hardware is never claimed by two rows, although every confirm decides it
\* from an earlier read: no interleaving of confirms and revokes does it.
THEOREM HardwareClaimedOnce == Spec => []ExternalIdOnce
<1>1. KeyInv => ExternalIdOnce
  BY DEF KeyInv, ExternalIdUnique, ExternalIdOnce, Devices
<1> QED BY <1>1, TypedInit, TypedStep, KeyInit, KeyStep, PTL DEF Spec

-----------------------------------------------------------------------------
(* Keys and hardware until three confirms of one code overlap.  A row that *)
(* has hardware is not found again, so at most one other confirm of it is  *)
(* still under way: what that one reads is what its commit meets.          *)

FewConfirm(d) ==
    /\ ~Throng(d)
    /\ device[d].ext # None => \A g, h \in Confirming(d) : g = h

SeenMet(d) ==
    \A h \in Confirming(d) : handler[h].pc = "bind" /\ handler[h].seen.ext # None
                                => device[d].ext = handler[h].seen.ext

KeyRows(d) ==
    \A x \in Hardware : \A k \in held[x] : device[d].key = k => device[d].ext = x

ThrongInv == \A d \in Requests \ thronged : FewConfirm(d) /\ SeenMet(d) /\ KeyRows(d)

LEMMA ThrongInit == MCInit => ThrongInv
BY DEF MCInit, Init, ThrongInv, FewConfirm, SeenMet, KeyRows, Throng, Confirming, NoRow, Idle

\* A step that commits no confirm of this row.
Quiet(d) ==
    /\ device'[d].ext = device[d].ext
    /\ \A x \in Hardware : \A k \in held'[x] : device'[d].key = k => k \in held[x] /\ device[d].key = k
    /\ device[d].ext # None => Confirming(d)' \subseteq Confirming(d)
    /\ \A h \in Confirming(d)' : handler'[h].pc = "bind" =>
          handler'[h].seen = device[d] \/ (h \in Confirming(d) /\ handler'[h] = handler[h])

LEMMA QuietKeeps ==
    ASSUME NEW d \in Requests, FewConfirm(d), SeenMet(d), KeyRows(d), Quiet(d), ~(Throng(d)')
    PROVE  FewConfirm(d)' /\ SeenMet(d)' /\ KeyRows(d)'
<1>1. FewConfirm(d)'
  BY DEF FewConfirm, Quiet
<1>2. SeenMet(d)'
  BY DEF SeenMet, Quiet
<1>3. KeyRows(d)'
  BY DEF KeyRows, Quiet
<1> QED BY <1>1, <1>2, <1>3

LEMMA QuietStep ==
    ASSUME Typed, KeyInv, [Next]_vars, NEW d \in Requests,
           \A h \in Handlers : ~(WriteConfirm(h) /\ ~Taken(handler[h]) /\ handler[h].row = d)
    PROVE  Quiet(d)
<1>t. /\ device \in [Requests -> Row] /\ handler \in [Handlers -> Request]
      /\ held \in [Hardware -> SUBSET Requests] /\ None \notin Requests
  BY DEF Typed, TypeOK
<1>n. \A x \in Hardware : None \notin held[x]
  BY <1>t
<1>q. ASSUME device'[d].ext = device[d].ext, device'[d].key \in {None, device[d].key}, held' = held,
             device[d].ext # None => Confirming(d)' \subseteq Confirming(d),
             \A h \in Confirming(d)' : handler'[h].pc = "bind" =>
                handler'[h].seen = device[d] \/ (h \in Confirming(d) /\ handler'[h] = handler[h])
      PROVE  Quiet(d)
  BY <1>n, <1>q DEF Quiet
<1>s. device'[d] = device[d] =>
          device'[d].ext = device[d].ext /\ device'[d].key \in {None, device[d].key}
  OBVIOUS
<1>u. handler' = handler => /\ Confirming(d)' = Confirming(d)
                            /\ \A h \in Confirming(d)' : h \in Confirming(d) /\ handler'[h] = handler[h]
  BY DEF Confirming
<1>d. ASSUME NEW h \in Handlers, Done(h)
      PROVE  \A g \in Confirming(d)' : g \in Confirming(d) /\ handler'[g] = handler[g]
  BY <1>d, <1>t DEF Done, Confirming, Idle
<1>b. ASSUME NEW h \in Handlers, NEW rec \in Request, handler' = [handler EXCEPT ![h] = rec],
             rec.pc \notin {"check", "confirm", "bind"} \/ rec.row # d
      PROVE  \A g \in Confirming(d)' : g \in Confirming(d) /\ handler'[g] = handler[g]
  BY <1>b, <1>t DEF Confirming
<1>1. ASSUME NEW h \in Handlers, NEW t \in Targets, ReadClaim(h, t) PROVE Quiet(d)
  <2>1. PICK e \in IF Reusable(t) = {} THEN {None} ELSE Reusable(t) :
            Begin(h, [Idle EXCEPT !.pc = "claim", !.n = last + 1, !.target = t, !.row = e])
    BY <1>1 DEF ReadClaim
  <2> DEFINE rec == [Idle EXCEPT !.pc = "claim", !.n = last + 1, !.target = t, !.row = e]
  <2>2. e \in Maybe(Requests) /\ last + 1 \in Requests
    BY <2>1 DEF Reusable, Devices, Maybe, Typed, TypeOK, Begin, Requests
  <2>3. rec \in Request /\ rec.pc = "claim" /\ handler' = [handler EXCEPT ![h] = rec]
    BY <2>1, <2>2 DEF Idle, Request, Maybe, NoRow, Row, Begin
  <2> HIDE DEF rec
  <2>4. \A g \in Confirming(d)' : g \in Confirming(d) /\ handler'[g] = handler[g]
    BY <1>b, <2>3
  <2> QED BY <1>1, <1>q, <1>s, <2>4 DEF ReadClaim
<1>2. ASSUME NEW h \in Handlers, WriteClaim(h) PROVE Quiet(d)
  <2> DEFINE r == handler[h]
  <2>1. /\ r.n \in Requests /\ r.row \in Maybe(Requests) /\ device[r.n].status = "none"
        /\ held' = held /\ Done(h)
    BY <1>2, <1>t DEF WriteClaim, Typed, TypeOK, RequestInv, Request, Requests, Numbered, KeyInv, RowsBegun
  <2>2. device'[d].ext = device[d].ext /\ device'[d].key \in {None, device[d].key}
    <3>1. CASE r.row = None
      <4>1. device' = [device EXCEPT ![r.n] = [NoRow EXCEPT
                            !.status = "unclaimed", !.target = r.target, !.code = r.n]]
        BY <1>2, <3>1 DEF WriteClaim
      <4>2. device[r.n].ext = None
        BY <2>1 DEF KeyInv, ExternalIdUnique
      <4>3. CASE d = r.n
        BY <1>t, <4>1, <4>2, <4>3 DEF NoRow
      <4>4. CASE d # r.n
        BY <1>t, <4>1, <4>4
      <4> QED BY <4>3, <4>4
    <3>2. CASE r.row # None
      <4>1. r.row \in Requests /\ device' = [device EXCEPT ![r.row].code = r.n]
        BY <1>2, <2>1, <3>2 DEF WriteClaim, Maybe
      <4> QED BY <1>t, <4>1 DEF Row
    <3> QED BY <3>1, <3>2
  <2> QED BY <1>d, <1>q, <2>1, <2>2
<1>3. ASSUME NEW h \in Handlers, NEW x \in Hardware, NEW c \in Requests, FindCode(h, x, c) PROVE Quiet(d)
  <2>1. CASE UNCHANGED <<handler, last>> /\ Refuse
    BY <1>q, <1>s, <1>u, <2>1 DEF Refuse
  <2>2. ASSUME NEW e \in Devices, device[e].status = "unclaimed",
               Begin(h, [Idle EXCEPT !.pc = "check", !.n = last + 1, !.row = e, !.code = c, !.hw = x]),
               UNCHANGED <<device, used, held>>
        PROVE  Quiet(d)
    <3> DEFINE rec == [Idle EXCEPT !.pc = "check", !.n = last + 1, !.row = e, !.code = c, !.hw = x]
    <3>1. last + 1 \in Requests /\ e \in Requests
      BY <2>2 DEF Typed, TypeOK, Begin, Requests, Devices
    <3>2. rec \in Request /\ rec.pc = "check" /\ rec.row = e /\ handler' = [handler EXCEPT ![h] = rec]
      BY <2>2, <3>1 DEF Idle, Request, Maybe, NoRow, Row, Begin
    <3> HIDE DEF rec
    <3>3. CASE e = d
      <4>1. device[d].ext = None
        BY <2>2, <3>3 DEF KeyInv, ExternalIdUnique
      <4>2. \A g \in Confirming(d)' : handler'[g].pc = "bind" =>
                g \in Confirming(d) /\ handler'[g] = handler[g]
        BY <1>t, <3>2 DEF Confirming
      <4> QED BY <1>q, <1>s, <2>2, <4>1, <4>2
    <3>4. CASE e # d
      <4>1. \A g \in Confirming(d)' : g \in Confirming(d) /\ handler'[g] = handler[g]
        BY <1>b, <3>2, <3>4
      <4> QED BY <1>q, <1>s, <2>2, <4>1
    <3> QED BY <3>3, <3>4
  <2>3. CASE ~(UNCHANGED <<handler, last>> /\ Refuse)
    BY <1>3, <2>2, <2>3 DEF FindCode
  <2> QED BY <2>1, <2>3
<1>4. ASSUME NEW h \in Handlers, CheckHardware(h) PROVE Quiet(d)
  <2>1. UNCHANGED <<device, held>>
    BY <1>4 DEF CheckHardware, Refuse
  <2>2. CASE Done(h)
    BY <1>d, <1>q, <1>s, <2>1, <2>2
  <2>3. CASE handler' = [handler EXCEPT ![h].pc = "confirm"]
    <3>1. handler[h].pc = "check" /\ handler[h] \in Request
      BY <1>4, <1>t DEF CheckHardware
    <3>2. handler'[h].pc = "confirm" /\ handler'[h].row = handler[h].row
      BY <1>t, <2>3 DEF Request
    <3>3. /\ Confirming(d)' \subseteq Confirming(d)
          /\ \A g \in Confirming(d)' : handler'[g].pc = "bind" => handler'[g] = handler[g]
      BY <1>t, <2>3, <3>1, <3>2 DEF Confirming
    <3> QED BY <1>q, <1>s, <2>1, <3>3
  <2> QED BY <1>4, <2>2, <2>3 DEF CheckHardware
<1>5. ASSUME NEW h \in Handlers, WriteConfirm(h) PROVE Quiet(d)
  <2>1. CASE Taken(handler[h])
    <3>1. Refuse /\ Done(h)
      BY <1>5, <2>1 DEF WriteConfirm
    <3> QED BY <1>d, <1>q, <1>s, <3>1 DEF Refuse
  <2>2. CASE ~Taken(handler[h])
    <3> DEFINE r == handler[h]
    <3>1. /\ r.pc = "bind" /\ r.row # d /\ r.hw \in Hardware
          /\ Confirm(h, Confirmed(r)) /\ device'[d] = device[d]
      BY <1>5, <2>2, ConfirmEffect
    <3>2. device[d].key # r.n
      BY <3>1 DEF KeyInv, NumbersFresh, Numbered
    <3>3. \A x \in Hardware : held'[x] = held[x] \/ held'[x] = held[x] \cup {r.n}
      BY <1>t, <3>1 DEF Confirm, Deliver
    <3>4. \A g \in Confirming(d)' : g \in Confirming(d) /\ handler'[g] = handler[g]
      BY <1>d, <3>1 DEF Confirm
    <3> QED BY <3>1, <3>2, <3>3, <3>4 DEF Quiet
  <2> QED BY <2>1, <2>2
<1>6. ASSUME NEW h \in Handlers, NEW e \in Requests, StartRotate(h, e) PROVE Quiet(d)
  <2> DEFINE rec == [Idle EXCEPT !.pc = "rotate", !.n = last + 1, !.row = e]
  <2>1. last + 1 \in Requests
    BY <1>6 DEF Typed, TypeOK, Begin, Requests, StartRotate
  <2>2. rec \in Request /\ rec.pc = "rotate" /\ handler' = [handler EXCEPT ![h] = rec]
    BY <1>6, <2>1 DEF Idle, Request, Maybe, NoRow, Row, StartRotate, Begin
  <2> HIDE DEF rec
  <2>3. \A g \in Confirming(d)' : g \in Confirming(d) /\ handler'[g] = handler[g]
    BY <1>b, <2>2
  <2> QED BY <1>6, <1>q, <1>s, <2>3 DEF StartRotate
<1>7. ASSUME NEW h \in Handlers, ReadKey(h) PROVE Quiet(d)
  <2>1. UNCHANGED <<device, held>>
    BY <1>7 DEF ReadKey
  <2>2. CASE Done(h)
    BY <1>d, <1>q, <1>s, <2>1, <2>2
  <2>3. CASE handler' = [handler EXCEPT ![h].pc = "store"]
    <3>1. handler'[h].pc = "store"
      BY <1>t, <2>3 DEF Request
    <3>2. \A g \in Confirming(d)' : g \in Confirming(d) /\ handler'[g] = handler[g]
      BY <1>t, <2>3, <3>1 DEF Confirming
    <3> QED BY <1>q, <1>s, <2>1, <3>2
  <2> QED BY <1>7, <2>2, <2>3 DEF ReadKey
<1>8. ASSUME NEW h \in Handlers, WriteKey(h) PROVE Quiet(d)
  <2> DEFINE r == handler[h]
  <2>1. Numbered(r) /\ r.row \in Requests
    BY <1>8, <1>t DEF WriteKey, Typed, RequestInv, Numbered
  <2>2. /\ device' = [device EXCEPT ![r.row].key = r.n] /\ Done(h) /\ held' = held
        /\ \A x \in Hardware : r.n \notin held[x]
    BY <1>8, <2>1 DEF WriteKey, KeyInv, NumbersFresh
  <2>3. device'[d].ext = device[d].ext /\ device'[d].key \in {device[d].key, r.n}
    BY <1>t, <2>1, <2>2 DEF Row
  <2>4. \A g \in Confirming(d)' : g \in Confirming(d) /\ handler'[g] = handler[g]
    BY <1>d, <2>2
  <2> QED BY <2>2, <2>3, <2>4 DEF Quiet
<1>9. ASSUME NEW h \in Handlers, NEW e \in Requests, NEW t \in Targets, Reassign(h, e, t) PROVE Quiet(d)
  <2>1. device'[d].ext = device[d].ext /\ device'[d].key = device[d].key
    BY <1>9, <1>t DEF Reassign, Row
  <2> QED BY <1>9, <1>q, <1>u, <2>1 DEF Reassign
<1>10. ASSUME NEW h \in Handlers, NEW e \in Requests, ReadRevoke(h, e) PROVE Quiet(d)
  <2> DEFINE rec == [Idle EXCEPT !.pc = "revoke", !.row = e, !.seen = device[e]]
  <2>1. rec \in Request /\ rec.pc = "revoke" /\ handler' = [handler EXCEPT ![h] = rec]
    BY <1>10, <1>t DEF Idle, Request, Maybe, ReadRevoke
  <2> HIDE DEF rec
  <2>2. \A g \in Confirming(d)' : g \in Confirming(d) /\ handler'[g] = handler[g]
    BY <1>b, <2>1
  <2> QED BY <1>10, <1>q, <1>s, <2>2 DEF ReadRevoke
<1>11. ASSUME NEW c \in Requests, Expire(c) PROVE Quiet(d)
  BY <1>11, <1>q, <1>s, <1>u DEF Expire
<1>12. CASE UNCHANGED vars
  BY <1>12, <1>q, <1>s, <1>u DEF vars
<1>13. ASSUME NEW h \in Handlers, WriteRevoke(h) PROVE Quiet(d)
  <2>1. device'[d].ext = device[d].ext /\ device'[d].key \in {None, device[d].key}
    BY <1>13, RevokeEffect
  <2>2. held' = held /\ Done(h)
    BY <1>13 DEF WriteRevoke
  <2> QED BY <1>d, <1>q, <2>1, <2>2
<1>14. ASSUME NEW h \in Handlers, ReadConfirm(h) PROVE Quiet(d)
  <2>1. handler[h].pc = "confirm" /\ handler[h] \in Request /\ UNCHANGED <<device, held>>
    BY <1>14, <1>t DEF ReadConfirm
  <2>2. /\ handler'[h].pc = "bind" /\ handler'[h].row = handler[h].row
        /\ handler'[h].seen = device[handler[h].row]
        /\ \A g \in Handlers \ {h} : handler'[g] = handler[g]
    BY <1>14, <1>t DEF ReadConfirm, Request
  <2>3. /\ Confirming(d)' \subseteq Confirming(d)
        /\ \A g \in Confirming(d)' : handler'[g].seen = device[d] \/ handler'[g] = handler[g]
    BY <2>1, <2>2 DEF Confirming
  <2> QED BY <1>q, <1>s, <2>1, <2>3
<1> QED BY <1>1, <1>2, <1>3, <1>4, <1>5, <1>6, <1>7, <1>8, <1>9, <1>10, <1>11, <1>12, <1>13, <1>14 DEF Next

\* The commit: no third confirm is under way, so the one that is left, if any,
\* has read the row before it had hardware.
LEMMA CommitKeeps ==
    ASSUME Typed, KeyInv, NEW d \in Requests, FewConfirm(d), SeenMet(d), KeyRows(d),
           NEW h \in Handlers, WriteConfirm(h), ~Taken(handler[h]), handler[h].row = d
    PROVE  FewConfirm(d)' /\ SeenMet(d)' /\ KeyRows(d)'
<1> DEFINE r == handler[h]
<1>1. /\ r.pc = "bind" /\ r.n \in Requests /\ d \in Requests /\ r.hw \in Hardware
      /\ r.seen \in Row /\ Confirm(h, Confirmed(r))
      /\ device'[d].ext = IF r.seen.ext = r.hw THEN device[d].ext ELSE r.hw
      /\ device'[d].key = IF r.seen.key = r.n THEN device[d].key ELSE r.n
      /\ handler \in [Handlers -> Request] /\ held \in [Hardware -> SUBSET Requests]
      /\ None \notin Hardware
  BY ConfirmEffect DEF Typed, TypeOK
<1>2. h \in Confirming(d)
  BY <1>1 DEF Confirming
<1>3. \A g \in Confirming(d)' : g \in Confirming(d) \ {h} /\ handler'[g] = handler[g]
  <2>1. \A g \in Handlers : handler'[g] = IF g = h THEN Idle ELSE handler[g]
    BY <1>1 DEF Confirm, Done
  <2> QED BY <2>1 DEF Confirming, Idle
<1>4. \A f, g \in Confirming(d)' : f = g
  BY <1>2, <1>3 DEF FewConfirm, Throng
<1>5. FewConfirm(d)'
  BY <1>4 DEF FewConfirm, Throng
<1>6. SeenMet(d)'
  <2> SUFFICES ASSUME NEW g \in Confirming(d)', handler'[g].pc = "bind", handler'[g].seen.ext # None
               PROVE  FALSE
    BY DEF SeenMet
  <2>1. g \in Confirming(d) /\ g # h /\ handler[g].pc = "bind" /\ handler[g].seen.ext # None
    BY <1>3
  <2>2. device[d].ext # None
    BY <2>1 DEF KeyInv, SeenStays, Confirming
  <2> QED BY <1>2, <2>1, <2>2 DEF FewConfirm
<1>7. device'[d].ext = r.hw
  <2>1. CASE r.seen.ext = r.hw
    <3>1. device[d].ext = r.seen.ext
      BY <1>1, <1>2, <2>1 DEF SeenMet
    <3> QED BY <1>1, <2>1, <3>1
  <2>2. CASE r.seen.ext # r.hw
    BY <1>1, <2>2
  <2> QED BY <2>1, <2>2
<1>8. /\ device[d].key # r.n /\ \A x \in Hardware : r.n \notin held[x]
  BY <1>1 DEF KeyInv, NumbersFresh, Numbered
<1>9. KeyRows(d)'
  <2>1. device'[d].key = r.n
    BY <1>1 DEF KeyInv, SeenStays
  <2>2. \A x \in Hardware : held'[x] = held[x] \/ (x = r.hw /\ held'[x] = held[x] \cup {r.n})
    BY <1>1 DEF Confirm, Deliver
  <2> QED BY <1>7, <1>8, <2>1, <2>2 DEF KeyRows
<1> QED BY <1>5, <1>6, <1>9

LEMMA ThrongStep == Typed /\ KeyInv /\ ThrongInv /\ [MCNext]_<<vars, crowded, thronged>> => ThrongInv'
<1> SUFFICES ASSUME Typed, KeyInv, ThrongInv, [MCNext]_<<vars, crowded, thronged>>,
                    NEW d \in Requests \ thronged'
             PROVE  FewConfirm(d)' /\ SeenMet(d)' /\ KeyRows(d)'
  BY DEF ThrongInv
<1>1. [Next]_vars /\ d \in Requests \ thronged
  BY DEF MCNext
<1>2. FewConfirm(d) /\ SeenMet(d) /\ KeyRows(d)
  BY <1>1 DEF ThrongInv
<1>3. CASE \E h \in Handlers : WriteConfirm(h) /\ ~Taken(handler[h]) /\ handler[h].row = d
  BY <1>2, <1>3, CommitKeeps
<1>4. CASE \A h \in Handlers : ~(WriteConfirm(h) /\ ~Taken(handler[h]) /\ handler[h].row = d)
  <2>1. Quiet(d)
    BY <1>1, <1>4, QuietStep
  <2>2. ~(Throng(d)')
    <3>1. CASE UNCHANGED <<vars, crowded, thronged>>
      <4>1. UNCHANGED handler
        BY <3>1 DEF vars
      <4> QED BY <1>2, <4>1 DEF FewConfirm, Throng, Confirming
    <3>2. CASE MCNext
      BY <1>1, <3>2 DEF MCNext
    <3> QED BY <3>1, <3>2
  <2> QED BY <1>1, <1>2, <2>1, <2>2, QuietKeeps
<1> QED BY <1>3, <1>4

\* A key that hardware received only ever authenticates a row registered for
\* that hardware, whatever confirms, rotations and revokes race and whichever
\* columns their commits write, until three confirms of the row overlap.
THEOREM KeysNameTheirHardware == MCSpec => []KeyNamesItsHardware
<1>1. ThrongInv => KeyNamesItsHardware
  BY DEF ThrongInv, KeyRows, KeyNamesItsHardware, Authenticates
<1>2. MCInit => Init
  BY DEF MCInit
<1>3. [MCNext]_<<vars, crowded, thronged>> => [Next]_vars
  BY DEF MCNext
<1> QED BY <1>1, <1>2, <1>3, TypedInit, TypedStep, KeyInit, KeyStep, ThrongInit, ThrongStep, PTL DEF MCSpec

-----------------------------------------------------------------------------
(* One request at a time: codes and keys stay usable.                      *)

\* One request is at work, before and after the step, and the step is its own.
Apart == \A g, h \in Busy : g = h
Calm == Apart /\ Apart' /\ (device' # device => \A g \in Busy : handler'[g] # handler[g])

\* A row's columns go with its status, and it is inserted by a request begun.
RowsInv ==
    \A d \in Requests :
        /\ device[d].status \in {"none", "unclaimed"} => device[d].ext = None
        /\ device[d].status = "none" => device[d].code = None
        /\ device[d].status = "claimed" => device[d].ext \in Hardware /\ device[d].key \in Requests
        /\ device[d].status # "none" => d \in 1..last

\* The row a request has read is still as it was; its number is the last.
StepInv ==
    \A h \in Handlers : LET r == handler[h] IN
        /\ Numbered(r) => r.n = last
        /\ r.pc = "claim" => /\ device[r.n].status = "none"
                             /\ r.row # None => device[r.row].status = "unclaimed"
        /\ r.pc \in {"bind", "revoke"} => r.seen = device[r.row]
        /\ r.pc = "revoke" => device[r.row].status # "none"
        /\ r.pc \in {"check", "confirm", "bind"} =>
              device[r.row].status = "unclaimed" /\ device[r.row].code = r.code
        /\ r.pc \in {"rotate", "store"} => device[r.row].status = "claimed"

SerialInv == RowsInv /\ StepInv /\ HeldKeyWorks /\ ClaimCodeUsable

LEMMA SerialInit == Init => SerialInv
BY DEF Init, SerialInv, RowsInv, StepInv, HeldKeyWorks, ClaimCodeUsable, NoRow, Idle, Numbered

\* A row with hardware keeps it, and its key unless it is revoked.
LEMMA HeldKept ==
    ASSUME Typed, RowsInv, HeldKeyWorks, held' = held,
           \A d \in Requests : device[d].ext # None =>
              /\ device'[d].ext = device[d].ext
              /\ \/ device'[d].status = "revoked"
                 \/ device'[d].status = device[d].status /\ device'[d].key = device[d].key
    PROVE  HeldKeyWorks'
<1> SUFFICES ASSUME NEW x \in Hardware, NEW k \in held[x]
             PROVE  \E d \in Requests : /\ device'[d].status # "none" /\ device'[d].ext = x
                                        /\ device'[d].status = "revoked" \/ device'[d].key >= k
  BY DEF HeldKeyWorks, Devices
<1>1. PICK d \in Devices : /\ device[d].ext = x
                           /\ device[d].status = "revoked" \/ device[d].key >= k
  BY DEF HeldKeyWorks
<1>2. d \in Requests /\ device[d].status # "none" /\ device[d].ext # None
  BY <1>1 DEF Devices
<1> QED BY <1>1, <1>2

\* A code stays on its unclaimed row, or is withdrawn with it.
LEMMA CodesKept ==
    ASSUME Typed, ClaimCodeUsable, given' = given, used' = used, withdrawn \subseteq withdrawn',
           \A d \in Requests : device[d].status = "unclaimed" =>
              \/ device[d].code \in Maybe(withdrawn')
              \/ device'[d].status = "unclaimed" /\ device'[d].code = device[d].code
    PROVE  ClaimCodeUsable'
<1> SUFFICES ASSUME NEW c \in given \ withdrawn', used[c] = {}
             PROVE  \E d \in Devices' : device'[d].code = c /\ device'[d].status = "unclaimed"
  BY DEF ClaimCodeUsable
<1>1. PICK d \in Devices : device[d].code = c /\ device[d].status = "unclaimed"
  BY DEF ClaimCodeUsable
<1>2. d \in Requests /\ c # None
  BY <1>1 DEF Devices, Typed, TypeOK
<1>3. device'[d].status = "unclaimed" /\ device'[d].code = c
  BY <1>1, <1>2 DEF Maybe
<1> QED BY <1>2, <1>3 DEF Devices

\* A step that leaves the table and the history alone.
LEMMA TableKept ==
    ASSUME Typed, SerialInv, UNCHANGED <<device, given, withdrawn, used, held>>,
           last' \in Nat, last' >= last, StepInv'
    PROVE  SerialInv'
<1>1. RowsInv'
  BY DEF SerialInv, RowsInv, Typed, TypeOK
<1>2. HeldKeyWorks' /\ ClaimCodeUsable'
  BY DEF SerialInv, HeldKeyWorks, ClaimCodeUsable, Devices
<1> QED BY <1>1, <1>2 DEF SerialInv

LEMMA SerialStep == Typed /\ KeyInv /\ SerialInv /\ Calm /\ [Next]_vars => SerialInv'
<1> SUFFICES ASSUME Typed, KeyInv, SerialInv, Calm, [Next]_vars PROVE SerialInv'
  OBVIOUS
<1>t. /\ device \in [Requests -> Row] /\ handler \in [Handlers -> Request]
      /\ used \in [Requests -> SUBSET Requests] /\ held \in [Hardware -> SUBSET Requests]
      /\ last \in 0..MaxRequests /\ given \subseteq Requests /\ None \notin Requests \cup Hardware
  BY DEF Typed, TypeOK
<1>a. ASSUME NEW h \in Handlers, NEW rec, handler' = [handler EXCEPT ![h] = rec],
             handler[h].pc # "idle" \/ rec.pc # "idle"
      PROVE  \A g \in Handlers : handler'[g] = rec \/ handler'[g].pc = "idle"
  <2>1. \A g \in Handlers : handler'[g] = IF g = h THEN rec ELSE handler[g]
    BY <1>a, <1>t
  <2>2. CASE handler[h].pc # "idle"
    BY <2>1, <2>2 DEF Calm, Apart, Busy
  <2>3. CASE rec.pc # "idle"
    BY <2>1, <2>3 DEF Calm, Apart, Busy
  <2> QED BY <1>a, <2>2, <2>3
<1>d. ASSUME NEW h \in Handlers, handler[h].pc # "idle", Done(h) PROVE StepInv'
  <2>1. \A g \in Handlers : handler'[g].pc = "idle"
    <3>1. handler' = [handler EXCEPT ![h] = Idle] /\ Idle.pc = "idle"
      BY <1>d DEF Done, Idle
    <3> QED BY <1>a, <1>d, <3>1
  <2> QED BY <2>1 DEF StepInv, Numbered
<1>i. ASSUME handler' = handler, last' = last PROVE StepInv'
  <2>1. CASE device' = device
    BY <1>i, <2>1 DEF SerialInv, StepInv, Numbered
  <2>2. CASE device' # device
    <3>1. \A g \in Handlers : handler'[g].pc = "idle"
      BY <1>i, <2>2 DEF Calm, Busy
    <3> QED BY <3>1 DEF StepInv, Numbered
  <2> QED BY <2>1, <2>2
<1>1. ASSUME NEW h \in Handlers, NEW t \in Targets, ReadClaim(h, t) PROVE SerialInv'
  <2>1. PICK d \in IF Reusable(t) = {} THEN {None} ELSE Reusable(t) :
            Begin(h, [Idle EXCEPT !.pc = "claim", !.n = last + 1, !.target = t, !.row = d])
    BY <1>1 DEF ReadClaim
  <2> DEFINE rec == [Idle EXCEPT !.pc = "claim", !.n = last + 1, !.target = t, !.row = d]
  <2>2. rec.pc = "claim" /\ rec.n = last + 1 /\ rec.row = d
    BY DEF Idle
  <2>3. d # None => device[d].status = "unclaimed"
    BY DEF Reusable
  <2>4. last' = last + 1 /\ last + 1 \in Requests /\ device' = device
    BY <1>1, <1>t, <2>1 DEF Begin, ReadClaim, Requests
  <2>5. device[last + 1].status = "none"
    BY <1>t, <2>4 DEF SerialInv, RowsInv
  <2>6. \A g \in Handlers : handler'[g] = rec \/ handler'[g].pc = "idle"
    <3>1. handler' = [handler EXCEPT ![h] = rec] /\ rec.pc # "idle"
      BY <2>1, <2>2 DEF Begin
    <3> HIDE DEF rec
    <3> QED BY <1>a, <3>1
  <2>7. StepInv'
    BY <2>2, <2>3, <2>4, <2>5, <2>6 DEF StepInv, Numbered
  <2> QED BY <1>1, <1>t, <2>4, <2>7, TableKept DEF ReadClaim
<1>2. ASSUME NEW h \in Handlers, WriteClaim(h) PROVE SerialInv'
  <2> DEFINE r == handler[h]
  <2>1. /\ r.n = last /\ r.n \in 1..last /\ r.n \in Requests /\ r.row \in Maybe(Requests)
        /\ device[r.n].status = "none" /\ (r.row # None => device[r.row].status = "unclaimed")
    BY <1>2, <1>t DEF WriteClaim, Typed, RequestInv, Numbered, SerialInv, StepInv, Request, Requests
  <2>2. StepInv' /\ given' = given \cup {r.n} /\ last' = last /\ used' = used /\ held' = held
    BY <1>2, <1>d DEF WriteClaim
  <2>3. CASE r.row = None
    <3> DEFINE new == [NoRow EXCEPT !.status = "unclaimed", !.target = r.target, !.code = r.n]
    <3>1. new.status = "unclaimed" /\ new.ext = None /\ new.code = r.n
      BY DEF NoRow
    <3>2. device' = [device EXCEPT ![r.n] = new] /\ withdrawn' = withdrawn
      BY <1>2, <2>3 DEF WriteClaim
    <3>3. device'[r.n] = new /\ \A d \in Requests \ {r.n} : device'[d] = device[d]
      BY <1>t, <2>1, <3>2
    <3> HIDE DEF new
    <3>4. RowsInv'
      BY <2>1, <2>2, <3>1, <3>3 DEF SerialInv, RowsInv
    <3>5. HeldKeyWorks'
      BY <2>1, <2>2, <3>3, HeldKept DEF SerialInv, RowsInv
    <3>6. ClaimCodeUsable'
      BY <2>1, <2>2, <3>1, <3>2, <3>3 DEF SerialInv, ClaimCodeUsable, Devices
    <3> QED BY <2>2, <3>4, <3>5, <3>6 DEF SerialInv
  <2>4. CASE r.row # None
    <3>1. /\ r.row \in Requests /\ device' = [device EXCEPT ![r.row].code = r.n]
          /\ withdrawn' = withdrawn \cup ({device[r.row].code} \ {None})
      BY <1>2, <2>1, <2>4 DEF WriteClaim, Maybe
    <3>2. \A d \in Requests : /\ device'[d].key = device[d].key /\ device'[d].ext = device[d].ext
                              /\ device'[d].status = device[d].status
                              /\ device'[d].code = IF d = r.row THEN r.n ELSE device[d].code
      BY <1>t, <3>1 DEF Row
    <3>3. device[r.row].status = "unclaimed"
      BY <2>1, <2>4
    <3>4. RowsInv'
      BY <2>2, <3>2, <3>3 DEF SerialInv, RowsInv
    <3>5. HeldKeyWorks'
      BY <2>2, <3>2, HeldKept DEF SerialInv
    <3>6. ASSUME NEW c \in given' \ withdrawn', used'[c] = {}
          PROVE  \E d \in Devices' : device'[d].code = c /\ device'[d].status = "unclaimed"
      <4>1. CASE c = r.n
        BY <3>1, <3>2, <3>3, <4>1 DEF Devices
      <4>2. CASE c # r.n
        <5>1. PICK d \in Devices : device[d].code = c /\ device[d].status = "unclaimed"
          BY <2>2, <3>1, <3>6, <4>2 DEF SerialInv, ClaimCodeUsable
        <5>2. c # None
          BY <1>t, <2>2, <4>2
        <5>3. d \in Requests /\ d # r.row
          BY <3>1, <3>6, <5>1, <5>2 DEF Devices
        <5> QED BY <3>2, <5>1, <5>3 DEF Devices
      <4> QED BY <4>1, <4>2
    <3>7. ClaimCodeUsable'
      BY <3>6 DEF ClaimCodeUsable
    <3> QED BY <2>2, <3>4, <3>5, <3>7 DEF SerialInv
  <2> QED BY <2>3, <2>4
<1>3. ASSUME NEW h \in Handlers, NEW x \in Hardware, NEW c \in Requests, FindCode(h, x, c) PROVE SerialInv'
  <2>1. CASE UNCHANGED <<handler, last>> /\ Refuse
    <3>1. StepInv'
      BY <1>3, <1>i, <2>1 DEF FindCode
    <3>2. UNCHANGED <<device, given, withdrawn, used, held, last>>
      BY <1>3, <2>1 DEF FindCode, Refuse
    <3> QED BY <1>t, <3>1, <3>2, TableKept
  <2>2. ASSUME NEW d \in Devices, device[d].code = c, device[d].status = "unclaimed",
               Begin(h, [Idle EXCEPT !.pc = "check", !.n = last + 1, !.row = d, !.code = c, !.hw = x]),
               UNCHANGED <<device, used, held>>
        PROVE  SerialInv'
    <3> DEFINE rec == [Idle EXCEPT !.pc = "check", !.n = last + 1, !.row = d, !.code = c, !.hw = x]
    <3>1. rec.pc = "check" /\ rec.n = last + 1 /\ rec.row = d /\ rec.code = c
      BY DEF Idle
    <3>2. last' = last + 1 /\ \A g \in Handlers : handler'[g] = rec \/ handler'[g].pc = "idle"
      <4>1. handler' = [handler EXCEPT ![h] = rec] /\ rec.pc # "idle" /\ last' = last + 1
        BY <2>2, <3>1 DEF Begin
      <4> HIDE DEF rec
      <4> QED BY <1>a, <4>1
    <3>3. StepInv'
      BY <2>2, <3>1, <3>2 DEF StepInv, Numbered
    <3>4. UNCHANGED <<device, given, withdrawn, used, held>>
      BY <1>3, <2>2 DEF FindCode
    <3> QED BY <1>t, <3>2, <3>3, <3>4, TableKept
  <2>3. CASE ~(UNCHANGED <<handler, last>> /\ Refuse)
    BY <1>3, <2>2, <2>3 DEF FindCode
  <2> QED BY <2>1, <2>3
<1>4. ASSUME NEW h \in Handlers, CheckHardware(h) PROVE SerialInv'
  <2>1. UNCHANGED <<device, given, withdrawn, used, held, last>>
    BY <1>4 DEF CheckHardware, Refuse
  <2>2. CASE Done(h)
    <3>1. StepInv'
      BY <1>4, <1>d, <2>2 DEF CheckHardware
    <3> QED BY <1>t, <2>1, <3>1, TableKept
  <2>3. CASE handler' = [handler EXCEPT ![h].pc = "confirm"]
    <3> DEFINE rec == [handler[h] EXCEPT !.pc = "confirm"]
    <3>1. handler[h] \in Request /\ handler[h].pc = "check"
      BY <1>4, <1>t DEF CheckHardware
    <3>2. /\ rec.pc = "confirm" /\ rec.n = handler[h].n /\ rec.row = handler[h].row
          /\ rec.code = handler[h].code
      BY <3>1 DEF Request
    <3>3. \A g \in Handlers : handler'[g] = rec \/ handler'[g].pc = "idle"
      BY <1>a, <2>3, <3>1
    <3>4. /\ handler[h].n = last /\ device[handler[h].row].status = "unclaimed"
          /\ device[handler[h].row].code = handler[h].code
      BY <3>1 DEF SerialInv, StepInv, Numbered
    <3> HIDE DEF rec
    <3>5. StepInv'
      BY <2>1, <3>2, <3>3, <3>4 DEF StepInv, Numbered
    <3> QED BY <1>t, <2>1, <3>5, TableKept
  <2> QED BY <1>4, <2>2, <2>3 DEF CheckHardware
<1>5. ASSUME NEW h \in Handlers, WriteConfirm(h) PROVE SerialInv'
  <2> DEFINE r == handler[h]
  <2>1. /\ r.n \in 1..last /\ r.n \in Requests /\ r.row \in Requests /\ r.code \in Requests
        /\ r.hw \in Hardware /\ device[r.row].status = "unclaimed" /\ device[r.row].code = r.code
        /\ r.pc = "bind" /\ r.seen = device[r.row]
    BY <1>5, <1>t DEF WriteConfirm, Typed, RequestInv, Numbered, SerialInv, StepInv, Requests
  <2>2. StepInv' /\ UNCHANGED <<last, given, withdrawn>>
    BY <1>5, <1>d, <2>1 DEF WriteConfirm, Confirm
  <2>3. CASE Taken(r)
    <3>1. Refuse
      BY <1>5, <2>3 DEF WriteConfirm
    <3> QED BY <1>t, <2>2, <3>1, TableKept DEF Refuse
  <2>4. CASE ~Taken(r)
    <3> DEFINE new == device'[r.row]
    <3>1. used' = [used EXCEPT ![r.code] = @ \cup {r.n}] /\ Deliver(r.hw, r.n)
      BY <1>5, <2>4 DEF WriteConfirm, Confirm
    <3>3. /\ new = device'[r.row] /\ \A d \in Requests \ {r.row} : device'[d] = device[d]
          /\ new.status = IF r.seen.status = "claimed" THEN device[r.row].status ELSE "claimed"
          /\ new.ext = IF r.seen.ext = r.hw THEN device[r.row].ext ELSE r.hw
          /\ new.key = IF r.seen.key = r.n THEN device[r.row].key ELSE r.n
      BY <1>5, <2>4, ConfirmEffect
    <3> HIDE DEF new
    <3>2. new.status = "claimed" /\ new.ext = r.hw /\ new.key = r.n
      BY <2>1, <3>3 DEF SerialInv, RowsInv
    <3>4. /\ \A x \in Hardware : held'[x] = held[x] \/ (x = r.hw /\ held'[x] = held[x] \cup {r.n})
          /\ \A c \in Requests : used[c] \subseteq used'[c]
          /\ used'[r.code] # {}
      BY <1>t, <2>1, <3>1 DEF Deliver
    <3>5. RowsInv'
      BY <2>1, <2>2, <3>2, <3>3 DEF SerialInv, RowsInv
    <3>6. ASSUME NEW x \in Hardware, NEW k \in held'[x]
          PROVE  \E d \in Devices' : /\ device'[d].ext = x
                                     /\ device'[d].status = "revoked" \/ device'[d].key >= k
      <4>1. CASE k \in held[x]
        <5>1. PICK d \in Devices : /\ device[d].ext = x
                                   /\ device[d].status = "revoked" \/ device[d].key >= k
          BY <4>1 DEF SerialInv, HeldKeyWorks
        <5>2. d \in Requests /\ d # r.row
          BY <1>t, <2>1, <5>1 DEF SerialInv, RowsInv, Devices
        <5> QED BY <3>3, <5>1, <5>2 DEF Devices
      <4>2. CASE k \notin held[x]
        <5>1. x = r.hw /\ k = r.n
          BY <3>4, <4>2
        <5>2. r.row \in Devices'
          BY <2>1, <3>2, <3>3 DEF Devices
        <5>3. r.n >= r.n
          BY <2>1
        <5> QED BY <3>2, <3>3, <5>1, <5>2, <5>3
      <4> QED BY <4>1, <4>2
    <3>7. ASSUME NEW c \in given' \ withdrawn', used'[c] = {}
          PROVE  \E d \in Devices' : device'[d].code = c /\ device'[d].status = "unclaimed"
      <4>1. c \in given \ withdrawn /\ used[c] = {} /\ c # r.code
        BY <1>t, <2>2, <3>4, <3>7
      <4>2. PICK d \in Devices : device[d].code = c /\ device[d].status = "unclaimed"
        BY <4>1 DEF SerialInv, ClaimCodeUsable
      <4>3. d \in Requests /\ d # r.row
        BY <2>1, <4>1, <4>2 DEF Devices
      <4> QED BY <3>3, <4>2, <4>3 DEF Devices
    <3>8. HeldKeyWorks' /\ ClaimCodeUsable'
      BY <3>6, <3>7 DEF HeldKeyWorks, ClaimCodeUsable
    <3> QED BY <2>2, <3>5, <3>8 DEF SerialInv
  <2> QED BY <2>3, <2>4
<1>6. ASSUME NEW h \in Handlers, NEW d \in Requests, StartRotate(h, d) PROVE SerialInv'
  <2> DEFINE rec == [Idle EXCEPT !.pc = "rotate", !.n = last + 1, !.row = d]
  <2>1. rec.pc = "rotate" /\ rec.n = last + 1 /\ rec.row = d
    BY DEF Idle
  <2>2. last' = last + 1 /\ \A g \in Handlers : handler'[g] = rec \/ handler'[g].pc = "idle"
    <3>1. handler' = [handler EXCEPT ![h] = rec] /\ rec.pc # "idle" /\ last' = last + 1
      BY <1>6, <2>1 DEF StartRotate, Begin
    <3> HIDE DEF rec
    <3> QED BY <1>a, <3>1
  <2>3. StepInv'
    BY <1>6, <2>1, <2>2 DEF StepInv, StartRotate, Numbered
  <2> QED BY <1>6, <1>t, <2>2, <2>3, TableKept DEF StartRotate
<1>7. ASSUME NEW h \in Handlers, ReadKey(h) PROVE SerialInv'
  <2>1. UNCHANGED <<device, given, withdrawn, used, held, last>>
    BY <1>7 DEF ReadKey
  <2>2. CASE Done(h)
    <3>1. StepInv'
      BY <1>7, <1>d, <2>2 DEF ReadKey
    <3> QED BY <1>t, <2>1, <3>1, TableKept
  <2>3. CASE handler' = [handler EXCEPT ![h].pc = "store"]
    <3> DEFINE rec == [handler[h] EXCEPT !.pc = "store"]
    <3>1. handler[h] \in Request /\ handler[h].pc = "rotate"
      BY <1>7, <1>t DEF ReadKey
    <3>2. rec.pc = "store" /\ rec.n = handler[h].n /\ rec.row = handler[h].row
      BY <3>1 DEF Request
    <3>3. \A g \in Handlers : handler'[g] = rec \/ handler'[g].pc = "idle"
      BY <1>a, <2>3, <3>1
    <3>4. handler[h].n = last /\ device[handler[h].row].status = "claimed"
      BY <3>1 DEF SerialInv, StepInv, Numbered
    <3> HIDE DEF rec
    <3>5. StepInv'
      BY <2>1, <3>2, <3>3, <3>4 DEF StepInv, Numbered
    <3> QED BY <1>t, <2>1, <3>5, TableKept
  <2> QED BY <1>7, <2>2, <2>3 DEF ReadKey
<1>8. ASSUME NEW h \in Handlers, WriteKey(h) PROVE SerialInv'
  <2> DEFINE r == handler[h]
  <2>1. r.n = last /\ r.n \in 1..last /\ r.n \in Requests /\ r.row \in Requests /\ device[r.row].status = "claimed"
    BY <1>8, <1>t DEF WriteKey, Typed, RequestInv, Numbered, SerialInv, StepInv, Requests
  <2>2. StepInv' /\ UNCHANGED <<last, given, withdrawn, used, held>>
    BY <1>8, <1>d DEF WriteKey
  <2>3. \A d \in Requests : /\ device'[d].ext = device[d].ext /\ device'[d].status = device[d].status
                            /\ device'[d].code = device[d].code
                            /\ device'[d].key = IF d = r.row THEN r.n ELSE device[d].key
    BY <1>8, <1>t, <2>1 DEF WriteKey, Row
  <2>4. RowsInv'
    BY <2>1, <2>2, <2>3 DEF SerialInv, RowsInv
  <2>5. ASSUME NEW x \in Hardware, NEW k \in held[x]
        PROVE  \E d \in Devices' : /\ device'[d].ext = x
                                   /\ device'[d].status = "revoked" \/ device'[d].key >= k
    <3>1. PICK d \in Devices : /\ device[d].ext = x
                               /\ device[d].status = "revoked" \/ device[d].key >= k
      BY DEF SerialInv, HeldKeyWorks
    <3>2. d \in Requests /\ d \in Devices'
      BY <2>3 DEF Devices
    <3>3. k \in 1..last
      BY DEF KeyInv, KeysIssued
    <3>4. d = r.row => device'[d].key >= k
      BY <2>1, <2>3, <3>2, <3>3
    <3> QED BY <2>3, <3>1, <3>2, <3>4
  <2>6. HeldKeyWorks'
    BY <2>2, <2>5 DEF HeldKeyWorks
  <2>7. ClaimCodeUsable'
    BY <2>2, <2>3, CodesKept DEF SerialInv
  <2> QED BY <2>2, <2>4, <2>6, <2>7 DEF SerialInv
<1>9. ASSUME NEW h \in Handlers, NEW d \in Requests, NEW t \in Targets, Reassign(h, d, t) PROVE SerialInv'
  <2>1. \A e \in Requests : /\ device'[e].key = device[e].key /\ device'[e].ext = device[e].ext
                            /\ device'[e].status = device[e].status /\ device'[e].code = device[e].code
    BY <1>9, <1>t DEF Reassign, Row
  <2>2. StepInv' /\ UNCHANGED <<last, given, withdrawn, used, held>>
    BY <1>9, <1>i DEF Reassign
  <2>3. RowsInv'
    BY <2>1, <2>2 DEF SerialInv, RowsInv
  <2>4. HeldKeyWorks' /\ ClaimCodeUsable'
    BY <2>1, <2>2, HeldKept, CodesKept DEF SerialInv
  <2> QED BY <2>2, <2>3, <2>4 DEF SerialInv
<1>10. ASSUME NEW h \in Handlers, NEW d \in Requests, ReadRevoke(h, d) PROVE SerialInv'
  <2> DEFINE rec == [Idle EXCEPT !.pc = "revoke", !.row = d, !.seen = device[d]]
  <2>1. rec.pc = "revoke" /\ rec.row = d /\ rec.seen = device[d] /\ device[d].status # "none"
    BY <1>10 DEF Idle, ReadRevoke, Devices
  <2>2. handler' = [handler EXCEPT ![h] = rec] /\ UNCHANGED <<device, given, withdrawn, used, held, last>>
    BY <1>10 DEF ReadRevoke
  <2> HIDE DEF rec
  <2>3. \A g \in Handlers : handler'[g] = rec \/ handler'[g].pc = "idle"
    <3>1. handler' = [handler EXCEPT ![h] = rec] /\ rec.pc # "idle"
      BY <2>1, <2>2
    <3> QED BY <1>a, <3>1
  <2>4. StepInv'
    BY <2>1, <2>2, <2>3 DEF StepInv, Numbered
  <2> QED BY <1>t, <2>2, <2>4, TableKept
<1>13. ASSUME NEW h \in Handlers, WriteRevoke(h) PROVE SerialInv'
  <2> DEFINE d == handler[h].row
  <2>1. /\ handler[h].pc = "revoke" /\ d \in Requests /\ handler[h].seen = device[d]
        /\ device[d].status # "none"
    BY <1>13, RevokeEffect DEF SerialInv, StepInv
  <2>2. /\ \A e \in Requests \ {d} : device'[e] = device[e]
        /\ device'[d].status = "revoked" /\ device'[d].ext = device[d].ext
    BY <1>13, <2>1, RevokeEffect
  <2>3. StepInv' /\ UNCHANGED <<last, given, used, held>>
    BY <1>13, <1>d, <2>1 DEF WriteRevoke
  <2>4. withdrawn \subseteq withdrawn' /\ device[d].code \in Maybe(withdrawn')
    BY <1>13 DEF WriteRevoke, Maybe
  <2>5. RowsInv'
    BY <2>1, <2>2, <2>3 DEF SerialInv, RowsInv
  <2>6. HeldKeyWorks'
    BY <2>1, <2>2, <2>3, HeldKept DEF SerialInv
  <2>7. ClaimCodeUsable'
    BY <2>2, <2>3, <2>4, CodesKept DEF SerialInv
  <2> QED BY <2>3, <2>5, <2>6, <2>7 DEF SerialInv
<1>14. ASSUME NEW h \in Handlers, ReadConfirm(h) PROVE SerialInv'
  <2> DEFINE rec == [handler[h] EXCEPT !.pc = "bind", !.seen = device[handler[h].row]]
  <2>1. handler[h] \in Request /\ handler[h].pc = "confirm"
    BY <1>14, <1>t DEF ReadConfirm
  <2>2. /\ rec.pc = "bind" /\ rec.n = handler[h].n /\ rec.row = handler[h].row
        /\ rec.code = handler[h].code /\ rec.seen = device[handler[h].row]
    BY <2>1 DEF Request
  <2>3. handler' = [handler EXCEPT ![h] = rec] /\ UNCHANGED <<device, given, withdrawn, used, held, last>>
    BY <1>14 DEF ReadConfirm
  <2>4. /\ handler[h].n = last /\ device[handler[h].row].status = "unclaimed"
        /\ device[handler[h].row].code = handler[h].code
    BY <2>1 DEF SerialInv, StepInv, Numbered
  <2> HIDE DEF rec
  <2>5. \A g \in Handlers : handler'[g] = rec \/ handler'[g].pc = "idle"
    <3>1. handler' = [handler EXCEPT ![h] = rec] /\ handler[h].pc # "idle"
      BY <2>1, <2>3
    <3> QED BY <1>a, <3>1
  <2>6. StepInv'
    BY <2>2, <2>3, <2>4, <2>5 DEF StepInv, Numbered
  <2> QED BY <1>t, <2>3, <2>6, TableKept
<1>11. ASSUME NEW c \in Requests, Expire(c) PROVE SerialInv'
  <2>1. StepInv'
    BY <1>11 DEF Expire, SerialInv, StepInv
  <2> QED BY <1>11, <1>t, <2>1, TableKept DEF Expire
<1>12. CASE UNCHANGED vars
  <2>1. StepInv'
    BY <1>12 DEF vars, SerialInv, StepInv
  <2> QED BY <1>12, <1>t, <2>1, TableKept DEF vars
<1> QED BY <1>1, <1>2, <1>3, <1>4, <1>5, <1>6, <1>7, <1>8, <1>9, <1>10, <1>11, <1>12, <1>13, <1>14 DEF Next

\* With one handler a step is always its own.
Serial == \A g, h \in Handlers : g = h

LEMMA SerialCalm == ASSUME Serial PROVE Typed /\ [Next]_vars => Calm
<1> SUFFICES ASSUME Typed, [Next]_vars, NEW g \in Busy, device' # device PROVE handler'[g] # handler[g]
  BY DEF Calm, Apart, Busy, Serial
<1>1. g \in Handlers /\ handler[g].pc # "idle" /\ handler \in [Handlers -> Request]
  BY DEF Busy, Typed, TypeOK
<1>2. Done(g) => handler'[g].pc = "idle"
  BY <1>1 DEF Done, Idle
<1>3. \A h \in Handlers : h = g
  BY <1>1 DEF Serial
<1>4. PICK h \in Handlers : \/ WriteClaim(h) \/ WriteConfirm(h) \/ WriteKey(h) \/ WriteRevoke(h)
                            \/ \E d \in Requests : \E t \in Targets : Reassign(h, d, t)
  <2>1. ~UNCHANGED vars
    BY DEF vars
  <2>2. \A h \in Handlers : /\ \A t \in Targets : ~ReadClaim(h, t)
                            /\ ~CheckHardware(h) /\ ~ReadConfirm(h) /\ ~ReadKey(h)
                            /\ \A x \in Hardware, c \in Requests : ~FindCode(h, x, c)
                            /\ \A d \in Requests : ~StartRotate(h, d) /\ ~ReadRevoke(h, d)
    BY DEF ReadClaim, CheckHardware, ReadConfirm, ReadKey, FindCode, StartRotate, ReadRevoke, Refuse
  <2>3. \A c \in Requests : ~Expire(c)
    BY DEF Expire
  <2> QED BY <2>1, <2>2, <2>3 DEF Next
<1>5. h = g /\ handler[h].pc # "idle"
  BY <1>1, <1>3
<1>6. Done(g)
  BY <1>4, <1>5 DEF WriteClaim, WriteConfirm, Confirm, WriteKey, WriteRevoke, Reassign
<1> QED BY <1>1, <1>2, <1>6

\* A request begins or ends at a time, so those under way are finitely many;
\* and where no two ever met, each step is its own.
MCInv == IsFiniteSet(Busy) /\ (crowded \/ (SerialInv /\ Apart))

LEMMA BusyFinite ==
    ASSUME Typed, IsFiniteSet(Busy), [Next]_vars
    PROVE  IsFiniteSet(Busy')
<1>1. handler \in [Handlers -> Request]
  BY DEF Typed, TypeOK
<1>2. \E h : Busy' \subseteq Busy \cup {h}
  <2>1. ASSUME NEW h \in Handlers, NEW rec, handler' = [handler EXCEPT ![h] = rec]
        PROVE  Busy' \subseteq Busy \cup {h}
    BY <1>1, <2>1 DEF Busy
  <2>2. CASE handler' = handler
    BY <2>2 DEF Busy
  <2>3. CASE handler' # handler
    <3>1. \E h \in Handlers : \E rec : handler' = [handler EXCEPT ![h] = rec]
      <4>1. ~UNCHANGED vars /\ \A c \in Requests : ~Expire(c)
        BY <2>3 DEF vars, Expire
      <4>2. PICK h \in Handlers :
              \/ \E t \in Targets : ReadClaim(h, t)
              \/ WriteClaim(h)
              \/ \E x \in Hardware, c \in Requests : FindCode(h, x, c)
              \/ CheckHardware(h) \/ ReadConfirm(h) \/ WriteConfirm(h)
              \/ \E d \in Requests : StartRotate(h, d) \/ ReadRevoke(h, d)
              \/ \E d \in Requests, t \in Targets : Reassign(h, d, t)
              \/ ReadKey(h) \/ WriteKey(h) \/ WriteRevoke(h)
        BY <4>1 DEF Next
      <4>3. ~(\E d \in Requests, t \in Targets : Reassign(h, d, t))
        BY <2>3 DEF Reassign
      <4>4. CASE \/ WriteClaim(h) \/ CheckHardware(h) \/ WriteConfirm(h)
                 \/ ReadKey(h) \/ WriteKey(h) \/ WriteRevoke(h)
        BY <4>4 DEF WriteClaim, CheckHardware, WriteConfirm, Confirm, ReadKey, WriteKey, WriteRevoke, Done
      <4>8. CASE ReadConfirm(h)
        <5>1. \A g \in Handlers \ {h} : handler'[g] = handler[g]
          BY <1>1, <4>8 DEF ReadConfirm
        <5>2. handler' = [handler EXCEPT ![h] = handler'[h]]
          BY <1>1, <4>8, <5>1 DEF ReadConfirm
        <5> QED BY <5>2
      <4>5. CASE \E d \in Requests : StartRotate(h, d) \/ ReadRevoke(h, d)
        BY <4>5 DEF StartRotate, ReadRevoke, Begin
      <4>6. CASE \E t \in Targets : ReadClaim(h, t)
        BY <4>6 DEF ReadClaim, Begin
      <4>7. CASE \E x \in Hardware, c \in Requests : FindCode(h, x, c)
        BY <2>3, <4>7 DEF FindCode, Begin
      <4> QED BY <4>2, <4>3, <4>4, <4>5, <4>6, <4>7, <4>8
    <3> QED BY <2>1, <3>1
  <2> QED BY <2>2, <2>3
<1> QED BY <1>2, FS_AddElement, FS_Subset

LEMMA OneBusy ==
    ASSUME NEW S, IsFiniteSet(S), ~(Cardinality(S) > 1), NEW g \in S, NEW h \in S
    PROVE  g = h
<1> SUFFICES ASSUME g # h PROVE FALSE
  OBVIOUS
<1>1. IsFiniteSet({g}) /\ Cardinality({g}) = 1
  BY FS_Singleton
<1>2. IsFiniteSet({g} \cup {h}) /\ Cardinality({g} \cup {h}) = 2
  <2>1. h \notin {g}
    OBVIOUS
  <2>2. IsFiniteSet({g} \cup {h}) /\ Cardinality({g} \cup {h}) = Cardinality({g}) + 1
    BY <1>1, <2>1, FS_AddElement
  <2> QED BY <1>1, <2>2
<1>3. Cardinality({g} \cup {h}) <= Cardinality(S) /\ Cardinality(S) \in Nat
  BY FS_Subset, FS_CardinalityType
<1> QED BY <1>2, <1>3

LEMMA MCStep == Typed /\ KeyInv /\ MCInv /\ [MCNext]_<<vars, crowded, thronged>> => MCInv'
<1> SUFFICES ASSUME Typed, KeyInv, MCInv, [MCNext]_<<vars, crowded, thronged>> PROVE MCInv'
  OBVIOUS
<1>1. [Next]_vars
  BY DEF MCNext
<1>2. IsFiniteSet(Busy')
  BY <1>1, BusyFinite DEF MCInv
<1>3. ASSUME ~crowded' PROVE SerialInv' /\ Apart'
  <2>1. CASE UNCHANGED <<vars, crowded, thronged>>
    <3>1. UNCHANGED vars /\ SerialInv /\ Apart
      BY <1>3, <2>1 DEF MCInv
    <3>2. Calm
      BY <3>1 DEF vars, Calm, Apart, Busy
    <3> QED BY <1>1, <3>2, <3>1, SerialStep DEF Calm
  <2>2. CASE MCNext
    <3>1. /\ ~crowded /\ ~(Cardinality(Busy') > 1)
          /\ ~(device' # device /\ \E h \in Busy : handler'[h] = handler[h])
      BY <1>3, <2>2 DEF MCNext
    <3>2. SerialInv /\ Apart
      BY <3>1 DEF MCInv
    <3>3. \A g, h \in Busy' : g = h
      BY <1>2, <3>1, OneBusy
    <3>4. Apart'
      BY <3>3 DEF Apart
    <3>5. Calm
      BY <3>1, <3>2, <3>4 DEF Calm
    <3> QED BY <1>1, <3>2, <3>4, <3>5, SerialStep
  <2> QED BY <2>1, <2>2
<1> QED BY <1>2, <1>3 DEF MCInv

LEMMA MCHolds == MCSpec => []MCInv
<1>1. MCInit => Init /\ MCInv
  <2>1. Init => Busy = {}
    BY DEF Init, Busy, Idle
  <2>2. IsFiniteSet({})
    BY FS_EmptySet
  <2> QED BY <2>1, <2>2, SerialInit DEF MCInit, MCInv, Apart
<1>2. [MCNext]_<<vars, crowded, thronged>> => [Next]_vars
  BY DEF MCNext
<1> QED BY <1>1, <1>2, TypedInit, TypedStep, KeyInit, KeyStep, MCStep, PTL DEF MCSpec

\* Hardware that was answered a key has a row that accepts it until it is
\* rotated or revoked, for any number of requests, until two of them overlap.
THEOREM KeysWorkApart == MCSpec => []SerialKeyWorks
<1>1. MCInv => SerialKeyWorks
  BY DEF MCInv, SerialInv, SerialKeyWorks
<1> QED BY <1>1, MCHolds, PTL

\* A code that a user was given is on an unclaimed row until it is confirmed,
\* overwritten by a newer claim or revoked, for any number of requests, until
\* two of them overlap.
THEOREM CodesUsableApart == MCSpec => []SerialCodeUsable
<1>1. MCInv => SerialCodeUsable
  BY DEF MCInv, SerialInv, SerialCodeUsable
<1> QED BY <1>1, MCHolds, PTL

\* With requests one at a time, hardware that was answered a key has a row that
\* accepts it until it is rotated or revoked, whatever answers are lost and
\* however codes, confirms, reassignments and revokes follow each other.
THEOREM SerialKeysWork == ASSUME Serial PROVE Spec => []HeldKeyWorks
<1>1. SerialInv => HeldKeyWorks
  BY DEF SerialInv
<1> QED BY <1>1, TypedInit, TypedStep, KeyInit, KeyStep, SerialInit, SerialStep, SerialCalm, PTL DEF Spec

\* With requests one at a time, a code that a user was given is on an unclaimed
\* row until it is confirmed, overwritten by a newer claim or revoked.
THEOREM SerialCodesUsable == ASSUME Serial PROVE Spec => []ClaimCodeUsable
<1>1. SerialInv => ClaimCodeUsable
  BY DEF SerialInv
<1> QED BY <1>1, TypedInit, TypedStep, KeyInit, KeyStep, SerialInit, SerialStep, SerialCalm, PTL DEF Spec
=============================================================================
