--------------------------- MODULE DeviceRegistry ---------------------------
(***************************************************************************)
(* The claim flow of devices: a user mints a claim code for a target, the  *)
(* hardware confirms it and receives its only key, the key is rotated, the *)
(* device is reassigned or revoked.  Requests run concurrently, each as a  *)
(* sequence of READ COMMITTED transactions without row locks.              *)
(***************************************************************************)
EXTENDS Integers, FiniteSets

CONSTANTS
    Targets,        \* owner (user, boat or club) and type a claim names
    Hardware,       \* external ids
    Handlers,       \* requests the server works on at a time
    MaxRequests,    \* bound: requests that mint a code or a key
    MaxClaims,      \* bound: of those, only the first MaxClaims may mint a code
    Faults,         \* subset of {"lost"}: the answer to a confirm is lost
    None

Requests == 1..MaxRequests
Maybe(S) == S \cup {None}

ASSUME RegistryAssumption ==
    /\ MaxRequests \in Nat /\ MaxClaims \in Nat
    /\ Faults \subseteq {"lost"}
    /\ None \notin Requests \cup Hardware \cup Targets

VARIABLES
    device,     \* [Requests -> Row]: the row inserted by that request, if any
    handler,    \* [Handlers -> request record]
    last,       \* number of the last request: names its code, key and row
    expired,    \* codes older than CLAIM_CODE_TTL_MIN
    given,      \* codes answered to a user
    withdrawn,  \* codes overwritten by a newer claim of the same row, or revoked
    used,       \* [code -> keys stored by confirms of that code]
    held        \* [Hardware -> keys received by confirming]

vars == <<device, handler, last, expired, given, withdrawn, used, held>>

Row == [status : {"none", "unclaimed", "claimed", "revoked"}, target : Maybe(Targets),
        code : Maybe(Requests), ext : Maybe(Hardware), key : Maybe(Requests)]
NoRow == [status |-> "none", target |-> None, code |-> None, ext |-> None, key |-> None]

Request == [pc : {"idle", "claim", "check", "confirm", "bind", "rotate", "store", "revoke"},
            n : Maybe(Requests), row : Maybe(Requests), target : Maybe(Targets),
            code : Maybe(Requests), hw : Maybe(Hardware),
            seen : Row]     \* the row as the session of "bind" or "revoke" read it
Idle == [pc |-> "idle", n |-> None, row |-> None, target |-> None, code |-> None,
         hw |-> None, seen |-> NoRow]

Init ==
    /\ device = [d \in Requests |-> NoRow]
    /\ handler = [h \in Handlers |-> Idle]
    /\ last = 0
    /\ expired = {} /\ given = {} /\ withdrawn = {}
    /\ used = [c \in Requests |-> {}]
    /\ held = [x \in Hardware |-> {}]

Devices == {d \in Requests : device[d].status # "none"}

Begin(h, request) ==
    /\ handler[h].pc = "idle" /\ last < MaxRequests
    /\ last' = last + 1
    /\ handler' = [handler EXCEPT ![h] = request]

Done(h) == handler' = [handler EXCEPT ![h] = Idle]

\* The unit of work: of the attributes a request assigned to the row it had
\* read, the UPDATE names those that differ; the other columns stay as they are.
Update(row, seen, new) == [c \in DOMAIN row |-> IF new[c] = seen[c] THEN row[c] ELSE new[c]]

-----------------------------------------------------------------------------
(* The user mints a code: create_claim inserts a row, or refreshes the     *)
(* unclaimed row the same target already has.                              *)

Reusable(t) == {d \in Devices : device[d].status = "unclaimed" /\ device[d].target = t}

ReadClaim(h, t) ==
    /\ last < MaxClaims
    /\ \E d \in IF Reusable(t) = {} THEN {None} ELSE Reusable(t) :
          Begin(h, [Idle EXCEPT !.pc = "claim", !.n = last + 1, !.target = t, !.row = d])
    /\ UNCHANGED <<device, expired, given, withdrawn, used, held>>

\* Mutant: an expired row keeps its old code, the new one is only answered.
WriteClaimKeeps(h) ==
    /\ handler[h].pc = "claim"
    /\ LET r == handler[h] IN
       /\ device' = IF r.row = None
                    THEN [device EXCEPT ![r.n] = [NoRow EXCEPT
                            !.status = "unclaimed", !.target = r.target, !.code = r.n]]
                    ELSE device
       /\ given' = given \cup {r.n}
    /\ Done(h)
    /\ UNCHANGED <<last, expired, withdrawn, used, held>>

WriteClaim(h) ==
    /\ handler[h].pc = "claim"
    /\ LET r == handler[h] IN
       /\ given' = given \cup {r.n}
       /\ \/ /\ r.row = None
             /\ device' = [device EXCEPT ![r.n] = [NoRow EXCEPT
                            !.status = "unclaimed", !.target = r.target, !.code = r.n]]
             /\ UNCHANGED withdrawn
          \/ /\ r.row # None
             /\ device' = [device EXCEPT ![r.row].code = r.n]
             /\ withdrawn' = withdrawn \cup ({device[r.row].code} \ {None})
    /\ Done(h)
    /\ UNCHANGED <<last, expired, used, held>>

Expire(c) ==
    /\ c \in given \ expired
    /\ expired' = expired \cup {c}
    /\ UNCHANGED <<device, handler, last, given, withdrawn, used, held>>

-----------------------------------------------------------------------------
(* The hardware confirms the code it was given.                            *)

\* The confirm is answered with an error.
Refuse == UNCHANGED <<device, used, held>>

\* get_by_claim_code and the expiry test: 404, 409, or go on with this row.
FindCode(h, x, c) ==
    /\ handler[h].pc = "idle" /\ last < MaxRequests /\ c \in given
    /\ LET found == {d \in Devices : device[d].code = c /\ device[d].status = "unclaimed"} IN
       \/ /\ found = {} \/ c \in expired
          /\ Refuse
          /\ UNCHANGED <<handler, last>>
       \/ /\ c \notin expired
          /\ \E d \in found :
                Begin(h, [Idle EXCEPT !.pc = "check", !.n = last + 1, !.row = d,
                                      !.code = c, !.hw = x])
          /\ UNCHANGED <<device, used, held>>
    /\ UNCHANGED <<expired, given, withdrawn>>

Claimed(x) == {d \in Devices : device[d].ext = x /\ device[d].status = "claimed"}

\* get_claimed_by_external_id.
CheckHardware(h) ==
    /\ handler[h].pc = "check"
    /\ \/ /\ Claimed(handler[h].hw) # {}
          /\ Refuse
          /\ Done(h)
       \/ /\ Claimed(handler[h].hw) = {}
          /\ handler' = [handler EXCEPT ![h].pc = "confirm"]
          /\ UNCHANGED <<device, used, held>>
    /\ UNCHANGED <<last, expired, given, withdrawn>>

\* The answer with the key reaches the hardware, or is lost.
Deliver(x, k) ==
    \/ held' = [held EXCEPT ![x] = @ \cup {k}]
    \/ "lost" \in Faults /\ UNCHANGED held

\* confirm_claim reads the row once more, whatever it has become.
ReadConfirm(h) ==
    /\ handler[h].pc = "confirm"
    /\ handler' = [handler EXCEPT ![h].pc = "bind", ![h].seen = device[handler[h].row]]
    /\ UNCHANGED <<device, last, expired, given, withdrawn, used, held>>

Confirmed(r) == [r.seen EXCEPT !.status = "claimed", !.ext = r.hw, !.key = r.n, !.code = None]

\* The external id is in the UPDATE, and another row has it.
Taken(r) == r.seen.ext # r.hw /\ \E d \in Devices \ {r.row} : device[d].ext = r.hw

Confirm(h, new) ==
    /\ LET r == handler[h] IN
       /\ device' = [device EXCEPT ![r.row] = Update(@, r.seen, new)]
       /\ used' = [used EXCEPT ![r.code] = @ \cup {r.n}]
       /\ Deliver(r.hw, r.n)
    /\ Done(h)
    /\ UNCHANGED <<last, expired, given, withdrawn>>

\* Mutant: external_id is not unique in the table.
WriteConfirmAnyHardware(h) ==
    /\ handler[h].pc = "bind"
    /\ Confirm(h, Confirmed(handler[h]))

\* Mutant: a row that already has an external id keeps it.
WriteConfirmKeepsHardware(h) ==
    /\ handler[h].pc = "bind" /\ ~Taken(handler[h])
    /\ LET seen == handler[h].seen IN
       Confirm(h, [Confirmed(handler[h]) EXCEPT !.ext = IF seen.ext = None THEN @ ELSE seen.ext])

\* Mutant: the confirmed row keeps its code and stays unclaimed.
WriteConfirmKeepsCode(h) ==
    /\ handler[h].pc = "bind" /\ ~Taken(handler[h])
    /\ LET seen == handler[h].seen IN
       Confirm(h, [Confirmed(handler[h]) EXCEPT !.status = seen.status, !.code = seen.code])

\* confirm_claim commits; the unique column external_id fails it with a 500.
WriteConfirm(h) ==
    /\ handler[h].pc = "bind"
    /\ \/ /\ Taken(handler[h])
          /\ Refuse
          /\ Done(h)
          /\ UNCHANGED <<last, expired, given, withdrawn>>
       \/ /\ ~Taken(handler[h])
          /\ Confirm(h, Confirmed(handler[h]))

-----------------------------------------------------------------------------
(* Management by whoever manages the device.                               *)

\* rotate_key: 409 unless claimed.
StartRotate(h, d) ==
    /\ d \in Devices /\ device[d].status = "claimed"
    /\ Begin(h, [Idle EXCEPT !.pc = "rotate", !.n = last + 1, !.row = d])
    /\ UNCHANGED <<device, expired, given, withdrawn, used, held>>

\* set_api_key_hash looks at the status again; rotate_key ignores its result.
ReadKey(h) ==
    /\ handler[h].pc = "rotate"
    /\ IF device[handler[h].row].status = "claimed"
       THEN handler' = [handler EXCEPT ![h].pc = "store"]
       ELSE Done(h)
    /\ UNCHANGED <<device, last, expired, given, withdrawn, used, held>>

WriteKey(h) ==
    /\ handler[h].pc = "store"
    /\ device' = [device EXCEPT ![handler[h].row].key = handler[h].n]
    /\ Done(h)
    /\ UNCHANGED <<last, expired, given, withdrawn, used, held>>

Reassign(h, d, t) ==
    /\ handler[h].pc = "idle"
    /\ d \in Devices /\ device[d].target # t
    /\ device' = [device EXCEPT ![d].target = t]
    /\ UNCHANGED <<handler, last, expired, given, withdrawn, used, held>>

\* revoke_device and the read of its commit.
ReadRevoke(h, d) ==
    /\ handler[h].pc = "idle"
    /\ d \in Devices
    /\ handler' = [handler EXCEPT ![h] = [Idle EXCEPT !.pc = "revoke", !.row = d,
                                                     !.seen = device[d]]]
    /\ UNCHANGED <<device, last, expired, given, withdrawn, used, held>>

WriteRevoke(h) ==
    /\ handler[h].pc = "revoke"
    /\ LET r == handler[h] IN
       /\ device' = [device EXCEPT ![r.row] = Update(@, r.seen,
                        [r.seen EXCEPT !.status = "revoked", !.key = None, !.code = None])]
       /\ withdrawn' = withdrawn \cup ({device[r.row].code} \ {None})
    /\ Done(h)
    /\ UNCHANGED <<last, expired, given, used, held>>

Next ==
    \/ \E h \in Handlers :
          \/ \E t \in Targets : ReadClaim(h, t)
          \/ WriteClaim(h)
          \/ \E x \in Hardware, c \in Requests : FindCode(h, x, c)
          \/ CheckHardware(h) \/ ReadConfirm(h) \/ WriteConfirm(h)
          \/ \E d \in Requests : StartRotate(h, d) \/ ReadRevoke(h, d)
          \/ \E d \in Requests, t \in Targets : Reassign(h, d, t)
          \/ ReadKey(h) \/ WriteKey(h) \/ WriteRevoke(h)
    \/ \E c \in Requests : Expire(c)

Spec == Init /\ [][Next]_vars

-----------------------------------------------------------------------------
(* Properties.                                                             *)

\* Type invariant: rows, request records and history hold values of their kind.
TypeOK ==
    /\ device \in [Requests -> Row]
    /\ handler \in [Handlers -> Request]
    /\ last \in 0..MaxRequests
    /\ expired \subseteq Requests /\ given \subseteq Requests /\ withdrawn \subseteq Requests
    /\ used \in [Requests -> SUBSET Requests]
    /\ held \in [Hardware -> SUBSET Requests]

\* current_device: the key names the row the call acts for.
Authenticates(k, d) == device[d].key = k /\ device[d].status = "claimed"

\* Two rows are never claimed for the same hardware, although every confirm
\* decides that from an earlier read: the unique column external_id holds.
ExternalIdOnce ==
    \A d, e \in Devices : d # e /\ device[d].status = "claimed" /\ device[e].status = "claimed"
                            => device[d].ext # device[e].ext

\* device-protocol 2.3-2.4: hardware that was answered a key has a row, which
\* accepts that key until it is rotated or the device is revoked.
HeldKeyWorks ==
    \A x \in Hardware : \A k \in held[x] :
        \E d \in Devices : /\ device[d].ext = x
                           /\ device[d].status = "revoked" \/ device[d].key >= k

\* A code that was answered to a user, and was not withdrawn by a newer claim
\* or a revoke, is on an unclaimed row or has been confirmed.
ClaimCodeUsable ==
    \A c \in given \ withdrawn :
        \/ used[c] # {}
        \/ \E d \in Devices : device[d].code = c /\ device[d].status = "unclaimed"
=============================================================================
