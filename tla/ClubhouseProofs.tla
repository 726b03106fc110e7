-------------------------- MODULE ClubhouseProofs --------------------------
(***************************************************************************)
(* Type correctness of Clubhouse, and three facts of it, for any number of *)
(* users, clubs, groups, boats and requests at a time: a boat that has     *)
(* members has an owner, nobody is an active member of a club or group who *)
(* was not let in by one who manages it, and the pages show a user the     *)
(* same activities, sessions and permissions by whichever rule they ask.   *)
(***************************************************************************)
EXTENDS Clubhouse, SequenceTheorems, FiniteSetTheorems, TLAPS

USE ClubhouseAssumption

\* The writes a request may carry, by the repository method they call.
Kinds == {"clubAdd", "clubStatus", "clubRemove", "grant", "revoke", "groupAdd", "groupRole",
          "groupCheck", "groupStatus", "groupRemove", "visibility", "close", "boatAdd",
          "boatRole", "boatRemove"}
Targets == ClubStatus \cup GroupRole \cup GroupStatus \cup BoatRole \cup Grant
           \cup [role : GroupRole, status : GroupStatus]
           \cup {"absent", "closed", "flip", "manager", "removed"}
Writes == [do : Kinds, by : Actors, on : Maybe(Orgs), user : Actors \cup {None},
           to : Targets, vouch : BOOLEAN]
WriteOK(w) ==
    /\ w.do \in {"clubAdd", "clubStatus", "clubRemove"} => w.on \in Clubs \cap made /\ w.user \in Users
    /\ w.do \in {"clubAdd", "clubStatus"} => w.to \in ClubStatus
    /\ w.do \in {"grant", "revoke"} => w.to \in Grant /\ w.to.scope \in Maybe(made)
    /\ w.do \in {"groupAdd", "groupRole", "groupStatus", "groupRemove"} =>
         w.on \in Groups \cap made /\ w.user \in Users
    /\ w.do = "groupAdd" => w.to.role \in GroupRole /\ w.to.status \in GroupStatus
    /\ w.do = "groupRole" => w.to \in GroupRole
    /\ w.do = "groupStatus" => w.to \in GroupStatus
    /\ w.do \in {"groupCheck", "visibility"} => w.on \in Groups \cap made
    /\ w.do = "close" => w.on \in made
    /\ w.do \in {"boatAdd", "boatRole", "boatRemove"} => w.on \in Boats \cap made /\ w.user \in Users
    /\ w.do \in {"boatAdd", "boatRole"} => w.to \in BoatRole
    /\ w.do = "boatRemove" => w.to = "absent"

\* These are the only write of their request.
Single == {"clubStatus", "clubRemove", "groupRemove", "visibility", "close",
           "boatAdd", "boatRole", "boatRemove"}
Pending(h) == {todo[h][i] : i \in 1..Len(todo[h])}
TodoInv ==
    /\ todo \in [Handlers -> Seq(Writes)]
    /\ \A h \in Handlers : \A w \in Pending(h) : WriteOK(w) /\ (w.do \in Single => Len(todo[h]) = 1)
    /\ \A g \in grants : g.scope \in Maybe(made)
Typed == TypeOK /\ TodoInv

\* Two requests with writes to one club, group or boat are overlapping ones.
Scopes(h) == {Scope(w) : w \in Pending(h)}
AloneInv == \A g, h \in Handlers : g # h => Scopes(g) \cap Scopes(h) \subseteq overlapped

\* A write to a boat leaves it an owner; a boat has none only before its first.
OwnerWrite(w) ==
    /\ w.do = "boatAdd" => w.to = "owner" \/ Owners(w.on) # {}
    /\ w.do = "boatRole" => w.to = "owner" \/ Owners(w.on) \ {w.user} # {}
    /\ w.do = "boatRemove" => Owners(w.on) \ {w.user} # {}
Empty(b) == \A u \in Users : boatRow[b][u] = "absent"
Opening(b) == \E h \in Handlers : \E w \in Pending(h) :
                 w.do = "boatAdd" /\ w.on = b /\ w.to = "owner"
BoatInv ==
    /\ \A b \in Boats : b \in closed \/ b \notin made => Empty(b)
    /\ \A h \in Handlers : \A w \in Pending(h) : w.on \notin overlapped \cup closed => OwnerWrite(w)
    /\ \A b \in (Boats \cap made) \ (closed \cup overlapped) :
         Owners(b) # {} \/ (Opening(b) /\ Empty(b))

\* Who was let into a club or group, or is about to be, was vouched for.
VouchedWrite(w) ==
    /\ w.do = "clubAdd" => w.vouch \/ w.to = "requested"
    /\ w.do = "groupAdd" => w.vouch \/ w.to.status = "requested"
    /\ w.do \in {"clubStatus", "groupStatus"} => w.vouch \/ <<w.on, w.user>> \in vouched
LetIn == {"invited", "active"}
VouchInv ==
    /\ \A c \in Clubs \ overlapped, u \in Users : clubRow[c][u].status \in LetIn => <<c, u>> \in vouched
    /\ \A g \in Groups \ overlapped, u \in Users :
         groupRow[g][u].status \in LetIn /\ ~groupRow[g][u].removed => <<g, u>> \in vouched
    /\ \A h \in Handlers : \A w \in Pending(h) : w.on \notin overlapped => VouchedWrite(w)
IInv == Typed /\ AloneInv /\ BoatInv /\ VouchInv

\* What a request promises of its writes when it begins.
Fits(w) ==
    /\ WriteOK(w)
    /\ w.on \notin overlapped \cup closed \cup Busy => OwnerWrite(w)
    /\ w.on \notin overlapped => VouchedWrite(w)
Begins(h) ==
    \E writes \in Seq(Writes) :
       /\ Ask(h, writes)
       /\ \A i \in 1..Len(writes) : Fits(writes[i]) /\ (writes[i].do \in Single => Len(writes) = 1)

-----------------------------------------------------------------------------
(* Type correctness.                                                       *)

LEMMA NoneApart == None \notin Orgs /\ None \notin Users /\ None \notin Clubs
BY DEF Orgs, Actors

LEMMA StartEmpty == Init => \A h \in Handlers : todo[h] = <<>> /\ Pending(h) = {}
<1> SUFFICES ASSUME Init, NEW h \in Handlers PROVE todo[h] = <<>> /\ Pending(h) = {}
  OBVIOUS
<1>1. todo[h] = <<>>
  BY DEF Init
<1>2. Len(<<>>) = 0 /\ 1..0 = {}
  OBVIOUS
<1> QED BY <1>1, <1>2 DEF Pending

LEMMA TypedInit == Init => Typed
<1> SUFFICES ASSUME Init PROVE Typed
  OBVIOUS
<1>1. todo \in [Handlers -> Seq(Writes)]
  BY DEF Init
<1>2. TodoInv
  BY <1>1, StartEmpty DEF Init, TodoInv
<1>3. TypeOK
  BY DEF Init, TypeOK, NoClubRow, NoGroupRow, GroupRole, Grant
<1> QED BY <1>2, <1>3 DEF Typed

\* The writes of one request, and what is left when the first is made.
LEMMA HeadCase ==
    ASSUME Typed, NEW h \in Handlers, todo[h] # <<>>
    PROVE  /\ Len(todo[h]) \in Nat /\ Len(todo[h]) >= 1
           /\ Head(todo[h]) \in Pending(h) /\ Head(todo[h]) \in Writes /\ WriteOK(Head(todo[h]))
           /\ \A w \in Pending(h) : w \in Writes /\ WriteOK(w)
           /\ \A w \in Pending(h) : w.do \in Single => w = Head(todo[h])
           /\ Tail(todo[h]) \in Seq(Writes) /\ Len(Tail(todo[h])) = Len(todo[h]) - 1
           /\ \A i \in 1..Len(Tail(todo[h])) : Tail(todo[h])[i] \in Pending(h)
<1> DEFINE s == todo[h]
<1>1. s \in Seq(Writes)
  BY DEF Typed, TodoInv
<1>2. \A w \in Pending(h) : WriteOK(w) /\ (w.do \in Single => Len(s) = 1)
  BY DEF Typed, TodoInv
<1>3. Pending(h) = {s[i] : i \in 1..Len(s)}
  BY DEF Pending
<1> HIDE DEF s
<1>4. /\ Len(s) \in Nat /\ Len(s) >= 1 /\ Head(s) = s[1] /\ Tail(s) \in Seq(Writes)
      /\ Len(Tail(s)) = Len(s) - 1 /\ \A i \in 1..Len(Tail(s)) : Tail(s)[i] = s[i + 1]
  <2>1. s # <<>>
    BY DEF s
  <2> QED BY <1>1, <2>1, HeadTailProperties
<1>5. \A i \in 1..Len(s) : s[i] \in Writes
  BY <1>1
<1>6. 1 \in 1..Len(s) /\ \A i \in 1..(Len(s) - 1) : i + 1 \in 1..Len(s)
  BY <1>4
<1>7. Len(s) = 1 => \A i \in 1..Len(s) : i = 1
  BY <1>4
<1> QED BY <1>2, <1>3, <1>4, <1>5, <1>6, <1>7 DEF s

LEMMA RestCase ==
    ASSUME Typed, NEW h \in Handlers, todo[h] # <<>>,
           Rest(h) \/ todo' = [todo EXCEPT ![h] = <<>>]
    PROVE  /\ todo' \in [Handlers -> Seq(Writes)]
           /\ \A g \in Handlers : g # h => todo'[g] = todo[g] /\ Pending(g)' = Pending(g)
           /\ \A g \in Handlers : Pending(g)' \subseteq Pending(g)
           /\ \A w \in Pending(h)' : w.do \notin Single
<1>1. PICK s : todo' = [todo EXCEPT ![h] = s] /\ s \in {Tail(todo[h]), <<>>}
  BY DEF Rest
<1>2. s \in Seq(Writes) /\ \A i \in 1..Len(s) : s[i] \in Pending(h)
  <2>1. CASE s = Tail(todo[h])
    BY <2>1, HeadCase
  <2>2. CASE s = <<>>
    BY <2>2
  <2> QED BY <1>1, <2>1, <2>2
<1>3. todo \in [Handlers -> Seq(Writes)]
  BY DEF Typed, TodoInv
<1>4. \A g \in Handlers : todo'[g] = IF g = h THEN s ELSE todo[g]
  BY <1>1, <1>3
<1>5. Pending(h)' = {s[i] : i \in 1..Len(s)}
  BY <1>4 DEF Pending
<1>6. Len(todo[h]) = 1 => Pending(h)' = {}
  <2>1. CASE s = <<>>
    BY <1>5, <2>1
  <2>2. CASE s = Tail(todo[h])
    BY <1>5, <2>2, HeadCase
  <2> QED BY <1>1, <2>1, <2>2
<1>7. \A w \in Pending(h)' : w.do \notin Single
  BY <1>2, <1>5, <1>6 DEF Typed, TodoInv
<1>8. todo' \in [Handlers -> Seq(Writes)]
  BY <1>1, <1>2, <1>3
<1> QED BY <1>2, <1>4, <1>5, <1>7, <1>8 DEF Pending

\* A write is made: those left keep their promises.
LEMMA RestTodo ==
    ASSUME Typed, NEW h \in Handlers, todo[h] # <<>>,
           Rest(h) \/ todo' = [todo EXCEPT ![h] = <<>>], UNCHANGED made,
           \A g \in grants' : g.scope \in Maybe(made)
    PROVE  TodoInv'
<1>1. \A w : WriteOK(w)' <=> WriteOK(w)
  BY DEF WriteOK
<1>2. ASSUME NEW g \in Handlers, NEW w \in Pending(g)'
      PROVE  WriteOK(w) /\ (w.do \in Single => Len(todo'[g]) = 1)
  <2>1. w \in Pending(g)
    BY <1>2, RestCase
  <2>2. CASE g = h
    BY <2>1, <2>2, <1>2, RestCase DEF Typed, TodoInv
  <2>3. CASE g # h
    BY <2>1, <2>3, RestCase DEF Typed, TodoInv
  <2> QED BY <2>2, <2>3
<1> QED BY <1>1, <1>2, RestCase DEF TodoInv

-----------------------------------------------------------------------------
(* Requests.                                                               *)

LEMMA WriteType ==
    ASSUME NEW do \in Kinds, NEW by \in Actors, NEW on \in Maybe(Orgs), NEW u \in Actors \cup {None},
           NEW to \in Targets, NEW v \in BOOLEAN
    PROVE  /\ Write(do, by, on, u, to, v) \in Writes
           /\ Write(do, by, on, u, to, v).do = do /\ Write(do, by, on, u, to, v).by = by
           /\ Write(do, by, on, u, to, v).on = on /\ Write(do, by, on, u, to, v).user = u
           /\ Write(do, by, on, u, to, v).to = to /\ Write(do, by, on, u, to, v).vouch = v
<1> HIDE ClubhouseAssumption
<1> QED BY DEF Write, Writes

LEMMA TargetWords ==
    /\ \A to \in ClubStatus \cup GroupRole \cup GroupStatus \cup BoatRole \cup Grant : to \in Targets
    /\ \A to \in {"absent", "closed", "flip", "manager", "removed", "deleted"} : to \in Targets
    /\ \A role \in GroupRole, status \in GroupStatus : [role |-> role, status |-> status] \in Targets
<1>1. [role : GroupRole, status : GroupStatus] \subseteq Targets
  BY DEF Targets
<1>2. ClubStatus \subseteq Targets /\ "deleted" \in ClubStatus
  BY DEF Targets, ClubStatus
<1>3. \A to \in {"absent", "closed", "flip", "manager", "removed"} : to \in Targets
  BY DEF Targets
<1>4. \A to \in ClubStatus \cup GroupRole \cup GroupStatus \cup BoatRole \cup Grant : to \in Targets
  BY DEF Targets
<1> QED BY <1>1, <1>2, <1>3, <1>4

LEMMA OneWrite ==
    ASSUME NEW h \in Handlers, NEW w \in Writes, Fits(w), Ask(h, <<w>>)
    PROVE  Begins(h)
<1>1. <<w>> \in Seq(Writes) /\ Len(<<w>>) = 1 /\ <<w>>[1] = w
  OBVIOUS
<1>2. \A i \in 1..1 : i = 1
  OBVIOUS
<1> QED BY <1>1, <1>2 DEF Begins

LEMMA Checks ==
    ASSUME NEW u, NEW key, NEW c, NEW roles
    PROVE  HasPermission(u, key, c) \in BOOLEAN /\ GroupManager(u, c, roles) \in BOOLEAN
BY DEF HasPermission, GroupManager

LEMMA BusyIs == Busy = UNION {Scopes(h) : h \in Handlers}
BY DEF Busy, Scopes, Pending

LEMMA ScopeType ==
    ASSUME Typed, NEW w \in Writes, WriteOK(w)
    PROVE  /\ Scope(w) \in Maybe(made)
           /\ w.do \notin {"grant", "revoke"} => Scope(w) = w.on
<1>1. w.do \in Kinds
  BY DEF Writes
<1> QED BY <1>1 DEF Scope, WriteOK, Maybe, Kinds

\* A boat that no request is at work on has an owner.
LEMMA BoatOwned ==
    ASSUME Typed, BoatInv, NEW b \in OpenBoats, b \notin overlapped \cup Busy
    PROVE  Owners(b) # {}
<1>1. ~Opening(b)
  <2> SUFFICES ASSUME NEW h \in Handlers, NEW w \in Pending(h), w.do = "boatAdd", w.on = b PROVE FALSE
    BY DEF Opening
  <2>1. Scope(w) = b
    BY DEF Scope
  <2>2. b \in Busy
    BY <2>1, BusyIs DEF Scopes
  <2> QED BY <2>2
<1> QED BY <1>1 DEF BoatInv, OpenBoats

LEMMA NotOnlyOwner ==
    ASSUME NEW b, NEW u, ~OnlyOwner(b, u), Owners(b) # {}
    PROVE  Owners(b) \ {u} # {}
<1> SUFFICES ASSUME Owners(b) \subseteq {u} PROVE FALSE
  OBVIOUS
<1>1. Owners(b) = {u} /\ boatRow[b][u] = "owner"
  BY DEF Owners
<1>2. Cardinality(Owners(b)) = 1
  BY <1>1, FS_Singleton
<1> QED BY <1>1, <1>2 DEF OnlyOwner

LEMMA ClubAsks ==
    ASSUME IInv, NEW h \in Handlers, NEW who \in Actors, NEW c \in Clubs,
           \/ DeactivateClub(h, who, c)
           \/ \E u \in Users : \/ RemoveClubMember(h, who, c, u)
                               \/ \E s \in ClubStatus : \/ AddClubMember(h, who, c, u, s)
                                                        \/ SetClubStatus(h, who, c, u, s)
    PROVE  Begins(h)
<1>0. c \in Maybe(Orgs) /\ Users \subseteq Actors \cup {None} /\ made \subseteq Orgs
  BY DEF Orgs, Maybe, Actors, IInv, Typed, TypeOK
<1>1. ASSUME DeactivateClub(h, who, c) PROVE Begins(h)
  <2> DEFINE w == Write("close", who, c, None, "closed", FALSE)
  <2>1. w \in Writes /\ w.do = "close" /\ w.on = c
    BY <1>0, TargetWords DEF Write, Writes, Kinds
  <2>2. c \in made /\ Ask(h, <<w>>)
    BY <1>1 DEF DeactivateClub
  <2> HIDE DEF w
  <2> QED BY <2>1, <2>2, OneWrite DEF Fits, WriteOK, OwnerWrite, VouchedWrite
<1>2. ASSUME NEW u \in Users, RemoveClubMember(h, who, c, u) PROVE Begins(h)
  <2> DEFINE w == Write("clubRemove", who, c, u, "deleted", FALSE)
  <2>1. w \in Writes /\ w.do = "clubRemove" /\ w.on = c /\ w.user = u
    BY <1>0, TargetWords DEF Write, Writes, Kinds
  <2>2. c \in made /\ Ask(h, <<w>>)
    BY <1>2 DEF RemoveClubMember
  <2> HIDE DEF w
  <2> QED BY <2>1, <2>2, OneWrite DEF Fits, WriteOK, OwnerWrite, VouchedWrite
<1>3. ASSUME NEW u \in Users, NEW s \in ClubStatus, AddClubMember(h, who, c, u, s) PROVE Begins(h)
  <2> DEFINE manages == HasPermission(who, "user_club.manage", c)
             w == Write("clubAdd", who, c, u, s, manages)
  <2>1. w \in Writes /\ w.do = "clubAdd" /\ w.on = c /\ w.user = u /\ w.to = s /\ w.vouch = manages
    <3>1. manages \in BOOLEAN
      BY Checks
    <3>2. "clubAdd" \in Kinds /\ s \in Targets /\ u \in Actors \cup {None}
      BY <1>0, TargetWords DEF Kinds
    <3> HIDE DEF manages
    <3> QED BY <1>0, <3>1, <3>2, WriteType
  <2>2. c \in made /\ Ask(h, <<w>>) /\ (manages \/ s = "requested")
    BY <1>3 DEF AddClubMember
  <2> HIDE DEF w, manages
  <2> QED BY <2>1, <2>2, OneWrite DEF Fits, WriteOK, OwnerWrite, VouchedWrite
<1>4. ASSUME NEW u \in Users, NEW s \in ClubStatus, SetClubStatus(h, who, c, u, s) PROVE Begins(h)
  <2> DEFINE manages == HasPermission(who, "user_club.manage", c)
             w == Write("clubStatus", who, c, u, s, manages)
  <2>1. w \in Writes /\ w.do = "clubStatus" /\ w.on = c /\ w.user = u /\ w.to = s /\ w.vouch = manages
    <3>1. manages \in BOOLEAN
      BY Checks
    <3>2. "clubStatus" \in Kinds /\ s \in Targets /\ u \in Actors \cup {None}
      BY <1>0, TargetWords DEF Kinds
    <3> HIDE DEF manages
    <3> QED BY <1>0, <3>1, <3>2, WriteType
  <2>2. c \in made /\ Ask(h, <<w>>) /\ (manages \/ clubRow[c][u].status = "invited")
    BY <1>4 DEF SetClubStatus
  <2>3. c \notin overlapped => manages \/ <<c, u>> \in vouched
    BY <2>2 DEF IInv, VouchInv, LetIn
  <2> HIDE DEF w, manages
  <2> QED BY <2>1, <2>2, <2>3, OneWrite DEF Fits, WriteOK, OwnerWrite, VouchedWrite
<1> QED BY <1>1, <1>2, <1>3, <1>4

LEMMA RoleAsks ==
    ASSUME IInv, NEW h \in Handlers, NEW who \in Actors, NEW g \in Grant,
           GrantRole(h, who, g) \/ RevokeRole(h, who, g)
    PROVE  Begins(h)
<1>1. PICK do \in {"grant", "revoke"} : Ask(h, <<Write(do, who, g.scope, g.user, g, FALSE)>>)
  BY DEF GrantRole, RevokeRole
<1>2. g.scope \in Maybe(made)
  BY DEF GrantRole, RevokeRole, IInv, Typed, TodoInv
<1>3. g.scope \in Maybe(Orgs) /\ g.user \in Actors \cup {None}
  BY DEF Grant, Orgs, Maybe, Actors
<1> DEFINE w == Write(do, who, g.scope, g.user, g, FALSE)
<1>4. w \in Writes /\ w.do = do /\ w.to = g
  BY <1>3, TargetWords DEF Write, Writes, Kinds
<1>5. Ask(h, <<w>>)
  BY <1>1
<1> HIDE DEF w
<1> QED BY <1>2, <1>4, <1>5, OneWrite DEF Fits, WriteOK, OwnerWrite, VouchedWrite

LEMMA GroupAsks ==
    ASSUME IInv, NEW h \in Handlers, NEW who \in Actors, NEW g \in Groups,
           \/ UpdateGroup(h, who, g) \/ DeleteGroup(h, who, g)
           \/ \E u \in Users : \/ RemoveGroupMember(h, who, g, u)
                               \/ \E r \in GroupRole : AddGroupMember(h, who, g, u, r)
    PROVE  Begins(h)
<1>0. g \in Maybe(Orgs) /\ Users \subseteq Actors \cup {None} /\ OpenGroups \subseteq made
  BY DEF Orgs, Maybe, Actors, OpenGroups
<1>1. ASSUME UpdateGroup(h, who, g) PROVE Begins(h)
  <2> DEFINE w == Write("visibility", who, g, None, "flip", FALSE)
  <2>1. w \in Writes /\ w.do = "visibility" /\ w.on = g
    BY <1>0, TargetWords DEF Write, Writes, Kinds
  <2>2. g \in made /\ Ask(h, <<w>>)
    BY <1>0, <1>1 DEF UpdateGroup
  <2> HIDE DEF w
  <2> QED BY <2>1, <2>2, OneWrite DEF Fits, WriteOK, OwnerWrite, VouchedWrite
<1>2. ASSUME DeleteGroup(h, who, g) PROVE Begins(h)
  <2> DEFINE w == Write("close", who, g, None, "closed", FALSE)
  <2>1. w \in Writes /\ w.do = "close" /\ w.on = g
    BY <1>0, TargetWords DEF Write, Writes, Kinds
  <2>2. g \in made /\ Ask(h, <<w>>)
    BY <1>0, <1>2 DEF DeleteGroup
  <2> HIDE DEF w
  <2> QED BY <2>1, <2>2, OneWrite DEF Fits, WriteOK, OwnerWrite, VouchedWrite
<1>3. ASSUME NEW u \in Users, RemoveGroupMember(h, who, g, u) PROVE Begins(h)
  <2> DEFINE w == Write("groupRemove", who, g, u, "removed", FALSE)
  <2>1. w \in Writes /\ w.do = "groupRemove" /\ w.on = g /\ w.user = u
    BY <1>0, TargetWords DEF Write, Writes, Kinds
  <2>2. g \in made /\ Ask(h, <<w>>)
    BY <1>0, <1>3 DEF RemoveGroupMember
  <2> HIDE DEF w
  <2> QED BY <2>1, <2>2, OneWrite DEF Fits, WriteOK, OwnerWrite, VouchedWrite
<1>4. ASSUME NEW u \in Users, NEW r \in GroupRole, AddGroupMember(h, who, g, u, r) PROVE Begins(h)
  <2> DEFINE manages == GroupManager(who, g, {"owner", "admin"})
             status == IF ~manages THEN "requested" ELSE IF u = who THEN "active" ELSE "invited"
             to == [role |-> r, status |-> status]
             w == Write("groupAdd", who, g, u, to, manages)
  <2>1. status \in GroupStatus /\ (manages \/ status = "requested")
    BY DEF GroupStatus
  <2>2. g \in made /\ Ask(h, <<w>>)
    BY <1>0, <1>4 DEF AddGroupMember
  <2>3. manages \in BOOLEAN
    BY Checks
  <2> HIDE DEF status, manages
  <2>4. to \in Targets /\ to.role = r /\ to.status = status
    BY <2>1, TargetWords
  <2> HIDE DEF to
  <2>5. w \in Writes /\ w.do = "groupAdd" /\ w.on = g /\ w.user = u /\ w.to = to /\ w.vouch = manages
    BY <1>0, <2>3, <2>4, WriteType DEF Kinds
  <2> HIDE DEF w
  <2> QED BY <2>1, <2>2, <2>4, <2>5, OneWrite DEF Fits, WriteOK, OwnerWrite, VouchedWrite
<1> QED BY <1>1, <1>2, <1>3, <1>4

LEMMA MemberAsks ==
    ASSUME IInv, NEW h \in Handlers, NEW who \in Actors, NEW g \in Groups, NEW u \in Users,
           NEW r \in Maybe(GroupRole), NEW s \in Maybe(GroupStatus),
           UpdateGroupMember(h, who, g, u, r, s)
    PROVE  Begins(h)
<1> DEFINE accepts == who = u /\ groupRow[g][u].status = "invited" /\ s = "active"
           role == Write("groupRole", who, g, u, r, FALSE)
           check == Write("groupCheck", who, g, who, "manager", FALSE)
           set == Write("groupStatus", who, g, u, s, ~accepts)
           A == IF r = None THEN <<>> ELSE <<role>>
           B == IF r = None \/ s = None \/ accepts THEN <<>> ELSE <<check>>
           C == IF s = None THEN <<>> ELSE <<set>>
           Good(w) == w \in Writes /\ Fits(w) /\ w.do \notin Single
<1>0. g \in Maybe(Orgs) /\ u \in Actors \cup {None} /\ who \in Actors \cup {None}
      /\ g \in made /\ Present(g, u) /\ Ask(h, A \o B \o C)
  BY DEF Orgs, Maybe, Actors, OpenGroups, UpdateGroupMember
<1>1. ASSUME r # None PROVE Good(role)
  <2>1. r \in GroupRole
    BY <1>1 DEF Maybe
  <2>2. role \in Writes /\ role.do = "groupRole" /\ role.on = g /\ role.user = u /\ role.to = r
    BY <1>0, <2>1, TargetWords DEF Write, Writes, Kinds
  <2> HIDE DEF role
  <2> QED BY <1>0, <2>1, <2>2 DEF Fits, WriteOK, OwnerWrite, VouchedWrite, Single
<1>2. Good(check)
  <2>1. check \in Writes /\ check.do = "groupCheck" /\ check.on = g
    BY <1>0, TargetWords DEF Write, Writes, Kinds
  <2> HIDE DEF check
  <2> QED BY <1>0, <2>1 DEF Fits, WriteOK, OwnerWrite, VouchedWrite, Single
<1>3. ASSUME s # None PROVE Good(set)
  <2>1. s \in GroupStatus
    BY <1>3 DEF Maybe
  <2>2. accepts /\ g \notin overlapped => <<g, u>> \in vouched
    BY <1>0 DEF Present, IInv, VouchInv, LetIn
  <2>3. (~accepts) \in BOOLEAN
    OBVIOUS
  <2> HIDE DEF accepts
  <2>4. set \in Writes /\ set.do = "groupStatus" /\ set.on = g /\ set.user = u /\ set.to = s
        /\ set.vouch = ~accepts
    BY <1>0, <2>1, <2>3, TargetWords DEF Write, Writes, Kinds
  <2> HIDE DEF set
  <2> QED BY <1>0, <2>1, <2>2, <2>4 DEF Fits, WriteOK, OwnerWrite, VouchedWrite, Single
<1> HIDE DEF role, check, set
<1>4. /\ A \in Seq(Writes) /\ \A i \in 1..Len(A) : Good(A[i])
      /\ B \in Seq(Writes) /\ \A i \in 1..Len(B) : Good(B[i])
      /\ C \in Seq(Writes) /\ \A i \in 1..Len(C) : Good(C[i])
  <2>1. <<>> \in Seq(Writes) /\ Len(<<>>) = 0
    OBVIOUS
  <2>2. ASSUME NEW w, Good(w)
        PROVE  <<w>> \in Seq(Writes) /\ \A i \in 1..Len(<<w>>) : Good(<<w>>[i])
    <3>1. <<w>> \in Seq(Writes) /\ Len(<<w>>) = 1 /\ <<w>>[1] = w /\ \A i \in 1..1 : i = 1
      BY <2>2
    <3> HIDE DEF Good
    <3> QED BY <2>2, <3>1
  <2> HIDE DEF Good
  <2>3. A \in Seq(Writes) /\ \A i \in 1..Len(A) : Good(A[i])
    BY <1>1, <2>1, <2>2
  <2>4. B \in Seq(Writes) /\ \A i \in 1..Len(B) : Good(B[i])
    BY <1>2, <2>1, <2>2
  <2>5. C \in Seq(Writes) /\ \A i \in 1..Len(C) : Good(C[i])
    BY <1>3, <2>1, <2>2
  <2> QED BY <2>3, <2>4, <2>5
<1> HIDE DEF A, B, C, Good
<1>5. ASSUME NEW X \in Seq(Writes), NEW Y \in Seq(Writes),
             \A i \in 1..Len(X) : Good(X[i]), \A i \in 1..Len(Y) : Good(Y[i])
      PROVE  X \o Y \in Seq(Writes) /\ \A i \in 1..Len(X \o Y) : Good((X \o Y)[i])
  <2>1. /\ X \o Y \in Seq(Writes) /\ Len(X \o Y) = Len(X) + Len(Y)
        /\ \A i \in 1..(Len(X) + Len(Y)) :
              (X \o Y)[i] = IF i <= Len(X) THEN X[i] ELSE Y[i - Len(X)]
    BY ConcatProperties
  <2>2. Len(X) \in Nat /\ Len(Y) \in Nat
    OBVIOUS
  <2>3. \A i \in 1..(Len(X) + Len(Y)) : IF i <= Len(X) THEN i \in 1..Len(X) ELSE i - Len(X) \in 1..Len(Y)
    BY <2>2
  <2> QED BY <1>5, <2>1, <2>3
<1>6. A \o B \o C \in Seq(Writes) /\ \A i \in 1..Len(A \o B \o C) : Good((A \o B \o C)[i])
  BY <1>4, <1>5
<1>7. \A i \in 1..Len(A \o B \o C) : Fits((A \o B \o C)[i]) /\ (A \o B \o C)[i].do \notin Single
  BY <1>6 DEF Good
<1> QED BY <1>0, <1>6, <1>7 DEF Begins

LEMMA BoatAsks ==
    ASSUME IInv, NEW h \in Handlers, NEW who \in Actors, NEW b \in Boats,
           \/ DeleteBoat(h, who, b)
           \/ \E u \in Users : \/ RemoveBoatMember(h, who, b, u)
                               \/ \E r \in BoatRole : \/ AddBoatMember(h, who, b, u, r)
                                                      \/ SetBoatRole(h, who, b, u, r)
    PROVE  Begins(h)
<1>0. b \in Maybe(Orgs) /\ Users \subseteq Actors \cup {None} /\ OpenBoats \subseteq made
  BY DEF Orgs, Maybe, Actors, OpenBoats
<1>o. b \in OpenBoats /\ b \notin overlapped \cup Busy => Owners(b) # {}
  BY BoatOwned DEF IInv
<1>1. ASSUME DeleteBoat(h, who, b) PROVE Begins(h)
  <2> DEFINE w == Write("close", who, b, None, "closed", FALSE)
  <2>1. w \in Writes /\ w.do = "close" /\ w.on = b
    BY <1>0, TargetWords DEF Write, Writes, Kinds
  <2>2. b \in made /\ Ask(h, <<w>>)
    BY <1>0, <1>1 DEF DeleteBoat
  <2> HIDE DEF w
  <2> QED BY <2>1, <2>2, OneWrite DEF Fits, WriteOK, OwnerWrite, VouchedWrite
<1>2. ASSUME NEW u \in Users, RemoveBoatMember(h, who, b, u) PROVE Begins(h)
  <2> DEFINE w == Write("boatRemove", who, b, u, "absent", FALSE)
  <2>1. w \in Writes /\ w.do = "boatRemove" /\ w.on = b /\ w.user = u /\ w.to = "absent"
    BY <1>0, TargetWords DEF Write, Writes, Kinds
  <2>2. b \in made /\ b \in OpenBoats /\ Ask(h, <<w>>) /\ ~OnlyOwner(b, u)
    BY <1>0, <1>2 DEF RemoveBoatMember
  <2> HIDE DEF w
  <2>3. b \notin overlapped \cup closed \cup Busy => Owners(b) \ {u} # {}
    BY <1>o, <2>2, NotOnlyOwner
  <2> QED BY <2>1, <2>2, <2>3, OneWrite DEF Fits, WriteOK, OwnerWrite, VouchedWrite
<1>3. ASSUME NEW u \in Users, NEW r \in BoatRole, AddBoatMember(h, who, b, u, r) PROVE Begins(h)
  <2> DEFINE w == Write("boatAdd", who, b, u, r, FALSE)
  <2>1. w \in Writes /\ w.do = "boatAdd" /\ w.on = b /\ w.user = u /\ w.to = r
    BY <1>0, TargetWords DEF Write, Writes, Kinds
  <2>2. b \in made /\ b \in OpenBoats /\ Ask(h, <<w>>)
    BY <1>0, <1>3 DEF AddBoatMember
  <2> HIDE DEF w
  <2> QED BY <1>o, <2>1, <2>2, OneWrite DEF Fits, WriteOK, OwnerWrite, VouchedWrite
<1>4. ASSUME NEW u \in Users, NEW r \in BoatRole, SetBoatRole(h, who, b, u, r) PROVE Begins(h)
  <2> DEFINE w == Write("boatRole", who, b, u, r, FALSE)
  <2>1. w \in Writes /\ w.do = "boatRole" /\ w.on = b /\ w.user = u /\ w.to = r
    BY <1>0, TargetWords DEF Write, Writes, Kinds
  <2>2. b \in made /\ b \in OpenBoats /\ Ask(h, <<w>>) /\ (r # "owner" => ~OnlyOwner(b, u))
    BY <1>0, <1>4 DEF SetBoatRole
  <2> HIDE DEF w
  <2>3. b \notin overlapped \cup closed \cup Busy => r = "owner" \/ Owners(b) \ {u} # {}
    BY <1>o, <2>2, NotOnlyOwner
  <2> QED BY <2>1, <2>2, <2>3, OneWrite DEF Fits, WriteOK, OwnerWrite, VouchedWrite
<1> QED BY <1>1, <1>2, <1>3, <1>4

LEMMA TodoSet ==
    ASSUME Typed, NEW h \in Handlers, NEW s \in Seq(Writes), todo[h] = <<>>,
           todo' = [todo EXCEPT ![h] = s]
    PROVE  /\ todo' \in [Handlers -> Seq(Writes)] /\ todo'[h] = s
           /\ Pending(h) = {} /\ Pending(h)' = {s[i] : i \in 1..Len(s)}
           /\ \A g \in Handlers : g # h => todo'[g] = todo[g] /\ Pending(g)' = Pending(g)
<1>1. todo \in [Handlers -> Seq(Writes)]
  BY DEF Typed, TodoInv
<1>2. \A g \in Handlers : todo'[g] = IF g = h THEN s ELSE todo[g]
  BY <1>1
<1>3. todo' \in [Handlers -> Seq(Writes)]
  BY <1>1
<1>4. Len(<<>>) = 0 /\ 1..0 = {}
  OBVIOUS
<1> QED BY <1>2, <1>3, <1>4 DEF Pending

LEMMA PendingType ==
    ASSUME Typed, NEW h \in Handlers, NEW w \in Pending(h)
    PROVE  w \in Writes /\ WriteOK(w) /\ todo[h] # <<>> /\ Scope(w) \in Maybe(made)
<1>1. todo[h] # <<>>
  <2>1. Len(<<>>) = 0 /\ 1..0 = {}
    OBVIOUS
  <2> QED BY <2>1 DEF Pending
<1>2. w \in Writes /\ WriteOK(w)
  BY <1>1, HeadCase
<1> QED BY <1>1, <1>2, ScopeType

LEMMA ScopesType ==
    ASSUME Typed
    PROVE  /\ \A h \in Handlers : Scopes(h) \subseteq Maybe(made)
           /\ Busy \subseteq Maybe(made) /\ made \subseteq Orgs
           /\ \A h \in Handlers : Scopes(h) \subseteq Busy
<1>1. \A h \in Handlers : Scopes(h) \subseteq Maybe(made)
  BY PendingType DEF Scopes
<1> QED BY <1>1, BusyIs DEF Typed, TypeOK

\* A request begins: it works alone on what it asks for, or overlaps.
LEMMA BeginKeeps ==
    ASSUME IInv, NEW h \in Handlers, Begins(h)
    PROVE  IInv'
<1>1. PICK writes \in Seq(Writes) :
         /\ Ask(h, writes)
         /\ \A i \in 1..Len(writes) : Fits(writes[i]) /\ (writes[i].do \in Single => Len(writes) = 1)
  BY DEF Begins
<1> DEFINE W == {writes[i] : i \in 1..Len(writes)}
           S == {Scope(w) : w \in W}
<1>2. /\ todo[h] = <<>> /\ todo' = [todo EXCEPT ![h] = writes]
      /\ requests < MaxRequests /\ requests' = requests + 1
      /\ UNCHANGED <<made, closed, public, enabled, grants, clubRow, groupRow, boatRow, vouched>>
  BY <1>1 DEF Ask, Begin, tables
<1>3. overlapped' = overlapped \cup (S \cap Busy)
  <2>1. overlapped' = overlapped \cup ({Scope(writes[i]) : i \in 1..Len(writes)} \cap Busy)
    BY <1>1 DEF Ask, Begin
  <2>2. {Scope(writes[i]) : i \in 1..Len(writes)} = S
    OBVIOUS
  <2> QED BY <2>1, <2>2
<1>4. /\ todo' \in [Handlers -> Seq(Writes)] /\ todo'[h] = writes
      /\ Pending(h) = {} /\ Pending(h)' = W
      /\ \A g \in Handlers : g # h => todo'[g] = todo[g] /\ Pending(g)' = Pending(g)
  BY <1>2, TodoSet DEF IInv
<1>5. \A w \in W : w \in Writes /\ Fits(w) /\ (w.do \in Single => Len(writes) = 1)
  BY <1>1
<1> HIDE DEF W
<1>6. Scopes(h)' = S /\ \A g \in Handlers : g # h => Scopes(g)' = Scopes(g)
  BY <1>4 DEF Scopes
<1>7. \A w : WriteOK(w)' <=> WriteOK(w)
  BY <1>2 DEF WriteOK
<1>8. Typed'
  <2>1. overlapped' \subseteq Orgs \cup {None} /\ requests' \in 0..MaxRequests
    BY <1>2, <1>3, ScopesType DEF IInv, Typed, TypeOK, Maybe
  <2>2. TypeOK'
    BY <1>2, <2>1 DEF IInv, Typed, TypeOK
  <2>3. \A g \in Handlers : \A w \in Pending(g)' : WriteOK(w) /\ (w.do \in Single => Len(todo'[g]) = 1)
    BY <1>4, <1>5 DEF IInv, Typed, TodoInv, Fits
  <2>4. TodoInv'
    BY <1>2, <1>4, <1>7, <2>3 DEF IInv, Typed, TodoInv
  <2> QED BY <2>2, <2>4 DEF Typed
<1>9. AloneInv'
  <2> SUFFICES ASSUME NEW g \in Handlers, NEW k \in Handlers, g # k
               PROVE  Scopes(g)' \cap Scopes(k)' \subseteq overlapped'
    BY DEF AloneInv
  <2>1. \A f \in Handlers : f # h => Scopes(f)' \subseteq Busy
    BY <1>6, ScopesType DEF IInv
  <2>2. CASE g # h /\ k # h
    BY <1>3, <1>6, <2>2 DEF IInv, AloneInv
  <2>3. CASE g = h \/ k = h
    BY <1>3, <1>6, <2>1, <2>3
  <2> QED BY <2>2, <2>3
<1>10. BoatInv'
  <2>1. /\ \A b : Owners(b)' = Owners(b) /\ (Empty(b)' <=> Empty(b))
        /\ \A w : OwnerWrite(w)' <=> OwnerWrite(w)
    BY <1>2 DEF Owners, Empty, OwnerWrite
  <2>2. \A b : Opening(b) => Opening(b)'
    BY <1>4 DEF Opening
  <2>3. ASSUME NEW g \in Handlers, NEW w \in Pending(g)', w.on \notin overlapped' \cup closed'
        PROVE  OwnerWrite(w)
    <3>1. CASE g # h
      BY <1>2, <1>3, <1>4, <2>3, <3>1 DEF IInv, BoatInv
    <3>2. CASE g = h /\ w.on \in Busy
      <4>1. w \in W /\ Fits(w) /\ w \in Writes
        BY <1>4, <1>5, <3>2
      <4>2. Scope(w) # w.on
        BY <1>3, <2>3, <3>2, <4>1
      <4>3. w.do \in {"grant", "revoke"}
        BY <4>2 DEF Scope
      <4> QED BY <4>3 DEF OwnerWrite
    <3>3. CASE g = h /\ w.on \notin Busy
      BY <1>2, <1>3, <1>4, <1>5, <2>3, <3>3 DEF Fits
    <3> QED BY <3>1, <3>2, <3>3
  <2>4. ASSUME NEW b \in (Boats \cap made') \ (closed' \cup overlapped')
        PROVE  Owners(b)' # {} \/ (Opening(b)' /\ Empty(b)')
    BY <1>2, <1>3, <2>1, <2>2 DEF IInv, BoatInv
  <2>5. \A b \in Boats : b \in closed' \/ b \notin made' => Empty(b)'
    BY <1>2, <2>1 DEF IInv, BoatInv
  <2> QED BY <2>1, <2>3, <2>4, <2>5 DEF BoatInv
<1>11. VouchInv'
  <2>1. \A w : VouchedWrite(w)' <=> VouchedWrite(w)
    BY <1>2 DEF VouchedWrite
  <2>2. \A g \in Handlers : \A w \in Pending(g)' : w.on \notin overlapped' => VouchedWrite(w)
    BY <1>3, <1>4, <1>5 DEF IInv, VouchInv, Fits
  <2>3. overlapped \subseteq overlapped'
    BY <1>3
  <2> QED BY <1>2, <2>1, <2>2, <2>3 DEF IInv, VouchInv
<1> QED BY <1>8, <1>9, <1>10, <1>11 DEF IInv

\* A club, group or boat is created: its first writes are the only ones to it.
LEMMA CreateKeeps ==
    ASSUME IInv, NEW h \in Handlers, NEW x \in Orgs, NEW writes \in Seq(Writes),
           Create(h, x, writes), public' \subseteq Groups,
           \A i \in 1..Len(writes) :
              /\ WriteOK(writes[i])' /\ Scope(writes[i]) = x
              /\ writes[i].do \in {"clubAdd", "grant", "groupAdd", "boatAdd"}
              /\ writes[i].do = "boatAdd" => writes[i].to = "owner" /\ Len(writes) = 1
              /\ writes[i].do \in {"clubAdd", "groupAdd"} => writes[i].vouch,
           x \in Boats => \E i \in 1..Len(writes) :
              writes[i].do = "boatAdd" /\ writes[i].on = x /\ writes[i].to = "owner"
    PROVE  IInv'
<1>1. /\ x \notin made /\ made' = made \cup {x} /\ todo[h] = <<>> /\ todo' = [todo EXCEPT ![h] = writes]
      /\ UNCHANGED <<closed, enabled, grants, clubRow, groupRow, boatRow, requests, vouched, overlapped>>
  BY DEF Create
<1> DEFINE W == {writes[i] : i \in 1..Len(writes)}
<1>2. /\ todo' \in [Handlers -> Seq(Writes)] /\ todo'[h] = writes
      /\ Pending(h) = {} /\ Pending(h)' = W
      /\ \A g \in Handlers : g # h => todo'[g] = todo[g] /\ Pending(g)' = Pending(g)
  BY <1>1, TodoSet DEF IInv
<1>3. \A w \in W :
              /\ WriteOK(w)' /\ Scope(w) = x
              /\ w.do \in {"clubAdd", "grant", "groupAdd", "boatAdd"}
              /\ w.do = "boatAdd" => w.to = "owner" /\ Len(writes) = 1
              /\ w.do \in {"clubAdd", "groupAdd"} => w.vouch
  OBVIOUS
<1>4. x \in Boats => \E w \in W : w.do = "boatAdd" /\ w.on = x /\ w.to = "owner"
  OBVIOUS
<1> HIDE DEF W
<1>5. Scopes(h)' \subseteq {x} /\ \A g \in Handlers : g # h => Scopes(g)' = Scopes(g) /\ Scopes(g) \subseteq Maybe(made)
  BY <1>2, <1>3, ScopesType DEF Scopes, IInv
<1>6. x # None
  BY NoneApart
<1>7. \A w : WriteOK(w) => WriteOK(w)'
  BY <1>1 DEF WriteOK, Maybe
<1>8. Typed'
  <2>1. TypeOK'
    BY <1>1 DEF IInv, Typed, TypeOK
  <2>2. \A g \in Handlers : \A w \in Pending(g)' : WriteOK(w)' /\ (w.do \in Single => Len(todo'[g]) = 1)
    <3> SUFFICES ASSUME NEW g \in Handlers, NEW w \in Pending(g)'
                 PROVE  WriteOK(w)' /\ (w.do \in Single => Len(todo'[g]) = 1)
      OBVIOUS
    <3>1. CASE g = h
      <4>1. w \in W /\ todo'[g] = writes
        BY <1>2, <3>1
      <4> QED BY <1>3, <4>1 DEF Single
    <3>2. CASE g # h
      <4>1. w \in Pending(g) /\ todo'[g] = todo[g]
        BY <1>2, <3>2
      <4>2. WriteOK(w) /\ (w.do \in Single => Len(todo[g]) = 1)
        BY <4>1 DEF IInv, Typed, TodoInv
      <4> QED BY <1>7, <4>1, <4>2
    <3> QED BY <3>1, <3>2
  <2>3. TodoInv'
    BY <1>1, <1>2, <2>2 DEF IInv, Typed, TodoInv, Maybe
  <2> QED BY <2>1, <2>3 DEF Typed
<1>9. AloneInv'
  BY <1>1, <1>5, <1>6 DEF IInv, AloneInv, Maybe
<1>10. BoatInv'
  <2>1. /\ \A b : Owners(b)' = Owners(b) /\ (Empty(b)' <=> Empty(b))
        /\ \A w : OwnerWrite(w)' <=> OwnerWrite(w)
    BY <1>1 DEF Owners, Empty, OwnerWrite
  <2>2. \A b : Opening(b) => Opening(b)'
    BY <1>2 DEF Opening
  <2>3. x \in Boats => Opening(x)' /\ Empty(x)
    BY <1>1, <1>2, <1>4 DEF Opening, IInv, BoatInv
  <2>4. \A g \in Handlers : \A w \in Pending(g)' : w.on \notin overlapped' \cup closed' => OwnerWrite(w)
    BY <1>1, <1>2, <1>3 DEF IInv, BoatInv, OwnerWrite
  <2> QED BY <1>1, <2>1, <2>2, <2>3, <2>4 DEF IInv, BoatInv
<1>11. VouchInv'
  <2>1. \A w : VouchedWrite(w)' <=> VouchedWrite(w)
    BY <1>1 DEF VouchedWrite
  <2>2. \A g \in Handlers : \A w \in Pending(g)' : w.on \notin overlapped' => VouchedWrite(w)
    BY <1>1, <1>2, <1>3 DEF IInv, VouchInv, VouchedWrite
  <2> QED BY <1>1, <2>1, <2>2 DEF IInv, VouchInv
<1> QED BY <1>8, <1>9, <1>10, <1>11 DEF IInv

LEMMA Creates ==
    ASSUME IInv, NEW h \in Handlers, NEW who \in Users,
           \/ \E c \in Clubs : CreateClub(h, who, c)
           \/ \E g \in Groups : CreateGroup(h, who, g)
           \/ \E b \in Boats : CreateBoat(h, who, b)
    PROVE  IInv'
<1>0. who \in Actors /\ who \in Actors \cup {None} /\ public \subseteq Groups
  BY DEF Actors, IInv, Typed, TypeOK
<1>1. ASSUME NEW c \in Clubs, CreateClub(h, who, c) PROVE IInv'
  <2> DEFINE g == [user |-> who, role |-> "club_admin", scope |-> c]
             a == Write("clubAdd", who, c, who, "active", TRUE)
             w == Write("grant", who, c, who, g, FALSE)
  <2>1. Create(h, c, <<a, w>>) /\ UNCHANGED public
    BY <1>1 DEF CreateClub
  <2>2. c \in Orgs /\ c \in Maybe(Orgs) /\ c \in made' /\ c \in Maybe(made') /\ c \notin Boats
    BY <2>1 DEF Create, Orgs, Maybe
  <2>3. g \in Grant /\ g.scope = c
    BY DEF Grant, Maybe
  <2>4. "active" \in ClubStatus
    BY DEF ClubStatus
  <2> HIDE DEF g
  <2>5. /\ a \in Writes /\ a.do = "clubAdd" /\ a.on = c /\ a.user = who /\ a.to = "active" /\ a.vouch = TRUE
        /\ w \in Writes /\ w.do = "grant" /\ w.to = g
    BY <1>0, <2>2, <2>3, <2>4, TargetWords DEF Write, Writes, Kinds
  <2> HIDE DEF a, w
  <2>6. WriteOK(a)' /\ WriteOK(w)' /\ Scope(a) = c /\ Scope(w) = c
    BY <2>2, <2>3, <2>4, <2>5 DEF WriteOK, Scope
  <2>7. <<a, w>> \in Seq(Writes) /\ Len(<<a, w>>) = 2 /\ <<a, w>>[1] = a /\ <<a, w>>[2] = w
        /\ \A i \in 1..2 : i = 1 \/ i = 2
    BY <2>5
  <2> DEFINE s == <<a, w>>
  <2>8. s \in Seq(Writes) /\ Create(h, c, s) /\ \A i \in 1..Len(s) : s[i] = a \/ s[i] = w
    BY <2>1, <2>7
  <2> HIDE DEF s
  <2> QED BY <1>0, <2>1, <2>2, <2>5, <2>6, <2>8, CreateKeeps
<1>2. ASSUME NEW g \in Groups, CreateGroup(h, who, g) PROVE IInv'
  <2> DEFINE to == [role |-> "owner", status |-> "active"]
             a == Write("groupAdd", who, g, who, to, TRUE)
  <2>1. Create(h, g, <<a>>) /\ public' \subseteq Groups
    BY <1>0, <1>2 DEF CreateGroup
  <2>2. g \in Orgs /\ g \in Maybe(Orgs) /\ g \in made' /\ g \notin Boats
    BY <2>1 DEF Create, Orgs, Maybe
  <2>3. to.role \in GroupRole /\ to.status \in GroupStatus /\ to \in Targets
    BY DEF GroupRole, GroupStatus, Targets
  <2> HIDE DEF to
  <2>5. a \in Writes /\ a.do = "groupAdd" /\ a.on = g /\ a.user = who /\ a.to = to /\ a.vouch = TRUE
    BY <1>0, <2>2, <2>3 DEF Write, Writes, Kinds
  <2> HIDE DEF a
  <2>6. WriteOK(a)' /\ Scope(a) = g
    BY <2>2, <2>3, <2>5 DEF WriteOK, Scope
  <2> DEFINE s == <<a>>
  <2>8. s \in Seq(Writes) /\ Create(h, g, s) /\ \A i \in 1..Len(s) : s[i] = a
    BY <2>1, <2>5
  <2> HIDE DEF s
  <2> QED BY <2>1, <2>2, <2>5, <2>6, <2>8, CreateKeeps
<1>3. ASSUME NEW b \in Boats, CreateBoat(h, who, b) PROVE IInv'
  <2> DEFINE a == Write("boatAdd", who, b, who, "owner", FALSE)
  <2>1. Create(h, b, <<a>>) /\ UNCHANGED public
    BY <1>3 DEF CreateBoat
  <2>2. b \in Orgs /\ b \in Maybe(Orgs) /\ b \in made' /\ "owner" \in BoatRole
    BY <2>1 DEF Create, Orgs, Maybe, BoatRole
  <2>5. a \in Writes /\ a.do = "boatAdd" /\ a.on = b /\ a.user = who /\ a.to = "owner"
    BY <1>0, <2>2, TargetWords DEF Write, Writes, Kinds
  <2> HIDE DEF a
  <2>6. WriteOK(a)' /\ Scope(a) = b
    BY <2>2, <2>5 DEF WriteOK, Scope
  <2> DEFINE s == <<a>>
  <2>8. s \in Seq(Writes) /\ Create(h, b, s) /\ Len(s) = 1 /\ 1 \in 1..Len(s) /\ \A i \in 1..Len(s) : s[i] = a
    BY <2>1, <2>5
  <2> HIDE DEF s
  <2> QED BY <1>0, <2>1, <2>2, <2>5, <2>6, <2>8, CreateKeeps
<1> QED BY <1>1, <1>2, <1>3

\* A step that touches no membership, boat, vouching or request.
LEMMA Frame ==
    ASSUME IInv, UNCHANGED <<made, closed, clubRow, groupRow, boatRow, todo, vouched, overlapped, grants>>,
           public' \subseteq Groups, enabled' \subseteq Users, requests' \in 0..MaxRequests
    PROVE  IInv'
<1>1. Typed'
  BY DEF IInv, Typed, TypeOK, TodoInv, Pending, WriteOK
<1>2. AloneInv'
  BY DEF IInv, AloneInv, Scopes, Pending
<1>3. BoatInv'
  BY DEF IInv, BoatInv, Pending, OwnerWrite, Owners, Empty, Opening
<1>4. VouchInv'
  BY DEF IInv, VouchInv, Pending, VouchedWrite
<1> QED BY <1>1, <1>2, <1>3, <1>4 DEF IInv

LEMMA DeleteUserKeeps ==
    ASSUME IInv, NEW who, NEW u, DeleteUser(who, u)
    PROVE  IInv'
<1>1. /\ UNCHANGED <<made, closed, public, clubRow, groupRow, boatRow, todo, vouched, overlapped, grants>>
      /\ requests < MaxRequests /\ requests' = requests + 1 /\ enabled' \subseteq enabled
  BY DEF DeleteUser
<1>2. requests' \in 0..MaxRequests /\ public' \subseteq Groups /\ enabled' \subseteq Users
  BY <1>1 DEF IInv, Typed, TypeOK
<1> QED BY <1>1, <1>2, Frame

-----------------------------------------------------------------------------
(* Writes.                                                                 *)

\* Who else is at work on what this write is about.
LEMMA OthersElsewhere ==
    ASSUME IInv, NEW h \in Handlers, NEW w \in Pending(h), NEW g \in Handlers, g # h,
           NEW v \in Pending(g), Scope(v) = Scope(w)
    PROVE  Scope(w) \in overlapped
BY DEF IInv, AloneInv, Scopes

LEMMA RestAlone ==
    ASSUME IInv, NEW h \in Handlers, todo[h] # <<>>,
           Rest(h) \/ todo' = [todo EXCEPT ![h] = <<>>], UNCHANGED overlapped
    PROVE  AloneInv'
<1>1. \A g \in Handlers : Scopes(g)' \subseteq Scopes(g)
  BY RestCase DEF Scopes, IInv
<1> QED BY <1>1 DEF IInv, AloneInv

\* Writes that are not to a boat.
LEMMA RestBoat ==
    ASSUME IInv, NEW h \in Handlers, todo[h] # <<>>,
           Rest(h) \/ todo' = [todo EXCEPT ![h] = <<>>], UNCHANGED <<overlapped, made, closed, boatRow>>,
           Head(todo[h]).do # "boatAdd"
    PROVE  BoatInv'
<1>1. /\ \A b : Owners(b)' = Owners(b) /\ (Empty(b)' <=> Empty(b))
      /\ \A w : OwnerWrite(w)' <=> OwnerWrite(w)
  BY DEF Owners, Empty, OwnerWrite
<1>2. \A b : Opening(b) => Opening(b)'
  <2> SUFFICES ASSUME NEW b, NEW g \in Handlers, NEW w \in Pending(g),
                      w.do = "boatAdd" /\ w.on = b /\ w.to = "owner"
               PROVE  Opening(b)'
    BY DEF Opening
  <2>1. g # h
    BY HeadCase DEF Single, IInv
  <2> QED BY <2>1, RestCase DEF Opening, IInv
<1>3. \A g \in Handlers : Pending(g)' \subseteq Pending(g)
  BY RestCase DEF IInv
<1> QED BY <1>1, <1>2, <1>3 DEF IInv, BoatInv

\* Writes that are not to a club or group's members.
LEMMA RestVouch ==
    ASSUME IInv, NEW h \in Handlers, todo[h] # <<>>,
           Rest(h) \/ todo' = [todo EXCEPT ![h] = <<>>], UNCHANGED <<overlapped, clubRow, vouched>>,
           \A g \in Groups, u \in Users : groupRow'[g][u].status = groupRow[g][u].status
                                          /\ groupRow'[g][u].removed = groupRow[g][u].removed
    PROVE  VouchInv'
<1>1. \A g \in Handlers : Pending(g)' \subseteq Pending(g)
  BY RestCase DEF IInv
<1>2. \A w : VouchedWrite(w)' <=> VouchedWrite(w)
  BY DEF VouchedWrite
<1> QED BY <1>1, <1>2 DEF IInv, VouchInv

LEMMA RestSingle ==
    ASSUME Typed, NEW h \in Handlers, todo[h] # <<>>, Rest(h), Head(todo[h]).do \in Single
    PROVE  Pending(h)' = {}
<1> SUFFICES ASSUME NEW v \in Pending(h)' PROVE FALSE
  OBVIOUS
<1>1. v \in Pending(h) /\ v.do \notin Single
  BY RestCase
<1>2. Len(todo[h]) = 1
  BY HeadCase DEF Typed, TodoInv
<1>3. \A i \in 1..1 : i = 1
  OBVIOUS
<1>4. v = todo[h][1]
  BY <1>1, <1>2, <1>3 DEF Pending
<1>5. Head(todo[h]) \in Pending(h)
  BY HeadCase
<1>6. Head(todo[h]) = todo[h][1]
  BY <1>2, <1>3, <1>5 DEF Pending
<1> QED BY <1>1, <1>4, <1>6

\* The pending writes when trust was added, or taken back from whom this
\* write, the only one of its request, is about.
LEMMA TrustAdded ==
    ASSUME IInv, NEW h \in Handlers, todo[h] # <<>>, Rest(h), UNCHANGED overlapped,
           vouched \subseteq vouched'
    PROVE  \A g \in Handlers : \A v \in Pending(g)' : v.on \notin overlapped' => VouchedWrite(v)'
<1>1. \A g \in Handlers : Pending(g)' \subseteq Pending(g)
  BY RestCase DEF IInv
<1>2. \A v : VouchedWrite(v) => VouchedWrite(v)'
  BY DEF VouchedWrite
<1> QED BY <1>1, <1>2 DEF IInv, VouchInv

LEMMA TrustTaken ==
    ASSUME IInv, NEW h \in Handlers, todo[h] # <<>>, Rest(h), UNCHANGED overlapped,
           NEW w, w = Head(todo[h]), w.do \in {"clubStatus", "clubRemove", "groupRemove"},
           vouched \ {<<w.on, w.user>>} \subseteq vouched'
    PROVE  \A g \in Handlers : \A v \in Pending(g)' : v.on \notin overlapped' => VouchedWrite(v)'
<1> SUFFICES ASSUME NEW g \in Handlers, NEW v \in Pending(g)', v.on \notin overlapped'
             PROVE  VouchedWrite(v)'
  OBVIOUS
<1>1. v \in Pending(g) /\ g # h
  BY RestCase, RestSingle DEF Single, IInv
<1>2. VouchedWrite(v)
  BY <1>1 DEF IInv, VouchInv
<1>3. v.do \in {"clubStatus", "groupStatus"} => v.on # w.on
  <2> SUFFICES ASSUME v.do \in {"clubStatus", "groupStatus"}, v.on = w.on PROVE FALSE
    OBVIOUS
  <2>1. Scope(v) = v.on /\ Scope(w) = w.on
    BY DEF Scope
  <2>2. w \in Pending(h)
    BY HeadCase DEF IInv
  <2> QED BY <1>1, <2>1, <2>2, OthersElsewhere
<1> QED BY <1>2, <1>3 DEF VouchedWrite

LEMMA VouchCase ==
    ASSUME Typed, NEW w \in Writes, w.on \in Orgs, w.user \in Users, NEW gone \in BOOLEAN, Vouch(w, gone)
    PROVE  /\ vouched' \subseteq Orgs \X Users
           /\ vouched \ {<<w.on, w.user>>} \subseteq vouched'
           /\ ~gone => vouched \subseteq vouched' /\ (w.vouch => <<w.on, w.user>> \in vouched')
<1>1. vouched \subseteq Orgs \X Users /\ <<w.on, w.user>> \in Orgs \X Users /\ w.vouch \in BOOLEAN
  BY DEF Typed, TypeOK, Writes
<1>2. CASE gone
  BY <1>1, <1>2 DEF Vouch
<1>3. CASE ~gone /\ w.vouch
  BY <1>1, <1>3 DEF Vouch
<1>4. CASE ~gone /\ ~w.vouch
  BY <1>1, <1>4 DEF Vouch
<1> QED BY <1>1, <1>2, <1>3, <1>4

ClubRows == [status : ClubStatus \cup {"absent"}, removed : BOOLEAN]
GroupRows == [role : GroupRole, status : GroupStatus \cup {"absent"}, removed : BOOLEAN]

LEMMA ClubSet ==
    ASSUME Typed, NEW c \in Clubs, NEW u \in Users, NEW r \in ClubRows,
           clubRow' = [clubRow EXCEPT ![c] = [clubRow[c] EXCEPT ![u] = r]]
    PROVE  /\ clubRow' \in [Clubs -> [Users -> ClubRows]]
           /\ \A d \in Clubs, v \in Users :
                 clubRow'[d][v] = IF d = c /\ v = u THEN r ELSE clubRow[d][v]
<1>1. clubRow \in [Clubs -> [Users -> ClubRows]]
  BY DEF Typed, TypeOK, ClubRows
<1> HIDE DEF ClubRows
<1> QED BY <1>1

LEMMA GroupSet ==
    ASSUME Typed, NEW c \in Groups, NEW u \in Users, NEW r \in GroupRows,
           groupRow' = [groupRow EXCEPT ![c] = [groupRow[c] EXCEPT ![u] = r]]
    PROVE  /\ groupRow' \in [Groups -> [Users -> GroupRows]]
           /\ \A d \in Groups, v \in Users :
                 groupRow'[d][v] = IF d = c /\ v = u THEN r ELSE groupRow[d][v]
<1>1. groupRow \in [Groups -> [Users -> GroupRows]]
  BY DEF Typed, TypeOK, GroupRows
<1> QED BY <1>1

LEMMA ClubWrites ==
    ASSUME IInv, NEW h \in Handlers, AddClubRow(h) \/ SetClubRow(h) \/ RemoveClubRow(h)
    PROVE  IInv'
<1>1. PICK w : w = Head(todo[h])
  OBVIOUS
<1>2. /\ todo[h] # <<>> /\ Rest(h) /\ w.do \in {"clubAdd", "clubStatus", "clubRemove"}
      /\ UNCHANGED <<made, closed, public, enabled, grants, groupRow, boatRow, requests, overlapped>>
  BY <1>1 DEF AddClubRow, SetClubRow, RemoveClubRow, Next1
<1>3. w \in Writes /\ w \in Pending(h) /\ w.on \in Clubs /\ w.on \in Orgs /\ w.user \in Users
      /\ (w.do # "clubRemove" => w.to \in ClubStatus)
  BY <1>1, <1>2, HeadCase DEF WriteOK, Orgs, IInv
<1> DEFINE c == w.on
           u == w.user
           gone == w.do = "clubRemove" \/ (w.do = "clubStatus" /\ w.to = "deleted")
<1>4. PICK r \in ClubRows :
         \/ UNCHANGED <<clubRow, vouched>> /\ w.do = "clubAdd"
         \/ UNCHANGED clubRow /\ w.do = "clubRemove" /\ clubRow[c][u].status = "absent" /\ Vouch(w, TRUE)
         \/ /\ clubRow' = [clubRow EXCEPT ![c] = [clubRow[c] EXCEPT ![u] = r]]
            /\ r.status = IF w.do = "clubRemove" THEN "deleted" ELSE w.to
            /\ Vouch(w, gone)
  <2>1. clubRow[c][u] \in ClubRows
    BY <1>3 DEF IInv, Typed, TypeOK, ClubRows
  <2>2. w.do = "clubRemove" => [status |-> "deleted", removed |-> TRUE] \in ClubRows
    BY DEF ClubRows, ClubStatus
  <2>3. w.do # "clubRemove" => /\ [clubRow[c][u] EXCEPT !.status = w.to] \in ClubRows
                               /\ [clubRow[c][u] EXCEPT !.status = w.to].status = w.to
    BY <1>3, <2>1 DEF ClubRows
  <2>4. CASE AddClubRow(h)
    <3>1. w.do = "clubAdd"
      BY <1>1, <2>4 DEF AddClubRow, Next1
    <3>2. gone = FALSE
      BY <3>1
    <3>3. \/ UNCHANGED <<clubRow, vouched>>
          \/ clubRow' = [clubRow EXCEPT ![c][u].status = w.to] /\ Vouch(w, FALSE)
      BY <1>1, <2>4 DEF AddClubRow
    <3> QED BY <2>1, <2>3, <3>1, <3>2, <3>3
  <2>5. CASE SetClubRow(h)
    <3>1. w.do = "clubStatus"
      BY <1>1, <2>5 DEF SetClubRow, Next1
    <3>2. gone = (w.to = "deleted")
      BY <3>1
    <3>3. clubRow' = [clubRow EXCEPT ![c][u].status = w.to] /\ Vouch(w, w.to = "deleted")
      BY <1>1, <2>5 DEF SetClubRow
    <3> HIDE DEF gone
    <3> QED BY <2>1, <2>3, <3>1, <3>2, <3>3
  <2>6. CASE RemoveClubRow(h)
    <3>1. w.do = "clubRemove"
      BY <1>1, <2>6 DEF RemoveClubRow, Next1
    <3>2. gone = TRUE
      BY <3>1
    <3>3. /\ Vouch(w, TRUE)
          /\ clubRow' = IF clubRow[c][u].status = "absent" THEN clubRow
                        ELSE [clubRow EXCEPT ![c][u] = [status |-> "deleted", removed |-> TRUE]]
      BY <1>1, <2>6 DEF RemoveClubRow
    <3> QED BY <2>1, <2>2, <3>1, <3>2, <3>3
  <2> QED BY <2>4, <2>5, <2>6
<1>5. Typed /\ clubRow \in [Clubs -> [Users -> ClubRows]] /\ gone \in BOOLEAN
  BY DEF IInv, Typed, TypeOK, ClubRows
<1>6. /\ clubRow' \in [Clubs -> [Users -> ClubRows]]
      /\ \A d \in Clubs, v \in Users : ~(d = c /\ v = u) => clubRow'[d][v] = clubRow[d][v]
      /\ \/ UNCHANGED clubRow
         \/ clubRow'[c][u] = r
  <2>1. CASE UNCHANGED clubRow
    BY <1>5, <2>1
  <2>2. CASE clubRow' = [clubRow EXCEPT ![c] = [clubRow[c] EXCEPT ![u] = r]]
    BY <1>3, <1>5, <2>2, ClubSet
  <2> QED BY <1>4, <2>1, <2>2
<1>7. /\ vouched' \subseteq Orgs \X Users /\ vouched \ {<<c, u>>} \subseteq vouched'
      /\ w.do = "clubAdd" => vouched \subseteq vouched'
  <2>1. CASE UNCHANGED vouched
    BY <1>5, <2>1 DEF Typed, TypeOK
  <2>2. CASE Vouch(w, TRUE) /\ w.do = "clubRemove"
    BY <1>3, <1>5, <2>2, VouchCase
  <2>3. CASE Vouch(w, gone)
    BY <1>3, <1>5, <2>3, VouchCase
  <2> QED BY <1>4, <2>1, <2>2, <2>3
<1>8. Typed'
  <2>1. TypeOK'
    BY <1>2, <1>6, <1>7 DEF IInv, Typed, TypeOK, ClubRows
  <2>2. TodoInv'
    BY <1>2, RestTodo DEF IInv, Typed, TodoInv
  <2> QED BY <2>1, <2>2 DEF Typed
<1>9. AloneInv' /\ BoatInv'
  BY <1>1, <1>2, RestAlone, RestBoat
<1>10. c \notin overlapped => VouchedWrite(w)
  BY <1>3 DEF IInv, VouchInv
<1>11. \A g \in Handlers : \A v \in Pending(g)' : v.on \notin overlapped' => VouchedWrite(v)'
  <2>1. CASE w.do = "clubAdd"
    BY <1>2, <1>7, <2>1, TrustAdded
  <2>2. CASE w.do # "clubAdd"
    BY <1>1, <1>2, <1>7, <2>2, TrustTaken
  <2> QED BY <2>1, <2>2
<1>12. ASSUME NEW d \in Clubs \ overlapped', NEW v \in Users, clubRow'[d][v].status \in LetIn
       PROVE  <<d, v>> \in vouched'
  <2>0. d \notin overlapped
    BY <1>2
  <2>1. CASE ~(d = c /\ v = u)
    <3>1. <<d, v>> \in vouched
      BY <1>6, <1>12, <2>0, <2>1 DEF IInv, VouchInv
    <3> QED BY <1>7, <2>1, <3>1
  <2>2. CASE d = c /\ v = u /\ UNCHANGED <<clubRow, vouched>>
    BY <1>12, <2>0, <2>2 DEF IInv, VouchInv
  <2>3. CASE d = c /\ v = u /\ UNCHANGED clubRow /\ clubRow[c][u].status = "absent"
    BY <1>12, <2>3 DEF LetIn
  <2>4. CASE d = c /\ v = u /\ clubRow' = [clubRow EXCEPT ![c] = [clubRow[c] EXCEPT ![u] = r]]
             /\ r.status = (IF w.do = "clubRemove" THEN "deleted" ELSE w.to) /\ Vouch(w, gone)
    <3>1. clubRow'[c][u] = r
      BY <1>3, <1>5, <2>4, ClubSet
    <3>2. w.do # "clubRemove" /\ w.to \in LetIn /\ ~gone
      BY <1>12, <2>4, <3>1 DEF LetIn
    <3>3. w.vouch \/ <<c, u>> \in vouched
      BY <1>2, <1>10, <2>0, <2>4, <3>2 DEF VouchedWrite, LetIn
    <3> QED BY <1>3, <1>5, <2>4, <3>2, <3>3, VouchCase
  <2> QED BY <1>4, <2>1, <2>2, <2>3, <2>4
<1>13. ASSUME NEW g \in Groups \ overlapped', NEW v \in Users,
              groupRow'[g][v].status \in LetIn, ~groupRow'[g][v].removed
       PROVE  <<g, v>> \in vouched'
  <2>1. <<g, v>> \in vouched
    BY <1>2, <1>13 DEF IInv, VouchInv
  <2>2. g # c
    BY <1>3
  <2> QED BY <1>7, <2>1, <2>2
<1>14. VouchInv'
  BY <1>11, <1>12, <1>13 DEF VouchInv
<1> QED BY <1>8, <1>9, <1>14 DEF IInv

LEMMA GroupWrites ==
    ASSUME IInv, NEW h \in Handlers, AddGroupRow(h) \/ SetGroupStatus(h) \/ RemoveGroupRow(h)
    PROVE  IInv'
<1>1. PICK w : w = Head(todo[h])
  OBVIOUS
<1>2. /\ todo[h] # <<>> /\ Rest(h) /\ w.do \in {"groupAdd", "groupStatus", "groupRemove"}
      /\ UNCHANGED <<made, closed, public, enabled, grants, clubRow, boatRow, requests, overlapped>>
  BY <1>1 DEF AddGroupRow, SetGroupStatus, RemoveGroupRow, Next1
<1>3. /\ w \in Writes /\ w \in Pending(h) /\ w.on \in Groups /\ w.on \in Orgs /\ w.user \in Users
      /\ w.do = "groupAdd" => w.to.role \in GroupRole /\ w.to.status \in GroupStatus
      /\ w.do = "groupStatus" => w.to \in GroupStatus
  BY <1>1, <1>2, HeadCase DEF WriteOK, Orgs, IInv
<1> DEFINE c == w.on
           u == w.user
           old == groupRow[c][u]
           gone == w.do = "groupRemove"
           added == [role |-> w.to.role, status |-> w.to.status, removed |-> FALSE]
<1>4. old \in GroupRows
  BY <1>3 DEF IInv, Typed, TypeOK, GroupRows
<1>5. PICK r \in GroupRows :
         \/ UNCHANGED <<groupRow, vouched>> /\ w.do \in {"groupAdd", "groupStatus"}
         \/ UNCHANGED groupRow /\ gone /\ ~Present(c, u) /\ Vouch(w, TRUE)
         \/ /\ groupRow' = [groupRow EXCEPT ![c] = [groupRow[c] EXCEPT ![u] = r]]
            /\ \/ w.do = "groupAdd" /\ r.status = w.to.status /\ ~r.removed /\ Vouch(w, FALSE)
               \/ w.do = "groupStatus" /\ r.status = w.to /\ Vouch(w, FALSE)
               \/ w.do = "groupRemove" /\ r.removed /\ Vouch(w, TRUE)
  <2>1. w.do = "groupAdd" => added \in GroupRows /\ added.status = w.to.status /\ ~added.removed
    BY <1>3 DEF GroupRows
  <2>2. w.do = "groupStatus" => /\ [old EXCEPT !.status = w.to] \in GroupRows
                                /\ [old EXCEPT !.status = w.to].status = w.to
    BY <1>3, <1>4 DEF GroupRows
  <2>3. [old EXCEPT !.removed = TRUE] \in GroupRows /\ [old EXCEPT !.removed = TRUE].removed
    BY <1>4 DEF GroupRows
  <2>4. CASE AddGroupRow(h)
    <3>1. w.do = "groupAdd"
      BY <1>1, <2>4 DEF AddGroupRow, Next1
    <3>3. \/ UNCHANGED <<groupRow, vouched>>
          \/ groupRow' = [groupRow EXCEPT ![c][u] = added] /\ Vouch(w, FALSE)
      BY <1>1, <2>4 DEF AddGroupRow
    <3> HIDE DEF added
    <3> QED BY <1>4, <2>1, <3>1, <3>3
  <2>5. CASE SetGroupStatus(h)
    <3>1. w.do = "groupStatus"
      BY <1>1, <2>5 DEF SetGroupStatus, Next1
    <3>3. \/ UNCHANGED <<groupRow, vouched>>
          \/ groupRow' = [groupRow EXCEPT ![c][u].status = w.to] /\ Vouch(w, FALSE)
      BY <1>1, <2>5 DEF SetGroupStatus
    <3> QED BY <1>4, <2>2, <3>1, <3>3
  <2>6. CASE RemoveGroupRow(h)
    <3>1. w.do = "groupRemove"
      BY <1>1, <2>6 DEF RemoveGroupRow, Next1
    <3>3. /\ Vouch(w, TRUE)
          /\ groupRow' = IF Present(c, u) THEN [groupRow EXCEPT ![c][u].removed = TRUE] ELSE groupRow
      BY <1>1, <2>6 DEF RemoveGroupRow
    <3> QED BY <1>4, <2>3, <3>1, <3>3
  <2> QED BY <2>4, <2>5, <2>6
<1>6. Typed /\ groupRow \in [Groups -> [Users -> GroupRows]] /\ gone \in BOOLEAN
  BY DEF IInv, Typed, TypeOK, GroupRows
<1>7. /\ groupRow' \in [Groups -> [Users -> GroupRows]]
      /\ \A d \in Groups, v \in Users : ~(d = c /\ v = u) => groupRow'[d][v] = groupRow[d][v]
  <2>1. CASE UNCHANGED groupRow
    BY <1>6, <2>1
  <2>2. CASE groupRow' = [groupRow EXCEPT ![c] = [groupRow[c] EXCEPT ![u] = r]]
    BY <1>3, <1>6, <2>2, GroupSet
  <2> QED BY <1>5, <2>1, <2>2
<1>8. /\ vouched' \subseteq Orgs \X Users /\ vouched \ {<<c, u>>} \subseteq vouched'
      /\ w.do # "groupRemove" => vouched \subseteq vouched'
  <2>1. CASE UNCHANGED vouched
    BY <1>6, <2>1 DEF Typed, TypeOK
  <2>2. CASE Vouch(w, TRUE) /\ w.do = "groupRemove"
    BY <1>3, <1>6, <2>2, VouchCase
  <2>3. CASE Vouch(w, FALSE)
    BY <1>3, <1>6, <2>3, VouchCase
  <2> QED BY <1>5, <2>1, <2>2, <2>3
<1>9. Typed'
  <2>1. TypeOK'
    BY <1>2, <1>7, <1>8 DEF IInv, Typed, TypeOK, GroupRows
  <2>2. TodoInv'
    BY <1>2, RestTodo DEF IInv, Typed, TodoInv
  <2> QED BY <2>1, <2>2 DEF Typed
<1>10. AloneInv' /\ BoatInv'
  BY <1>1, <1>2, RestAlone, RestBoat
<1>11. c \notin overlapped => VouchedWrite(w)
  BY <1>3 DEF IInv, VouchInv
<1>12. \A g \in Handlers : \A v \in Pending(g)' : v.on \notin overlapped' => VouchedWrite(v)'
  <2>1. CASE w.do # "groupRemove"
    BY <1>2, <1>8, <2>1, TrustAdded
  <2>2. CASE w.do = "groupRemove"
    BY <1>1, <1>2, <1>8, <2>2, TrustTaken
  <2> QED BY <2>1, <2>2
<1>13. ASSUME NEW d \in Groups \ overlapped', NEW v \in Users,
              groupRow'[d][v].status \in LetIn, ~groupRow'[d][v].removed
       PROVE  <<d, v>> \in vouched'
  <2>0. d \notin overlapped
    BY <1>2
  <2>1. CASE ~(d = c /\ v = u)
    <3>1. <<d, v>> \in vouched
      BY <1>7, <1>13, <2>0, <2>1 DEF IInv, VouchInv
    <3> QED BY <1>8, <2>1, <3>1
  <2>2. CASE d = c /\ v = u /\ UNCHANGED <<groupRow, vouched>>
    BY <1>13, <2>0, <2>2 DEF IInv, VouchInv
  <2>3. CASE d = c /\ v = u /\ UNCHANGED groupRow /\ ~Present(c, u)
    BY <1>13, <2>3 DEF LetIn, Present
  <2>4. CASE d = c /\ v = u /\ groupRow' = [groupRow EXCEPT ![c] = [groupRow[c] EXCEPT ![u] = r]]
    <3>1. groupRow'[c][u] = r
      BY <1>3, <1>6, <2>4, GroupSet
    <3>2. VouchedWrite(w)
      BY <1>11, <2>0, <2>4
    <3>3. CASE w.do = "groupAdd" /\ r.status = w.to.status /\ Vouch(w, FALSE)
      <4>1. w.vouch
        BY <1>13, <2>4, <3>1, <3>2, <3>3 DEF VouchedWrite, LetIn
      <4> QED BY <1>3, <1>6, <2>4, <3>3, <4>1, VouchCase
    <3>4. CASE w.do = "groupStatus" /\ r.status = w.to /\ Vouch(w, FALSE)
      <4>1. w.vouch \/ <<c, u>> \in vouched
        BY <3>2, <3>4 DEF VouchedWrite
      <4> QED BY <1>3, <1>6, <2>4, <3>4, <4>1, VouchCase
    <3>5. CASE r.removed
      BY <1>13, <2>4, <3>1, <3>5
    <3>6. CASE UNCHANGED <<groupRow, vouched>>
      BY <2>2, <2>4, <3>6
    <3>7. CASE UNCHANGED groupRow /\ ~Present(c, u)
      BY <2>3, <2>4, <3>7
    <3> QED BY <1>5, <3>3, <3>4, <3>5, <3>6, <3>7
  <2> QED BY <1>5, <2>1, <2>2, <2>3, <2>4
<1>14. ASSUME NEW d \in Clubs \ overlapped', NEW v \in Users, clubRow'[d][v].status \in LetIn
       PROVE  <<d, v>> \in vouched'
  <2>1. <<d, v>> \in vouched
    BY <1>2, <1>14 DEF IInv, VouchInv
  <2>2. d # c
    BY <1>3
  <2> QED BY <1>8, <2>1, <2>2
<1>15. VouchInv'
  BY <1>12, <1>13, <1>14 DEF VouchInv
<1> QED BY <1>9, <1>10, <1>15 DEF IInv

LEMMA PlainWrites ==
    ASSUME IInv, NEW h \in Handlers,
           WriteGrants(h) \/ SetGroupRole(h) \/ CheckGroupManager(h) \/ SetVisibility(h)
    PROVE  IInv'
<1>1. PICK w : w = Head(todo[h])
  OBVIOUS
<1>2. /\ todo[h] # <<>> /\ (Rest(h) \/ todo' = [todo EXCEPT ![h] = <<>>])
      /\ w.do \in {"grant", "revoke", "groupRole", "groupCheck", "visibility"}
      /\ UNCHANGED <<made, closed, enabled, clubRow, boatRow, requests, vouched, overlapped>>
  <2>1. CASE WriteGrants(h)
    BY <1>1, <2>1 DEF WriteGrants, Next1
  <2>2. CASE SetGroupRole(h)
    BY <1>1, <2>2 DEF SetGroupRole, Next1
  <2>3. CASE CheckGroupManager(h)
    <3>1. \/ todo' = [todo EXCEPT ![h] = Tail(@)]
          \/ todo' = [todo EXCEPT ![h] = <<>>]
      BY <2>3 DEF CheckGroupManager
    <3> QED BY <1>1, <2>3, <3>1 DEF CheckGroupManager, Next1, tables, Rest
  <2>4. CASE SetVisibility(h)
    BY <1>1, <2>4 DEF SetVisibility, Next1
  <2> QED BY <2>1, <2>2, <2>3, <2>4
<1>3. /\ w \in Writes /\ WriteOK(w)
      /\ w.do = "groupRole" => w.on \in Groups /\ w.user \in Users /\ w.to \in GroupRole
      /\ w.do = "visibility" => w.on \in Groups
      /\ w.do \in {"grant", "revoke"} => w.to \in Grant /\ w.to.scope \in Maybe(made)
  BY <1>1, <1>2, HeadCase DEF WriteOK, IInv
<1>4. grants' \subseteq Grant /\ \A g \in grants' : g.scope \in Maybe(made)
  <2>1. grants \subseteq Grant /\ \A g \in grants : g.scope \in Maybe(made)
    BY DEF IInv, Typed, TypeOK, TodoInv
  <2>2. CASE WriteGrants(h)
    <3>1. w.do \in {"grant", "revoke"} /\ grants' \subseteq grants \cup {w.to}
      BY <1>1, <2>2 DEF WriteGrants, Next1
    <3> QED BY <1>3, <2>1, <3>1
  <2>3. CASE UNCHANGED grants
    BY <2>1, <2>3
  <2>4. WriteGrants(h) \/ UNCHANGED grants
    BY DEF SetGroupRole, CheckGroupManager, SetVisibility, tables
  <2> QED BY <2>2, <2>3, <2>4
<1>5. public' \subseteq Groups
  <2>1. public \subseteq Groups
    BY DEF IInv, Typed, TypeOK
  <2>2. CASE SetVisibility(h)
    <3>1. w.do = "visibility" /\ public' \subseteq public \cup {w.on}
      BY <1>1, <2>2 DEF SetVisibility, Next1
    <3> QED BY <1>3, <2>1, <3>1
  <2>3. SetVisibility(h) \/ UNCHANGED public
    BY DEF SetGroupRole, CheckGroupManager, WriteGrants, tables
  <2> QED BY <2>1, <2>2, <2>3
<1>6. /\ groupRow' \in [Groups -> [Users -> GroupRows]]
      /\ \A g \in Groups, u \in Users : groupRow'[g][u].status = groupRow[g][u].status
                                        /\ groupRow'[g][u].removed = groupRow[g][u].removed
  <2>1. groupRow \in [Groups -> [Users -> GroupRows]]
    BY DEF IInv, Typed, TypeOK, GroupRows
  <2>2. CASE SetGroupRole(h)
    <3>1. w.do = "groupRole" /\ groupRow' = [groupRow EXCEPT ![w.on][w.user].role = w.to]
      BY <1>1, <2>2 DEF SetGroupRole, Next1
    <3> DEFINE r == [groupRow[w.on][w.user] EXCEPT !.role = w.to]
    <3>2. groupRow[w.on][w.user] \in GroupRows
      BY <1>3, <2>1, <3>1
    <3>3. /\ r \in GroupRows /\ r.status = groupRow[w.on][w.user].status
          /\ r.removed = groupRow[w.on][w.user].removed
      BY <1>3, <3>1, <3>2 DEF GroupRows
    <3>4. groupRow' = [groupRow EXCEPT ![w.on] = [groupRow[w.on] EXCEPT ![w.user] = r]]
      BY <3>1
    <3> HIDE DEF r
    <3>5. Typed /\ w.on \in Groups /\ w.user \in Users
      BY <1>3, <3>1 DEF IInv
    <3>6. /\ groupRow' \in [Groups -> [Users -> GroupRows]]
          /\ \A d \in Groups, v \in Users :
                groupRow'[d][v] = IF d = w.on /\ v = w.user THEN r ELSE groupRow[d][v]
      BY <2>1, <3>3, <3>4, <3>5
    <3> QED BY <3>3, <3>6
  <2>3. SetGroupRole(h) \/ UNCHANGED groupRow
    BY DEF SetVisibility, CheckGroupManager, WriteGrants, tables
  <2> QED BY <2>1, <2>2, <2>3
<1>7. Typed'
  <2>1. TypeOK'
    BY <1>2, <1>4, <1>5, <1>6 DEF IInv, Typed, TypeOK, GroupRows
  <2>2. TodoInv'
    BY <1>2, <1>4, RestTodo DEF IInv
  <2> QED BY <2>1, <2>2 DEF Typed
<1>8. AloneInv' /\ BoatInv' /\ VouchInv'
  BY <1>1, <1>2, <1>6, RestAlone, RestBoat, RestVouch
<1> QED BY <1>7, <1>8 DEF IInv

LEMMA OpeningKept ==
    ASSUME IInv, NEW h \in Handlers, todo[h] # <<>>, Rest(h), NEW b, Opening(b),
           Head(todo[h]).do # "boatAdd" \/ Head(todo[h]).on # b
    PROVE  Opening(b)'
<1>1. PICK g \in Handlers : \E v \in Pending(g) : v.do = "boatAdd" /\ v.on = b /\ v.to = "owner"
  BY DEF Opening
<1>2. PICK v \in Pending(g) : v.do = "boatAdd" /\ v.on = b /\ v.to = "owner"
  BY <1>1
<1>3. g # h
  BY <1>2, HeadCase DEF Single, IInv
<1>4. v \in Pending(g)'
  BY <1>2, <1>3, RestCase DEF IInv
<1> QED BY <1>2, <1>4 DEF Opening

LEMMA CloseKeeps ==
    ASSUME IInv, NEW h \in Handlers, Close(h)
    PROVE  IInv'
<1>1. PICK w : w = Head(todo[h])
  OBVIOUS
<1>2. /\ todo[h] # <<>> /\ Rest(h) /\ w.do = "close" /\ closed' = closed \cup {w.on}
      /\ boatRow' = [b \in Boats |-> IF b = w.on THEN [u \in Users |-> "absent"] ELSE boatRow[b]]
      /\ UNCHANGED <<made, public, enabled, grants, clubRow, groupRow, requests, vouched, overlapped>>
  BY <1>1 DEF Close, Next1
<1>3. w.on \in made
  BY <1>1, <1>2, HeadCase DEF WriteOK, IInv
<1>4. Typed'
  <2>1. TypeOK'
    BY <1>2, <1>3 DEF IInv, Typed, TypeOK
  <2>2. TodoInv'
    BY <1>2, RestTodo DEF IInv, Typed, TodoInv
  <2> QED BY <2>1, <2>2 DEF Typed
<1>5. AloneInv' /\ VouchInv'
  BY <1>2, RestAlone, RestVouch
<1>6. BoatInv'
  <2>1. \A b \in Boats : IF b = w.on THEN Empty(b)' ELSE Owners(b)' = Owners(b) /\ (Empty(b)' <=> Empty(b))
    BY <1>2 DEF Owners, Empty
  <2>2. ASSUME NEW g \in Handlers, NEW v \in Pending(g)', v.on \notin overlapped' \cup closed'
        PROVE  OwnerWrite(v)'
    <3>1. v \in Pending(g)
      BY <1>2, RestCase DEF IInv
    <3>2. OwnerWrite(v) /\ v.on # w.on
      BY <1>2, <2>2, <3>1 DEF IInv, BoatInv
    <3>3. v.do \in {"boatAdd", "boatRole", "boatRemove"} => v.on \in Boats
      BY <3>1, PendingType DEF WriteOK, IInv
    <3> QED BY <2>1, <3>2, <3>3 DEF OwnerWrite
  <2>3. ASSUME NEW b \in (Boats \cap made') \ (closed' \cup overlapped')
        PROVE  Owners(b)' # {} \/ (Opening(b)' /\ Empty(b)')
    <3>1. b # w.on /\ (Owners(b) # {} \/ (Opening(b) /\ Empty(b)))
      BY <1>2 DEF IInv, BoatInv
    <3>2. Opening(b) => Opening(b)'
      BY <1>1, <1>2, OpeningKept
    <3> QED BY <2>1, <3>1, <3>2
  <2>4. \A b \in Boats : b \in closed' \/ b \notin made' => Empty(b)'
    BY <1>2, <2>1 DEF IInv, BoatInv
  <2> QED BY <2>2, <2>3, <2>4 DEF BoatInv
<1> QED BY <1>4, <1>5, <1>6 DEF IInv

LEMMA BoatWrites ==
    ASSUME IInv, NEW h \in Handlers, AddBoatRow(h) \/ WriteBoatRow(h)
    PROVE  IInv'
<1>1. PICK w : w = Head(todo[h])
  OBVIOUS
<1>2. /\ todo[h] # <<>> /\ Rest(h) /\ w.do \in {"boatAdd", "boatRole", "boatRemove"}
      /\ UNCHANGED <<made, closed, public, enabled, grants, clubRow, groupRow, requests, vouched, overlapped>>
  BY <1>1 DEF AddBoatRow, WriteBoatRow, Next1
<1> DEFINE b == w.on
           u == w.user
           there == IF w.do = "boatAdd" THEN b \in OpenBoats /\ boatRow[b][u] = "absent"
                    ELSE boatRow[b][u] # "absent"
<1>3. /\ w \in Writes /\ w \in Pending(h) /\ b \in Boats \cap made /\ u \in Users
      /\ w.to \in BoatRole \cup {"absent"}
      /\ w.do \in {"boatAdd", "boatRole"} => w.to \in BoatRole
      /\ w.do = "boatRemove" => w.to = "absent"
  BY <1>1, <1>2, HeadCase DEF WriteOK, IInv
<1>4. boatRow' = IF there THEN [boatRow EXCEPT ![b] = [boatRow[b] EXCEPT ![u] = w.to]] ELSE boatRow
  <2>1. CASE AddBoatRow(h)
    BY <1>1, <2>1 DEF AddBoatRow, Next1
  <2>2. CASE WriteBoatRow(h)
    BY <1>1, <2>2 DEF WriteBoatRow, Next1
  <2> QED BY <2>1, <2>2
<1>5. boatRow \in [Boats -> [Users -> BoatRole \cup {"absent"}]]
  BY DEF IInv, Typed, TypeOK
<1>6. /\ boatRow' \in [Boats -> [Users -> BoatRole \cup {"absent"}]]
      /\ \A d \in Boats, v \in Users :
            boatRow'[d][v] = IF there /\ d = b /\ v = u THEN w.to ELSE boatRow[d][v]
  BY <1>3, <1>4, <1>5
<1>7. Typed'
  <2>1. TypeOK'
    BY <1>2, <1>6 DEF IInv, Typed, TypeOK
  <2>2. TodoInv'
    BY <1>2, RestTodo DEF IInv, Typed, TodoInv
  <2> QED BY <2>1, <2>2 DEF Typed
<1>8. AloneInv' /\ VouchInv'
  BY <1>2, RestAlone, RestVouch
<1>9. \A d \in Boats : d # b => Owners(d)' = Owners(d) /\ (Empty(d)' <=> Empty(d))
  BY <1>6 DEF Owners, Empty
<1>10. Scope(w) = b /\ Pending(h)' = {}
  BY <1>1, <1>2, RestSingle DEF Scope, Single, IInv
<1>11. \A d \in Boats : d \in closed' \/ d \notin made' => Empty(d)'
  <2> SUFFICES ASSUME NEW d \in Boats, d \in closed \/ d \notin made PROVE Empty(d)'
    BY <1>2
  <2>1. Empty(d)
    BY DEF IInv, BoatInv
  <2>2. CASE d = b
    <3>1. ~there
      BY <1>3, <2>1, <2>2 DEF Empty, OpenBoats
    <3> QED BY <1>6, <2>1, <3>1 DEF Empty
  <2>3. CASE d # b
    BY <1>9, <2>1, <2>3
  <2> QED BY <2>2, <2>3
<1>12. ASSUME NEW g \in Handlers, NEW v \in Pending(g)', v.on \notin overlapped' \cup closed'
       PROVE  OwnerWrite(v)'
  <2>1. v \in Pending(g) /\ g # h
    BY <1>2, <1>10, RestCase DEF IInv
  <2>2. OwnerWrite(v)
    BY <1>2, <1>12, <2>1 DEF IInv, BoatInv
  <2>3. v.do \in {"boatAdd", "boatRole", "boatRemove"} => v.on \in Boats /\ Scope(v) = v.on
    BY <2>1, PendingType DEF WriteOK, Scope, IInv
  <2>4. v.do \in {"boatAdd", "boatRole", "boatRemove"} => v.on # b
    BY <1>2, <1>3, <1>10, <1>12, <2>1, <2>3, OthersElsewhere
  <2> QED BY <1>9, <2>2, <2>3, <2>4 DEF OwnerWrite
<1>13. ASSUME NEW d \in (Boats \cap made') \ (closed' \cup overlapped')
       PROVE  Owners(d)' # {} \/ (Opening(d)' /\ Empty(d)')
  <2>1. d \in Boats \cap made /\ d \notin closed \cup overlapped /\ d \in OpenBoats
    BY <1>2 DEF OpenBoats
  <2>2. Owners(d) # {} \/ (Opening(d) /\ Empty(d))
    BY <2>1 DEF IInv, BoatInv
  <2>3. CASE d # b
    <3>1. Opening(d) => Opening(d)'
      BY <1>1, <1>2, <2>3, OpeningKept
    <3> QED BY <1>9, <2>1, <2>2, <2>3, <3>1
  <2>4. CASE d = b
    <3>1. OwnerWrite(w)
      BY <1>3, <2>1, <2>4 DEF IInv, BoatInv
    <3>2. CASE w.do = "boatAdd"
      <4>1. CASE Owners(b) # {}
        <5>1. PICK o \in Users : boatRow[b][o] = "owner"
          BY <4>1 DEF Owners
        <5>2. boatRow'[b][o] = "owner"
          BY <1>3, <1>6, <3>2, <5>1
        <5> QED BY <2>4, <5>2 DEF Owners
      <4>2. CASE Owners(b) = {}
        <5>1. w.to = "owner" /\ there
          BY <1>3, <2>1, <2>2, <2>4, <3>1, <3>2, <4>2 DEF OwnerWrite, Empty
        <5>2. boatRow'[b][u] = "owner"
          BY <1>3, <1>6, <5>1
        <5> QED BY <1>3, <2>4, <5>2 DEF Owners
      <4> QED BY <4>1, <4>2
    <3>3. CASE w.do # "boatAdd"
      <4>1. ~Opening(b)
        <5> SUFFICES ASSUME NEW g \in Handlers, NEW v \in Pending(g), v.do = "boatAdd", v.on = b PROVE FALSE
          BY DEF Opening
        <5>1. g # h
          BY <1>1, <1>2, <3>3, HeadCase DEF Single, IInv
        <5>2. Scope(v) = b
          BY DEF Scope
        <5> QED BY <1>3, <1>10, <2>1, <2>4, <5>1, <5>2, OthersElsewhere
      <4>2. PICK o \in Users : boatRow[b][o] = "owner" /\ (w.to = "owner" \/ o # u)
        BY <1>2, <2>2, <2>4, <3>1, <3>3, <4>1 DEF OwnerWrite, Owners
      <4>3. boatRow'[b][o] = "owner"
        BY <1>3, <1>6, <4>2
      <4> QED BY <2>4, <4>3 DEF Owners
    <3> QED BY <3>2, <3>3
  <2> QED BY <2>3, <2>4
<1>14. BoatInv'
  BY <1>11, <1>12, <1>13 DEF BoatInv
<1> QED BY <1>7, <1>8, <1>14 DEF IInv

-----------------------------------------------------------------------------
LEMMA Inductive == IInv /\ [Next]_vars => IInv'
<1> SUFFICES ASSUME IInv, [Next]_vars PROVE IInv'
  OBVIOUS
<1>1. ASSUME NEW h \in Handlers, Apply(h) PROVE IInv'
  BY <1>1, ClubWrites, GroupWrites, PlainWrites, CloseKeeps, BoatWrites DEF Apply
<1>2. ASSUME NEW h \in Handlers, NEW who \in Actors, NEW c \in Clubs, ClubRequest(h, who, c) PROVE IInv'
  BY <1>2, ClubAsks, BeginKeeps, Creates DEF ClubRequest
<1>3. ASSUME NEW h \in Handlers, NEW who \in Actors, NEW g \in Groups, GroupRequest(h, who, g) PROVE IInv'
  BY <1>3, GroupAsks, MemberAsks, BeginKeeps, Creates DEF GroupRequest
<1>4. ASSUME NEW h \in Handlers, NEW who \in Actors, NEW b \in Boats, BoatRequest(h, who, b) PROVE IInv'
  BY <1>4, BoatAsks, BeginKeeps, Creates DEF BoatRequest
<1>5. ASSUME NEW h \in Handlers, NEW who \in Actors, NEW g \in Grant,
             GrantRole(h, who, g) \/ RevokeRole(h, who, g) PROVE IInv'
  BY <1>5, RoleAsks, BeginKeeps
<1>6. CASE UNCHANGED vars
  <2>1. requests' \in 0..MaxRequests /\ public' \subseteq Groups /\ enabled' \subseteq Users
    BY <1>6 DEF vars, tables, IInv, Typed, TypeOK
  <2> QED BY <1>6, <2>1, Frame DEF vars, tables
<1> QED BY <1>1, <1>2, <1>3, <1>4, <1>5, <1>6, DeleteUserKeeps DEF Next

LEMMA Start == Init => IInv
<1> SUFFICES ASSUME Init PROVE IInv
  OBVIOUS
<1>1. AloneInv
  BY StartEmpty DEF AloneInv, Scopes
<1>2. BoatInv
  BY StartEmpty DEF Init, BoatInv, Empty
<1>3. VouchInv
  BY StartEmpty DEF Init, VouchInv, NoClubRow, NoGroupRow, LetIn
<1> QED BY <1>1, <1>2, <1>3, TypedInit DEF IInv

\* Every reachable state is well typed.
THEOREM TypeSafety == Spec => []TypeOK
<1>1. IInv => TypeOK
  BY DEF IInv, Typed
<1> QED BY <1>1, Start, Inductive, PTL DEF Spec

\* A boat that has members has an owner, unless requests for it overlapped: the
\* check that the last owner stays is made before the write, and is enough as
\* long as no other request for the boat comes between.
THEOREM OwnerStays == Spec => []BoatKeepsOwner
<1>1. IInv => BoatKeepsOwner
  <2> SUFFICES ASSUME IInv, NEW b \in Boats \ overlapped, NEW u \in Users, boatRow[b][u] # "absent"
               PROVE  Owners(b) # {}
    BY DEF BoatKeepsOwner
  <2>1. ~Empty(b)
    BY DEF Empty
  <2>2. b \in made /\ b \notin closed
    BY <2>1 DEF IInv, BoatInv
  <2> QED BY <2>1, <2>2 DEF IInv, BoatInv
<1> QED BY <1>1, Start, Inductive, PTL DEF Spec

\* Nobody is an active member of a club or group who was not let in by one who
\* manages it since he last left, unless requests for it overlapped.
THEOREM MembersWereLetIn == Spec => []ActiveWasVouched
<1>1. IInv => ActiveWasVouched
  BY DEF IInv, VouchInv, ActiveWasVouched, ClubMember, GroupMember, LetIn
<1> QED BY <1>1, Start, Inductive, PTL DEF Spec

-----------------------------------------------------------------------------
(* What the pages show.                                                    *)

LEMMA Accounts == TypeOK => \A u \in enabled : u \in Users /\ u # Root
BY DEF TypeOK

\* The list of activities is as wide as the rule for one, and no wider but for
\* club visibility without a club.
LEMMA SameList ==
    ASSUME TypeOK, NEW a \in Activities, NEW u \in enabled
    PROVE  /\ VisibleTo(a, u) => VisibilityClause(a, u)
           /\ VisibilityClause(a, u) /\ ~(a.visibility = "club" /\ a.club = None) => VisibleTo(a, u)
<1>1. /\ a.club \in Maybe(Clubs) /\ a.group \in Maybe(Groups)
      /\ None \notin Clubs /\ None \notin Groups
  BY DEF Orgs
<1>2. u \in Users /\ u # Root
  BY Accounts
<1>3. a.group # None /\ GroupMember(a.group, u, GroupRole)
        <=> a.group \in {g \in Groups : GroupMember(g, u, GroupRole)}
  BY <1>1 DEF Maybe
<1>4. ASSUME a.club # None
      PROVE  ClubMember(a.club, u) \/ HasPermission(u, "club.manage", a.club)
               <=> \/ a.club \in {c \in Clubs : ClubMember(c, u)}
                   \/ a.club \in {g.scope : g \in Managing(u)} \ {None}
                   \/ \E g \in Managing(u) : g.scope = None
  <2>1. a.club \in Clubs
    BY <1>1, <1>4 DEF Maybe
  <2>2. HasPermission(u, "club.manage", a.club)
          <=> \E g \in Managing(u) : g.scope = None \/ g.scope = a.club
    BY <1>2, <1>4 DEF HasPermission, Managing
  <2> QED BY <1>4, <2>1, <2>2
<1> QED BY <1>1, <1>2, <1>3, <1>4 DEF VisibleTo, VisibilityClause

LEMMA SameSessions ==
    ASSUME TypeOK, NEW s \in Sessions, NEW u \in enabled,
           ~(s.activity.visibility = "club" /\ s.activity.club = None)
    PROVE  SessionVisibleTo(s, u) <=> s \in MySessions(u) \/ VisibilityClause(s.activity, u)
<1>1. s.activity \in Activities /\ s.boat \in Boats
  OBVIOUS
<1>2. u \in Users /\ u # Root
  BY Accounts
<1>3. BoatManager(u, s.boat, BoatRole) <=> boatRow[s.boat][u] # "absent"
  <2>1. boatRow[s.boat][u] \in BoatRole \cup {"absent"} /\ "absent" \notin BoatRole
    BY <1>1, <1>2 DEF TypeOK, BoatRole
  <2> QED BY <1>2, <2>1 DEF BoatManager
<1> QED BY <1>1, <1>2, <1>3, SameList DEF SessionVisibleTo, MySessions

LEMMA SameFeeds ==
    ASSUME TypeOK, NEW u \in enabled
    PROVE  /\ \A a \in MemberFeed(u) : \/ a.visibility = "club" /\ a.club = None
                                       \/ a.club \in Clubs /\ clubRow[a.club][u].removed
                                       \/ a \in Upcoming(u)
           /\ \A a \in Upcoming(u) : a \in MemberFeed(u)
<1>1. ASSUME NEW a \in MemberFeed(u), ~(a.visibility = "club" /\ a.club = None),
             ~(a.club \in Clubs /\ clubRow[a.club][u].removed)
      PROVE  a \in Upcoming(u)
  <2>1. a \in Activities /\ VisibleTo(a, u)
    BY <1>1, SameList DEF MemberFeed, JoinedBy
  <2> QED BY <1>1, <2>1 DEF MemberFeed, Upcoming, JoinedBy
<1>2. ASSUME NEW a \in Upcoming(u)
      PROVE  a \in MemberFeed(u)
  <2>1. a \in Activities /\ VisibilityClause(a, u)
    BY <1>2, SameList DEF Upcoming, JoinedBy
  <2> QED BY <1>2, <2>1 DEF MemberFeed, Upcoming, JoinedBy
<1> QED BY <1>1, <1>2

\* The browser sorts a user's grants by club; the server asks for one club.
LEMMA SameChecks ==
    ASSUME TypeOK, NEW u \in enabled \cup {Root}, NEW c \in Clubs
    PROVE  Can(u, c) = {key \in ClubKeys \cup RaceKeys : HasPermission(u, key, c)}
<1>1. CASE u = Root
  BY <1>1 DEF Can, HasPermission
<1>2. CASE u # Root
  <2>1. u \in enabled /\ c # None
    BY <1>2 DEF Orgs
  <2>2. \A role : RoleKeys(role) \subseteq ClubKeys \cup RaceKeys
    BY DEF RoleKeys
  <2>3. \A key : key \in KeysOf(u, None) \cup KeysOf(u, c)
                   <=> \E g \in grants : /\ g.user = u /\ key \in RoleKeys(g.role)
                                         /\ g.scope = None \/ g.scope = c
    BY DEF KeysOf
  <2>4. \A key : HasPermission(u, key, c)
                   <=> \E g \in grants : /\ g.user = u /\ key \in RoleKeys(g.role)
                                         /\ g.scope = None \/ g.scope = c
    BY <1>2, <2>1 DEF HasPermission
  <2>5. Can(u, c) = KeysOf(u, None) \cup KeysOf(u, c)
    BY <1>2 DEF Can
  <2> QED BY <2>2, <2>3, <2>4, <2>5
<1> QED BY <1>1, <1>2

\* Every page shows what the rules allow, for any clubs, groups, grants and
\* activities: the list of activities, the sessions, the feeds of a user's clubs
\* and groups, and the checks in the browser.
THEOREM PagesAgree == Spec => []SameVisibility
<1>1. TypeOK => SameVisibility
  BY SameList, SameSessions, SameFeeds, SameChecks DEF SameVisibility
<1>2. Spec => []TypeOK
  BY TypeSafety
<1> QED BY <1>1, <1>2, PTL
=============================================================================
