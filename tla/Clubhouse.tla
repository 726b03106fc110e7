----------------------------- MODULE Clubhouse -----------------------------
(***************************************************************************)
(* Who belongs to clubs, groups and boats, which roles are granted, and    *)
(* what that lets a user see.  An endpoint first reads and checks, then    *)
(* writes one row per transaction; requests of several users interleave    *)
(* between the two.  Names, photos and other plain fields are left out.    *)
(***************************************************************************)
EXTENDS Naturals, Sequences, FiniteSets

CONSTANTS
    Users,
    Root,           \* the superadmin
    Clubs, Groups, Boats,
    Activities,     \* the activities users may look at
    Sessions,       \* the sessions of boats in them
    Handlers,       \* requests the server works on at a time
    MaxOrgs,        \* bound: clubs, groups and boats created
    MaxRequests,    \* bound: requests that change something
    None

Actors == Users \cup {Root}
Orgs == Clubs \cup Groups \cup Boats
Maybe(S) == S \cup {None}

ASSUME ClubhouseAssumption ==
    /\ Root \notin Users /\ None \notin Actors \cup Orgs
    /\ Clubs \cap Groups = {} /\ Clubs \cap Boats = {} /\ Groups \cap Boats = {}
    /\ MaxRequests \in Nat
    /\ Activities \subseteq [visibility : {"public", "club", "group", "private"},
                             club : Maybe(Clubs), group : Maybe(Groups),
                             creator : Maybe(Actors), crew : SUBSET Users]
    /\ Sessions \subseteq [boat : Boats, crew : SUBSET Users, activity : Activities]
    /\ \A s \in Sessions : s.crew \subseteq s.activity.crew

VARIABLES
    made,       \* clubs, groups and boats created
    closed,     \* clubs deactivated, groups and boats deleted
    public,     \* groups with visibility "public"
    enabled,    \* users whose account is not deleted
    grants,     \* rows of user_roles
    clubRow,    \* [Clubs -> [Users -> row of user_clubs]]
    groupRow,   \* [Groups -> [Users -> row of user_groups]]
    boatRow,    \* [Boats -> [Users -> role in user_boats]]
    todo,       \* [Handlers -> writes the request has yet to make]
    requests,   \* requests begun
    vouched,    \* history: <<club or group, user>> a manager invited or approved
    overlapped  \* history: clubs, groups and boats two requests worked on at once

tables == <<made, closed, public, enabled, grants, clubRow, groupRow, boatRow>>
vars == <<tables, todo, requests, vouched, overlapped>>

ClubStatus == {"invited", "requested", "active", "deleted"}
GroupRole == {"owner", "admin", "member"}
GroupStatus == {"invited", "requested", "active"}
BoatRole == {"owner", "admin", "visitor"}
Grant == [user : Users, role : {"club_admin", "race_officer"}, scope : Maybe(Clubs)]

NoClubRow == [status |-> "absent", removed |-> FALSE]
NoGroupRow == [role |-> "member", status |-> "absent", removed |-> FALSE]

Init ==
    /\ made = {} /\ closed = {} /\ public = {} /\ enabled = Users /\ grants = {}
    /\ clubRow = [c \in Clubs |-> [u \in Users |-> NoClubRow]]
    /\ groupRow = [g \in Groups |-> [u \in Users |-> NoGroupRow]]
    /\ boatRow = [b \in Boats |-> [u \in Users |-> "absent"]]
    /\ todo = [h \in Handlers |-> <<>>]
    /\ requests = 0 /\ vouched = {} /\ overlapped = {}

-----------------------------------------------------------------------------
(* Checks.                                                                 *)

ClubKeys == {"club.manage", "user_club.manage", "user_role.manage_scoped", "club_post.manage"}
RaceKeys == {"regatta.manage", "raceday.manage", "race.manage", "result.manage",
             "mark.manage", "activity.manage"}
RoleKeys(role) == IF role = "club_admin" THEN ClubKeys \cup RaceKeys ELSE RaceKeys

\* A grant scoped to another club does not count; without a club any grant does.
HasPermission(u, key, c) ==
    \/ u = Root
    \/ /\ u \in enabled
       /\ \E g \in grants : g.user = u /\ key \in RoleKeys(g.role)
                            /\ (g.scope = None \/ c = None \/ g.scope = c)

ClubMember(c, u) == u \in Users /\ clubRow[c][u].status = "active"

GroupMember(g, u, roles) ==
    u \in Users /\ groupRow[g][u].status = "active" /\ ~groupRow[g][u].removed
    /\ groupRow[g][u].role \in roles

GroupManager(u, g, roles) == u = Root \/ GroupMember(g, u, roles)

BoatManager(u, b, roles) == u = Root \/ (u \in Users /\ boatRow[b][u] \in roles)
Owners(b) == {u \in Users : boatRow[b][u] = "owner"}
OnlyOwner(b, u) == boatRow[b][u] = "owner" /\ Cardinality(Owners(b)) <= 1

-----------------------------------------------------------------------------
(* Requests: what an endpoint will write once its checks have passed.      *)

\* A write: do is the repository method, by the caller.
Write(do, by, on, u, to, vouch) ==
    [do |-> do, by |-> by, on |-> on, user |-> u, to |-> to, vouch |-> vouch]
Scope(w) == IF w.do \in {"grant", "revoke"} THEN w.to.scope ELSE w.on
Busy == UNION {{Scope(todo[h][i]) : i \in 1..Len(todo[h])} : h \in Handlers}

Begin(h, writes) ==
    /\ todo[h] = <<>> /\ requests < MaxRequests
    /\ requests' = requests + 1
    /\ todo' = [todo EXCEPT ![h] = writes]
    /\ overlapped' = overlapped \cup ({Scope(writes[i]) : i \in 1..Len(writes)} \cap Busy)
    /\ UNCHANGED vouched

Ask(h, writes) == Begin(h, writes) /\ UNCHANGED tables

Create(h, x, writes) ==
    /\ x \notin made /\ Cardinality(made) < MaxOrgs
    /\ made' = made \cup {x}
    /\ todo[h] = <<>> /\ todo' = [todo EXCEPT ![h] = writes]
    /\ UNCHANGED <<closed, enabled, grants, clubRow, groupRow, boatRow, requests, vouched, overlapped>>

CreateClub(h, who, c) ==
    /\ Create(h, c, <<Write("clubAdd", who, c, who, "active", TRUE),
                      Write("grant", who, c, who,
                            [user |-> who, role |-> "club_admin", scope |-> c], FALSE)>>)
    /\ UNCHANGED public

\* Joining by oneself is a request; a manager adds anyone, in any status.
AddClubMember(h, who, c, u, status) ==
    LET manages == HasPermission(who, "user_club.manage", c) IN
    /\ c \in made
    /\ IF manages THEN TRUE ELSE u = who /\ status = "requested"
    /\ Ask(h, <<Write("clubAdd", who, c, u, status, manages)>>)

\* Mutant: who asked to join may let himself in.
SetClubStatusAny(h, who, c, u, status) ==
    /\ c \in made /\ clubRow[c][u].status # "absent"
    /\ \/ who = u /\ clubRow[c][u].status \in {"invited", "requested"} /\ status = "active"
       \/ HasPermission(who, "user_club.manage", c)
    /\ Ask(h, <<Write("clubStatus", who, c, u, status, HasPermission(who, "user_club.manage", c))>>)

\* Managers set any status; the invited user may accept.
SetClubStatus(h, who, c, u, status) ==
    LET manages == HasPermission(who, "user_club.manage", c) IN
    /\ c \in made /\ clubRow[c][u].status # "absent"
    /\ \/ who = u /\ clubRow[c][u].status = "invited" /\ status = "active"
       \/ manages
    /\ Ask(h, <<Write("clubStatus", who, c, u, status, manages)>>)

RemoveClubMember(h, who, c, u) ==
    /\ c \in made
    /\ who = u \/ HasPermission(who, "user_club.manage", c)
    /\ Ask(h, <<Write("clubRemove", who, c, u, "deleted", FALSE)>>)

DeactivateClub(h, who, c) ==
    /\ c \in made /\ HasPermission(who, "club.manage", c)
    /\ Ask(h, <<Write("close", who, c, None, "closed", FALSE)>>)

MayGrant(who, g) ==
    who = Root \/ (g.scope # None /\ HasPermission(who, "user_role.manage_scoped", g.scope))

GrantRole(h, who, g) ==
    /\ g.scope \in Maybe(made) /\ MayGrant(who, g)
    /\ Ask(h, <<Write("grant", who, g.scope, g.user, g, FALSE)>>)

RevokeRole(h, who, g) ==
    /\ g \in grants /\ MayGrant(who, g)
    /\ Ask(h, <<Write("revoke", who, g.scope, g.user, g, FALSE)>>)

OpenGroups == (Groups \cap made) \ closed

CreateGroup(h, who, g) ==
    /\ Create(h, g, <<Write("groupAdd", who, g, who, [role |-> "owner", status |-> "active"], TRUE)>>)
    /\ public' \in {public, public \cup {g}}

UpdateGroup(h, who, g) ==
    /\ g \in OpenGroups /\ GroupManager(who, g, {"owner", "admin"})
    /\ Ask(h, <<Write("visibility", who, g, None, "flip", FALSE)>>)

DeleteGroup(h, who, g) ==
    /\ g \in OpenGroups /\ GroupManager(who, g, {"owner"})
    /\ Ask(h, <<Write("close", who, g, None, "closed", FALSE)>>)

\* A public group may be asked for; a manager invites, and adds only himself.
AddGroupMember(h, who, g, u, role) ==
    LET manages == GroupManager(who, g, {"owner", "admin"})
        status == IF ~manages THEN "requested" ELSE IF u = who THEN "active" ELSE "invited"
    IN
    /\ g \in OpenGroups
    /\ manages \/ (u = who /\ g \in public /\ role = "member")
    /\ Ask(h, <<Write("groupAdd", who, g, u, [role |-> role, status |-> status], manages)>>)

Present(g, u) == groupRow[g][u].status # "absent" /\ ~groupRow[g][u].removed

\* An owner changes the role, which is written before the status is checked.
UpdateGroupMember(h, who, g, u, role, status) ==
    LET accepts == who = u /\ groupRow[g][u].status = "invited" /\ status = "active"
        set == Write("groupStatus", who, g, u, status, ~accepts)
    IN
    /\ g \in OpenGroups /\ Present(g, u)
    /\ role # None => GroupManager(who, g, {"owner"})
    /\ role = None => accepts \/ GroupManager(who, g, {"owner", "admin"})
    /\ Ask(h, (IF role = None THEN <<>> ELSE <<Write("groupRole", who, g, u, role, FALSE)>>)
              \o (IF role = None \/ status = None \/ accepts THEN <<>>
                  ELSE <<Write("groupCheck", who, g, who, "manager", FALSE)>>)
              \o (IF status = None THEN <<>> ELSE <<set>>))

RemoveGroupMember(h, who, g, u) ==
    /\ g \in OpenGroups
    /\ who = u \/ GroupManager(who, g, {"owner", "admin"})
    /\ Ask(h, <<Write("groupRemove", who, g, u, "removed", FALSE)>>)

OpenBoats == (Boats \cap made) \ closed

CreateBoat(h, who, b) ==
    /\ Create(h, b, <<Write("boatAdd", who, b, who, "owner", FALSE)>>)
    /\ UNCHANGED public

AddBoatMember(h, who, b, u, role) ==
    /\ b \in OpenBoats /\ BoatManager(who, b, {"owner", "admin"})
    /\ Ask(h, <<Write("boatAdd", who, b, u, role, FALSE)>>)

\* The only owner keeps the role.
SetBoatRole(h, who, b, u, role) ==
    /\ b \in OpenBoats /\ BoatManager(who, b, {"owner"})
    /\ role # "owner" => ~OnlyOwner(b, u)
    /\ Ask(h, <<Write("boatRole", who, b, u, role, FALSE)>>)

\* Mutant: an owner may always leave.
RemoveBoatMemberLast(h, who, b, u) ==
    /\ b \in OpenBoats
    /\ who = u \/ BoatManager(who, b, {"owner", "admin"})
    /\ Ask(h, <<Write("boatRemove", who, b, u, "absent", FALSE)>>)

RemoveBoatMember(h, who, b, u) ==
    /\ b \in OpenBoats
    /\ who = u \/ BoatManager(who, b, {"owner", "admin"})
    /\ ~OnlyOwner(b, u)
    /\ Ask(h, <<Write("boatRemove", who, b, u, "absent", FALSE)>>)

DeleteBoat(h, who, b) ==
    /\ b \in OpenBoats /\ BoatManager(who, b, {"owner"})
    /\ Ask(h, <<Write("close", who, b, None, "closed", FALSE)>>)

\* Accounts are kept, with their memberships and grants.
DeleteUser(who, u) ==
    /\ who \in {u, Root} /\ requests < MaxRequests /\ requests' = requests + 1
    /\ enabled' = enabled \ {u}
    /\ UNCHANGED <<made, closed, public, grants, clubRow, groupRow, boatRow, todo, vouched, overlapped>>

-----------------------------------------------------------------------------
(* Writes: one transaction each.                                           *)

Next1(h, do) == todo[h] # <<>> /\ Head(todo[h]).do = do
Rest(h) == todo' = [todo EXCEPT ![h] = Tail(@)]

\* Trust a member, or take the trust back.
Vouch(w, gone) ==
    vouched' = CASE gone -> vouched \ {<<w.on, w.user>>}
                 [] ~gone /\ w.vouch -> vouched \cup {<<w.on, w.user>>}
                 [] OTHER -> vouched

\* A row that exists is refused, also that of a removed member.
AddClubRow(h) ==
    LET w == Head(todo[h])  new == clubRow[w.on][w.user].status = "absent" IN
    /\ Next1(h, "clubAdd") /\ Rest(h)
    /\ clubRow' = IF new THEN [clubRow EXCEPT ![w.on][w.user].status = w.to] ELSE clubRow
    /\ IF new THEN Vouch(w, FALSE) ELSE UNCHANGED vouched
    /\ UNCHANGED <<made, closed, public, enabled, grants, groupRow, boatRow, requests, overlapped>>

SetClubRow(h) ==
    LET w == Head(todo[h]) IN
    /\ Next1(h, "clubStatus") /\ Rest(h)
    /\ clubRow' = [clubRow EXCEPT ![w.on][w.user].status = w.to]
    /\ Vouch(w, w.to = "deleted")
    /\ UNCHANGED <<made, closed, public, enabled, grants, groupRow, boatRow, requests, overlapped>>

RemoveClubRow(h) ==
    LET w == Head(todo[h]) IN
    /\ Next1(h, "clubRemove") /\ Rest(h)
    /\ clubRow' = IF clubRow[w.on][w.user].status = "absent" THEN clubRow
                  ELSE [clubRow EXCEPT ![w.on][w.user] = [status |-> "deleted", removed |-> TRUE]]
    /\ Vouch(w, TRUE)
    /\ UNCHANGED <<made, closed, public, enabled, grants, groupRow, boatRow, requests, overlapped>>

WriteGrants(h) ==
    LET w == Head(todo[h]) IN
    /\ Next1(h, "grant") \/ Next1(h, "revoke")
    /\ Rest(h)
    /\ grants' = IF w.do = "grant" THEN grants \cup {w.to} ELSE grants \ {w.to}
    /\ UNCHANGED <<made, closed, public, enabled, clubRow, groupRow, boatRow,
                   requests, vouched, overlapped>>

\* The row of a member who left is used again.
AddGroupRow(h) ==
    LET w == Head(todo[h])  new == ~Present(w.on, w.user) IN
    /\ Next1(h, "groupAdd") /\ Rest(h)
    /\ groupRow' = IF new THEN [groupRow EXCEPT ![w.on][w.user] =
                                  [role |-> w.to.role, status |-> w.to.status, removed |-> FALSE]]
                   ELSE groupRow
    /\ IF new THEN Vouch(w, FALSE) ELSE UNCHANGED vouched
    /\ UNCHANGED <<made, closed, public, enabled, grants, clubRow, boatRow, requests, overlapped>>

SetGroupRole(h) ==
    LET w == Head(todo[h]) IN
    /\ Next1(h, "groupRole") /\ Rest(h)
    /\ groupRow' = [groupRow EXCEPT ![w.on][w.user].role = w.to]
    /\ UNCHANGED <<made, closed, public, enabled, grants, clubRow, boatRow,
                   requests, vouched, overlapped>>

\* 403 after the role was written.
CheckGroupManager(h) ==
    LET w == Head(todo[h]) IN
    /\ Next1(h, "groupCheck")
    /\ todo' = [todo EXCEPT ![h] = IF GroupManager(w.by, w.on, {"owner", "admin"}) THEN Tail(@) ELSE <<>>]
    /\ UNCHANGED <<tables, requests, vouched, overlapped>>

SetGroupStatus(h) ==
    LET w == Head(todo[h])  there == Present(w.on, w.user) IN
    /\ Next1(h, "groupStatus") /\ Rest(h)
    /\ groupRow' = IF there THEN [groupRow EXCEPT ![w.on][w.user].status = w.to] ELSE groupRow
    /\ IF there THEN Vouch(w, FALSE) ELSE UNCHANGED vouched
    /\ UNCHANGED <<made, closed, public, enabled, grants, clubRow, boatRow, requests, overlapped>>

RemoveGroupRow(h) ==
    LET w == Head(todo[h]) IN
    /\ Next1(h, "groupRemove") /\ Rest(h)
    /\ groupRow' = IF Present(w.on, w.user) THEN [groupRow EXCEPT ![w.on][w.user].removed = TRUE]
                   ELSE groupRow
    /\ Vouch(w, TRUE)
    /\ UNCHANGED <<made, closed, public, enabled, grants, clubRow, boatRow, requests, overlapped>>

SetVisibility(h) ==
    LET w == Head(todo[h]) IN
    /\ Next1(h, "visibility") /\ Rest(h)
    /\ public' = IF w.on \in public THEN public \ {w.on} ELSE public \cup {w.on}
    /\ UNCHANGED <<made, closed, enabled, grants, clubRow, groupRow, boatRow,
                   requests, vouched, overlapped>>

\* A boat is deleted with its memberships; clubs and groups only marked.
Close(h) ==
    LET w == Head(todo[h]) IN
    /\ Next1(h, "close") /\ Rest(h)
    /\ closed' = closed \cup {w.on}
    /\ boatRow' = [b \in Boats |-> IF b = w.on THEN [u \in Users |-> "absent"] ELSE boatRow[b]]
    /\ UNCHANGED <<made, public, enabled, grants, clubRow, groupRow, requests, vouched, overlapped>>

AddBoatRow(h) ==
    LET w == Head(todo[h]) IN
    /\ Next1(h, "boatAdd") /\ Rest(h)
    /\ boatRow' = IF w.on \in OpenBoats /\ boatRow[w.on][w.user] = "absent"
                  THEN [boatRow EXCEPT ![w.on][w.user] = w.to] ELSE boatRow
    /\ UNCHANGED <<made, closed, public, enabled, grants, clubRow, groupRow,
                   requests, vouched, overlapped>>

WriteBoatRow(h) ==
    LET w == Head(todo[h]) IN
    /\ Next1(h, "boatRole") \/ Next1(h, "boatRemove")
    /\ Rest(h)
    /\ boatRow' = IF boatRow[w.on][w.user] = "absent" THEN boatRow
                  ELSE [boatRow EXCEPT ![w.on][w.user] = w.to]
    /\ UNCHANGED <<made, closed, public, enabled, grants, clubRow, groupRow,
                   requests, vouched, overlapped>>

-----------------------------------------------------------------------------
ClubRequest(h, who, c) ==
    \/ who \in Users /\ CreateClub(h, who, c)
    \/ DeactivateClub(h, who, c)
    \/ \E u \in Users : \/ RemoveClubMember(h, who, c, u)
                        \/ \E s \in ClubStatus : \/ AddClubMember(h, who, c, u, s)
                                                 \/ SetClubStatus(h, who, c, u, s)

GroupRequest(h, who, g) ==
    \/ who \in Users /\ CreateGroup(h, who, g)
    \/ UpdateGroup(h, who, g)
    \/ DeleteGroup(h, who, g)
    \/ \E u \in Users : \/ RemoveGroupMember(h, who, g, u)
                        \/ \E r \in GroupRole : AddGroupMember(h, who, g, u, r)
                        \/ \E r \in Maybe(GroupRole), s \in Maybe(GroupStatus) :
                              UpdateGroupMember(h, who, g, u, r, s)

BoatRequest(h, who, b) ==
    \/ who \in Users /\ CreateBoat(h, who, b)
    \/ DeleteBoat(h, who, b)
    \/ \E u \in Users : \/ RemoveBoatMember(h, who, b, u)
                        \/ \E r \in BoatRole : \/ AddBoatMember(h, who, b, u, r)
                                               \/ SetBoatRole(h, who, b, u, r)

Apply(h) ==
    \/ AddClubRow(h) \/ SetClubRow(h) \/ RemoveClubRow(h) \/ WriteGrants(h)
    \/ AddGroupRow(h) \/ SetGroupRole(h) \/ CheckGroupManager(h) \/ SetGroupStatus(h)
    \/ RemoveGroupRow(h) \/ SetVisibility(h) \/ Close(h)
    \/ AddBoatRow(h) \/ WriteBoatRow(h)

Next ==
    \/ \E h \in Handlers : Apply(h)
    \/ \E h \in Handlers, who \in Actors :
          \/ \E c \in Clubs : ClubRequest(h, who, c)
          \/ \E g \in Groups : GroupRequest(h, who, g)
          \/ \E b \in Boats : BoatRequest(h, who, b)
          \/ \E g \in Grant : GrantRole(h, who, g) \/ RevokeRole(h, who, g)
    \/ \E who \in Actors, u \in Users : DeleteUser(who, u)

Spec == Init /\ [][Next]_vars

-----------------------------------------------------------------------------
(* What a viewer sees of an activity: one rule in Python, for one activity, *)
(* and one in SQL, for a page of them.                                      *)

VisibleTo(a, u) ==
    \/ a.visibility = "public"
    \/ u = Root \/ a.creator = u \/ u \in a.crew
    \/ a.visibility = "club" /\ a.club # None
       /\ (ClubMember(a.club, u) \/ HasPermission(u, "club.manage", a.club))
    \/ a.visibility = "group" /\ a.group # None /\ GroupMember(a.group, u, GroupRole)

Managing(u) == {g \in grants : g.user = u /\ "club.manage" \in RoleKeys(g.role)}

\* Mutant: the list of clubs alone; a grant without a club is in none.
VisibilityClauseScoped(a, u) ==
    \/ a.visibility = "public" \/ a.creator = u \/ u \in a.crew
    \/ a.visibility = "club"
       /\ \/ a.club \in {c \in Clubs : ClubMember(c, u)}
          \/ a.club \in {g.scope : g \in Managing(u)} \ {None}
    \/ a.visibility = "group" /\ a.group \in {g \in Groups : GroupMember(g, u, GroupRole)}

\* A superadmin's list has no such clause.
VisibilityClause(a, u) ==
    \/ a.visibility = "public" \/ a.creator = u \/ u \in a.crew
    \/ a.visibility = "club"
       /\ \/ a.club \in {c \in Clubs : ClubMember(c, u)}
          \/ a.club \in {g.scope : g \in Managing(u)} \ {None}
          \/ \E g \in Managing(u) : g.scope = None
    \/ a.visibility = "group" /\ a.group \in {g \in Groups : GroupMember(g, u, GroupRole)}

\* The boat's members and the crew see a session whatever its activity is.
SessionVisibleTo(s, u) ==
    \/ u = Root \/ u \in s.crew
    \/ BoatManager(u, s.boat, BoatRole)
    \/ VisibleTo(s.activity, u)

MySessions(u) == {s \in Sessions : u \in s.crew \/ (u \in Users /\ boatRow[s.boat][u] # "absent")}

\* The activities of a user's clubs and groups, and those of them announced;
\* only the second leaves out the clubs he once left.
JoinedBy(u, clubs) ==
    LET groups == {g \in Groups : GroupMember(g, u, GroupRole)}
    IN {a \in Activities : a.club \in clubs \/ a.group \in groups}
MemberFeed(u) ==
    {a \in JoinedBy(u, {c \in Clubs : ClubMember(c, u)}) : VisibilityClause(a, u)}
Upcoming(u) ==
    {a \in JoinedBy(u, {c \in Clubs : ClubMember(c, u) /\ ~clubRow[c][u].removed}) :
        VisibleTo(a, u)}

\* What the pages offer a user: the keys of his grants, sorted by club when he
\* logs in, and what the browser makes of them for a club.
KeysOf(u, scope) ==
    UNION {RoleKeys(g.role) : g \in {g \in grants : g.user = u /\ g.scope = scope}}
Can(u, c) ==
    IF u = Root THEN ClubKeys \cup RaceKeys ELSE KeysOf(u, None) \cup KeysOf(u, c)

-----------------------------------------------------------------------------
(* Properties.                                                             *)

TypeOK ==
    /\ made \subseteq Orgs /\ closed \subseteq made /\ public \subseteq Groups
    /\ enabled \subseteq Users /\ grants \subseteq Grant
    /\ clubRow \in [Clubs -> [Users -> [status : ClubStatus \cup {"absent"}, removed : BOOLEAN]]]
    /\ groupRow \in [Groups -> [Users -> [role : GroupRole, status : GroupStatus \cup {"absent"},
                                          removed : BOOLEAN]]]
    /\ boatRow \in [Boats -> [Users -> BoatRole \cup {"absent"}]]
    /\ requests \in 0..MaxRequests
    /\ vouched \subseteq Orgs \X Users /\ overlapped \subseteq Orgs \cup {None}

\* A boat that has members has an owner, who alone may delete it and change
\* roles; unless two requests for the boat overlapped, which may each remove
\* one of the last two.
BoatKeepsOwner ==
    \A b \in Boats \ overlapped :
       (\E u \in Users : boatRow[b][u] # "absent") => Owners(b) # {}

\* Nobody is an active member of a club or group whom no manager has invited or
\* approved since he last left; unless two requests for it overlapped (an
\* invitation accepted while it is withdrawn).
ActiveWasVouched ==
    /\ \A c \in Clubs \ overlapped, u \in Users : ClubMember(c, u) => <<c, u>> \in vouched
    /\ \A g \in Groups \ overlapped, u \in Users : GroupMember(g, u, GroupRole) => <<g, u>> \in vouched

\* Every page shows what the rules for one activity and one session allow, and
\* offers what the server grants, so that no page is short or revealing: the
\* list of activities agrees with the activities themselves; the sessions a
\* user sees are his own and those of listed activities; the announced events
\* are those of his clubs and groups that are listed, but for clubs that took
\* him back; the check in the browser is the server's for every club.  For the
\* accounts not deleted, and but for club visibility without a club, which the
\* list shows to those who manage every club.
SameVisibility ==
    LET odd(a) == a.visibility = "club" /\ a.club = None
        back(a, u) == a.club \in Clubs /\ clubRow[a.club][u].removed
    IN /\ \A a \in Activities, u \in enabled :
             odd(a) \/ (VisibilityClause(a, u) <=> VisibleTo(a, u))
       /\ \A s \in Sessions, u \in enabled :
             odd(s.activity) \/ (SessionVisibleTo(s, u)
                                   <=> s \in MySessions(u) \/ VisibilityClause(s.activity, u))
       /\ \A u \in enabled :
             /\ \A a \in MemberFeed(u) : odd(a) \/ back(a, u) \/ a \in Upcoming(u)
             /\ \A a \in Upcoming(u) : a \in MemberFeed(u)
       /\ \A u \in enabled \cup {Root}, c \in Clubs :
             Can(u, c) = {key \in ClubKeys \cup RaceKeys : HasPermission(u, key, c)}
=============================================================================
