---------------------------- MODULE MCClubhouse ----------------------------
(* Two users and the superadmin, a club, a group and a boat. *)
EXTENDS Clubhouse, TLC
CONSTANTS ann, bob, one, two, club, club2, group, boat
Alike == Permutations({ann, bob}) \cup Permutations({one, two})
TheActivities ==
    [visibility : {"public", "club", "group", "private"}, club : {club, club2, None},
     group : {group, None}, creator : {None}, crew : {{}}]
    \cup [visibility : {"club", "private"}, club : {None}, group : {None},
          creator : {ann, bob, None}, crew : {{ann}, {bob}}]
TheSessions ==
    {[boat |-> boat, crew |-> a.crew, activity |-> a] :
        a \in {a \in TheActivities : a.crew # {} \/ <<a.club, a.group>> = <<club, group>>}}
=============================================================================
