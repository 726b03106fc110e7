------------------------- MODULE MCSessionRegistry -------------------------
(* One boat, one race from 0 to 4; declared windows that touch, come *)
(* within the gap of one another, or are apart, one of them without an end.  *)
EXTENDS SessionRegistry
CONSTANTS sloop, race1
TheRace == [r \in {race1} |-> [from |-> 0, to |-> 4]]
TheWindows == {[from |-> 0, to |-> 2], [from |-> 3, to |-> None], [from |-> 5, to |-> 6]}
TheGap == 1
=============================================================================
