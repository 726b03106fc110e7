------------------------- MODULE MCSessionAnalysis -------------------------
(***************************************************************************)
(* Instances of SessionAnalysis for TLC, in units of five seconds: the     *)
(* maneuvers a and b are 20 s apart, the least the detector allows, c is   *)
(* a second bounds estimate for a, m is added by a user near a.  The trim  *)
(* part leaves no GPS point.                                               *)
(***************************************************************************)
EXTENDS SessionAnalysis

CONSTANTS h1, h2, whole, part

a == [lo |-> 20, hi |-> 22]
b == [lo |-> 26, hi |-> 27]
c == [lo |-> 21, hi |-> 23]
m == [lo |-> 17, hi |-> 17]

MCAnalyses == [t \in Trims |-> IF t = whole THEN {{a}, {c}} ELSE {None}]
MCClose == [t \in Trims |-> {{a, b}}]
MCManual == {m}
NoManual == {}
NoFaults == {}
AllFaults == {"slow", "fail"}
=============================================================================
