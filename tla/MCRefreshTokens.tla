-------------------------- MODULE MCRefreshTokens --------------------------
(* Two tabs of one browser and a phone. *)
EXTENDS RefreshTokens, TLC
CONSTANTS tab1, tab2, app, web, phone
TabSymmetry == Permutations({tab1, tab2})
Where == [p \in Tabs |-> IF p = app THEN phone ELSE web]
=============================================================================
