-------------------------- MODULE MCDeviceRegistry --------------------------
(***************************************************************************)
(* An instance of DeviceRegistry for TLC: three requests at a time.        *)
(* crowded remembers whether a request ever wrote while another was under  *)
(* way, thronged the rows that three confirms were under way for at once:  *)
(* what needs requests one at a time, or two of a code, is checked until   *)
(* then.                                                                   *)
(***************************************************************************)
EXTENDS DeviceRegistry, TLC

CONSTANTS boat, crew, x1, x2, h1, h2, h3
VARIABLES crowded, thronged

Lossy == {"lost"}
ConcurrentSymmetry == Permutations(Targets) \cup Permutations(Hardware) \cup Permutations(Handlers)

Busy == {h \in Handlers : handler[h].pc # "idle"}
Confirming(d) == {h \in Handlers : handler[h].pc \in {"check", "confirm", "bind"} /\ handler[h].row = d}

\* Three different requests confirm the row.
Throng(d) == \E f, g, h \in Confirming(d) : f # g /\ g # h /\ f # h

MCInit == Init /\ crowded = FALSE /\ thronged = {}

MCNext ==
    /\ Next
    /\ crowded' = \/ crowded
                  \/ Cardinality(Busy') > 1
                  \/ device' # device /\ \E h \in Busy : handler'[h] = handler[h]
    /\ thronged' = thronged \cup {d \in Requests : Throng(d)'}

MCSpec == MCInit /\ [][MCNext]_<<vars, crowded, thronged>>

-----------------------------------------------------------------------------
\* A key that hardware received by confirming only ever authenticates a row
\* registered for that hardware, whatever confirms, rotates and revokes race,
\* until three confirms of one code are under way at once: the last of them
\* then writes its key, and not an external id it had read, over the second.
KeyNamesItsHardware ==
    \A x \in Hardware, d \in Requests \ thronged : \A k \in held[x] :
        Authenticates(k, d) => device[d].ext = x

\* With requests one at a time, the key that hardware was answered works
\* until it is rotated or revoked, see HeldKeyWorks.
SerialKeyWorks == crowded \/ HeldKeyWorks

\* With requests one at a time, a code that a user was given stays usable,
\* see ClaimCodeUsable.
SerialCodeUsable == crowded \/ ClaimCodeUsable
=============================================================================
