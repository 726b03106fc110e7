--------------------------- MODULE StreamCatalog ---------------------------
(***************************************************************************)
(* What ingestion promises to a reader of a session: for each upload, the  *)
(* set of sensors that can be read.  A sensor once listed stays listed     *)
(* until the session is deleted, and an upload is shown as processed only  *)
(* when it lists something.  No threads, workers, retries or blobs.        *)
(***************************************************************************)
CONSTANTS Uploads, Sensors

VARIABLES
    status,     \* [Uploads -> shown status, "absent" or "gone"]
    catalog     \* [Uploads -> SUBSET Sensors]

vars == <<status, catalog>>

Shown == {"pending", "processing", "processed", "failed"}

Init == /\ status = [u \in Uploads |-> "absent"]
        /\ catalog = [u \in Uploads |-> {}]

Open(u) == /\ status[u] = "absent"
           /\ status' = [status EXCEPT ![u] = "pending"]
           /\ UNCHANGED catalog

List(u, s) == /\ status[u] \in Shown
              /\ catalog' = [catalog EXCEPT ![u] = @ \cup {s}]
              /\ UNCHANGED status

Show(u, st) == /\ status[u] \in Shown
               /\ st = "processed" => catalog[u] # {}
               /\ status' = [status EXCEPT ![u] = st]
               /\ UNCHANGED catalog

Delete == /\ status' = [u \in Uploads |-> IF status[u] = "absent" THEN "absent" ELSE "gone"]
          /\ catalog' = [u \in Uploads |-> {}]

Next == \/ \E u \in Uploads : \/ Open(u)
                              \/ \E s \in Sensors : List(u, s)
                              \/ \E st \in Shown : Show(u, st)
        \/ Delete

Spec == Init /\ [][Next]_vars
=============================================================================
