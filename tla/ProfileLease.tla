----------------------------- MODULE ProfileLease -----------------------------
(***************************************************************************)
(* What the helper promises about the user's TF2 files: it borrows them    *)
(* under a lease that is on disk, touches nothing without the lease, and   *)
(* ends the lease only with the files given back.                          *)
(***************************************************************************)

VARIABLES
    held,  \* a lease is on record
    given, \* what of the user's files is in its place
    calm   \* nothing has failed or been cut short so far

vars == <<held, given, calm>>

Init == held = FALSE /\ given = "all" /\ calm \in BOOLEAN

Take == ~ held /\ held' = TRUE /\ UNCHANGED given

\* Under the lease the files may be anywhere, even given back already.
Use == held /\ held' = TRUE /\ given' \in {"all", "allButOffline", "some"}

\* The lease ends with everything given back; after a failure the offline CFG
\* may be missing, and nothing else.
Return == /\ held /\ held' = FALSE
          /\ given = "all" \/ (~ calm /\ given = "allButOffline")
          /\ UNCHANGED given

\* A failure that meets no lease touches no file.
Trouble == ~ held /\ UNCHANGED <<held, given>>

Next == (Take \/ Use \/ Return \/ Trouble) /\ (calm' => calm)

Spec == Init /\ [][Next]_vars
=============================================================================
