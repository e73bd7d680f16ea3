----------------------------- MODULE WatchCycle -----------------------------
(***************************************************************************)
(* What k8s-actions.ts:163-169 promises of one watched list, whatever the  *)
(* number of components showing it: the list is fetched, then watched; an  *)
(* abnormal close or a failed fetch leads, after a pause, back to the      *)
(* fetch; the last unmount ends the cycle at any point.                    *)
(***************************************************************************)
VARIABLE phase

Init == phase = "off"

Mount == phase = "off" /\ phase' = "loading"
Loaded == phase = "loading" /\ phase' = "watching"
FetchFails == phase = "loading" /\ phase' = "waiting"
Aborts == phase = "watching" /\ phase' = "waiting"
StartOver == phase = "waiting" /\ phase' = "loading"
Unmount == phase' = "off"

Next == Mount \/ Loaded \/ FetchFails \/ Aborts \/ StartOver \/ Unmount

Spec == Init /\ [][Next]_phase
=============================================================================
