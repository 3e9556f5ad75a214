---------------------------- MODULE PowerPromise ----------------------------
(***************************************************************************)
(* What the power protocol promises to the user of the display and to the  *)
(* host: an action is carried out only if somebody entitled to it has      *)
(* asked for it, once for each time it was asked for, and what the user is *)
(* told agrees with what happened.  "accepted" means that the host has     *)
(* taken the action, "refused" that it has not and will not; "unknown"     *)
(* means nothing: the action may have been taken, or may be later.  Only   *)
(* while the host already stops its services can a refusal be wrong.       *)
(***************************************************************************)
CONSTANTS Request, Action, None

VARIABLES
  asked,   \* what has been asked for by each request
  done,    \* what the host has taken
  told,    \* what the user was told, "nothing" as long as it was nothing
  stopping \* does the host stop its services?

vars == <<asked, done, told, stopping>>

Told == {"accepted", "refused", "unknown"}

Init ==
  /\ asked = [r \in Request |-> None]
  /\ done = [r \in Request |-> None]
  /\ told = [r \in Request |-> "nothing"]
  /\ stopping = FALSE

Ask(r, a) ==
  /\ asked[r] = None
  /\ asked' = [asked EXCEPT ![r] = a]
  /\ UNCHANGED <<done, told, stopping>>

\* The host takes the action, though perhaps nobody waits for it any more.
CarryOut(r) ==
  /\ asked[r] # None
  /\ done[r] = None
  /\ told[r] = "refused" => stopping
  /\ done' = [done EXCEPT ![r] = asked[r]]
  /\ UNCHANGED <<asked, told, stopping>>

Tell(r, t) ==
  /\ told[r] = "nothing"
  /\ t = "accepted" => done[r] # None /\ done[r] = asked[r]
  /\ t = "refused" => done[r] = None \/ stopping
  /\ told' = [told EXCEPT ![r] = t]
  /\ UNCHANGED <<asked, done, stopping>>

\* A request that had no effect and can have none any more is forgotten.
Forget(r) ==
  /\ done[r] = None
  /\ asked' = [asked EXCEPT ![r] = None]
  /\ told' = [told EXCEPT ![r] = "nothing"]
  /\ UNCHANGED <<done, stopping>>

Stop ==
  /\ \E r \in Request : done[r] # None
  /\ stopping' = TRUE
  /\ UNCHANGED <<asked, done, told>>

\* The host is down, and up again.
Restart ==
  /\ stopping
  /\ asked' = [r \in Request |-> None]
  /\ done' = [r \in Request |-> None]
  /\ told' = [r \in Request |-> "nothing"]
  /\ stopping' = FALSE

Next ==
  \/ \E r \in Request, a \in Action : Ask(r, a)
  \/ \E r \in Request, t \in Told : Tell(r, t)
  \/ \E r \in Request : CarryOut(r) \/ Forget(r)
  \/ Stop
  \/ Restart

Spec == Init /\ [][Next]_vars
==============================================================================
