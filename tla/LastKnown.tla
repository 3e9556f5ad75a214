------------------------------ MODULE LastKnown ------------------------------
(***************************************************************************)
(* What the hub promises to whoever reads its state: one last-known sample *)
(* per registered node, which only ever gets newer while the hub serves,   *)
(* is forgotten on disk as in memory when the node is taken off the        *)
(* registry, and survives a restart as the last copy that was saved.       *)
(* Files, times of files, tokens and throttles are not visible here.       *)
(***************************************************************************)
EXTENDS Integers

CONSTANTS Node, None,
  Record   \* a sample with its reception: records whose field ts is its stamp

VARIABLES
  serving,  \* is the hub answering requests?
  members,  \* the registered nodes, none while the hub is not serving
  known,    \* the last-known sample of each node
  saved     \* the copy a restart would find

vars == <<serving, members, known, saved>>

Init ==
  /\ serving = FALSE
  /\ members = {}
  /\ known = [n \in Node |-> None]
  /\ saved = [n \in Node |-> None]

\* The registry becomes M, and nodes that leave it are forgotten everywhere.
After(M, f) == [n \in Node |-> IF n \in members \ M THEN None ELSE f[n]]

Refresh(M) ==
  /\ serving
  /\ members' = M
  /\ known' = After(M, known)
  /\ saved' = After(M, saved)
  /\ UNCHANGED serving

\* A sample of a registered node replaces an older one, and may be saved.
Learn(M, n, r) ==
  /\ serving
  /\ n \in M
  /\ After(M, known)[n] # None => r.ts > After(M, known)[n].ts
  /\ members' = M
  /\ known' = [After(M, known) EXCEPT ![n] = r]
  /\ \/ saved' = After(M, saved)
     \/ saved' = [After(M, saved) EXCEPT ![n] = r]
  /\ UNCHANGED serving

\* Copies that are too old go; the others are what is known of the members.
Start(M) ==
  /\ ~serving
  /\ serving' = TRUE
  /\ members' = M
  /\ \E old \in SUBSET Node : saved' = [n \in Node |-> IF n \in old THEN None ELSE saved[n]]
  /\ known' = [n \in Node |-> IF n \in M THEN saved'[n] ELSE None]

Stop ==
  /\ serving
  /\ serving' = FALSE
  /\ members' = {}
  /\ known' = [n \in Node |-> None]
  /\ UNCHANGED saved

Next ==
  \/ \E M \in SUBSET Node : Refresh(M) \/ Start(M)
  \/ \E M \in SUBSET Node, n \in Node, r \in Record : Learn(M, n, r)
  \/ Stop

Spec == Init /\ [][Next]_vars
==============================================================================
