----------------------------- MODULE Registration -----------------------------
(***************************************************************************)
(* deploy/raspberry-pi/add-node-hash.py, which puts a node into the        *)
(* registry of the hub: it reads the file, writes what it makes of it into *)
(* a temporary file of a fixed name and puts that in place.  Several may   *)
(* run at once, and each may be killed.                                    *)
(*                                                                         *)
(* A file is what its name refers to, and keeps its identity for those who *)
(* have it open: whoever finds the temporary file there empties and writes *)
(* that one.  Each script adds a node that has the script's name here.     *)
(***************************************************************************)
CONSTANTS
  Script,
  OldNode,     \* the nodes that are registered before
  First,       \* the file that is in place before
  Empty, Torn, \* contents that are no registry
  NoFile

File == Script \cup {First}
Node == Script \cup OldNode

ASSUME RegistrationAssumption ==
  /\ First \notin Script /\ NoFile \notin File
  /\ \A c \in SUBSET Node : c \notin {Empty, Torn}

VARIABLES
  step,    \* how far each script is
  base,    \* the registry it has read
  opened,  \* the file it has open
  content, \* of each file
  owned,   \* the files that the hub may read
  path,    \* the file in place
  tmp,     \* the temporary file, if there is one
  met,     \* the scripts that have run at the same time as another
  found    \* the scripts that have found the registry given to the hub

registrationVars == <<step, base, opened, content, owned, path, tmp, met, found>>

Whole(f) == content[f] \notin {Empty, Torn}
Running == {s \in Script : step[s] \notin {"idle", "done", "failed"}}

\* The usage, the name and the hash are right, or nothing happens.
Reads(s) ==
  /\ step[s] = "idle"
  /\ IF Whole(path)
     THEN /\ step' = [step EXCEPT ![s] = "read"]
          /\ base' = [base EXCEPT ![s] = content[path]]
          /\ met' = IF Running = {} THEN met ELSE met \cup {s} \cup Running
          /\ found' = IF path \in owned THEN found \cup {s} ELSE found
     ELSE step' = [step EXCEPT ![s] = "failed"] /\ UNCHANGED <<base, met, found>>
  /\ UNCHANGED <<opened, content, owned, path, tmp>>

\* mutant of Target: the registry is written where it is
TargetInPlace(s) == path

Target(s) == IF tmp = NoFile THEN s ELSE tmp

\* write_text() opens the file, which empties it, and then writes from its beginning.
Opens(s) ==
  /\ step[s] = "read"
  /\ step' = [step EXCEPT ![s] = "opened"]
  /\ opened' = [opened EXCEPT ![s] = Target(s)]
  /\ tmp' = Target(s)
  /\ content' = [content EXCEPT ![Target(s)] = Empty]
  /\ UNCHANGED <<base, owned, path, met, found>>

\* A longer text that another script has written meanwhile sticks out.
Written(old, new) == IF old \in {Empty, new} THEN {new} ELSE {new, Torn}

Registry(s) == base[s] \cup {s}

Writes(s) ==
  /\ step[s] = "opened"
  /\ step' = [step EXCEPT ![s] = "written"]
  /\ \E c \in Written(content[opened[s]], Registry(s)) :
       content' = [content EXCEPT ![opened[s]] = c]
  /\ UNCHANGED <<base, opened, owned, path, tmp, met, found>>

\* chown() and chmod() go by the name of the temporary file and give it the owner and
\* the mode of the registry the script has found.  They are one step: a new file may be
\* read by its owner before chmod() too.
GivesAway(s) ==
  /\ step[s] = "written" /\ tmp # NoFile
  /\ step' = [step EXCEPT ![s] = "owned"]
  /\ owned' = IF s \in found THEN owned \cup {tmp} ELSE owned \ {tmp}
  /\ UNCHANGED <<base, opened, content, path, tmp, met, found>>

Replaces(s) ==
  /\ step[s] = "owned" /\ tmp # NoFile
  /\ step' = [step EXCEPT ![s] = "done"]
  /\ path' = tmp /\ tmp' = NoFile
  /\ UNCHANGED <<base, opened, content, owned, met, found>>

\* mutant of Outcome: whatever happens, the script says that it is done
AlwaysDone == "done"

Outcome == "failed"

\* The temporary file has been put in place by another script, or the script is killed
\* (or fails) at any other point.
Fails(s) ==
  /\ s \in Running
  /\ step' = [step EXCEPT ![s] = Outcome]
  /\ UNCHANGED <<base, opened, content, owned, path, tmp, met, found>>

AllOver == Running = {} /\ (\A s \in Script : step[s] # "idle") /\ UNCHANGED registrationVars

RegistrationInit ==
  /\ step = [s \in Script |-> "idle"]
  /\ base = [s \in Script |-> {}]
  /\ opened = [s \in Script |-> NoFile]
  /\ content = [f \in File |-> IF f = First THEN OldNode ELSE Empty]
  /\ owned = {First} /\ path = First /\ tmp = NoFile /\ met = {}
  /\ found = {}

RegistrationNext ==
  \/ \E s \in Script :
       \/ Reads(s) \/ Opens(s) \/ Writes(s) \/ GivesAway(s) \/ Replaces(s) \/ Fails(s)
  \/ AllOver

RegistrationSpec == RegistrationInit /\ [][RegistrationNext]_registrationVars

------------------------------------------------------------------------------
(* Properties *)

\* As long as one registration runs at a time the registry is at every moment a whole
\* file that the hub may read, also when scripts are killed and leave a temporary file.
RegistryIsUsable == met = {} => Whole(path) /\ path \in owned

\* A registration that finishes without meeting another is in force as long as there
\* is a registry at all, also after others have met and undone one another.
DoneIsRegistered ==
  Whole(path) => {s \in Script \ met : step[s] = "done"} \subseteq content[path]

\* Whatever the scripts do to one another, a registry that is whole has lost none of
\* the nodes it had before them.
OldNodesStay == Whole(path) => OldNode \subseteq content[path]
==============================================================================
