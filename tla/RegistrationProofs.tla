-------------------------- MODULE RegistrationProofs --------------------------
(***************************************************************************)
(* Proofs about Registration: what a registry keeps for any number of      *)
(* scripts, in any order and with any of them killed.                      *)
(*                                                                         *)
(* A script that has met no other is alone from its first step to its      *)
(* last, so the temporary file is its own (AloneInv).  A script that runs  *)
(* has read the registry after every script that is done without having    *)
(* met another, so whatever is written, and whatever may be put in place,  *)
(* contains what those have added (DoneInv).                               *)
(***************************************************************************)
EXTENDS Registration, TLAPS

HasOpened == {s \in Script : step[s] \in {"opened", "written", "owned"}}
DoneAlone == {s \in Script \ met : step[s] = "done"}

RegistrationTypeOK ==
  /\ step \in [Script -> {"idle", "read", "opened", "written", "owned", "done", "failed"}]
  /\ base \in [Script -> SUBSET Node]
  /\ opened \in [Script -> File \cup {NoFile}]
  /\ content \in [File -> (SUBSET Node) \cup {Empty, Torn}]
  /\ owned \subseteq File /\ path \in File /\ tmp \in File \cup {NoFile}
  /\ met \subseteq Script /\ found \subseteq Script

\* A file is new to a script that has not opened it, and the temporary file is not in place.
NamesInv ==
  /\ tmp # path
  /\ \A s \in Script :
       /\ step[s] \in {"idle", "read"} => s \notin {path, tmp}
       /\ s \in HasOpened => opened[s] \in File

\* Every content that is whole, and all that a script will write, has the old nodes.
OldInv ==
  /\ \A f \in File : Whole(f) => OldNode \subseteq content[f]
  /\ \A s \in Running : OldNode \subseteq base[s]

\* A script that runs and has met no other is alone, and the temporary file is its own.
AloneInv ==
  \A s \in Running \ met :
    /\ \A r \in Running : r = s
    /\ s \in HasOpened => opened[s] = tmp
    /\ step[s] = "opened" => content[tmp] = Empty
    /\ step[s] \in {"written", "owned"} => content[tmp] = Registry(s)

\* What is in place, what may be put in place and what may be written contains the
\* nodes of the scripts that are done and have met no other.
DoneInv ==
  /\ Whole(path) => DoneAlone \subseteq content[path]
  /\ \A s \in Running : DoneAlone \subseteq base[s]
  /\ HasOpened # {} /\ tmp # NoFile => (Whole(tmp) => DoneAlone \subseteq content[tmp])

UsableInv ==
  met = {} =>
    /\ Whole(path) /\ path \in owned
    /\ \A s \in Running : s \in found /\ (step[s] = "owned" => tmp \in owned)

RegInv == RegistrationTypeOK /\ NamesInv /\ OldInv /\ AloneInv /\ DoneInv /\ UsableInv

------------------------------------------------------------------------------
LEMMA Constants ==
  /\ Script \subseteq File /\ First \in File \ Script /\ NoFile \notin File
  /\ OldNode \subseteq Node /\ Script \subseteq Node
  BY RegistrationAssumption DEF File, Node

LEMMA WholeIsRegistry ==
  ASSUME RegistrationTypeOK, NEW f \in File
  PROVE  (Whole(f) => content[f] \in SUBSET Node)
  BY DEF RegistrationTypeOK, Whole

LEMMA RegInvInit == RegistrationInit => RegInv
<1> SUFFICES ASSUME RegistrationInit PROVE RegInv
  OBVIOUS
<1> USE Constants
<1>1. RegistrationTypeOK
  BY DEF RegistrationInit, RegistrationTypeOK
<1>2. Running = {} /\ HasOpened = {} /\ DoneAlone = {}
  BY DEF RegistrationInit, Running, HasOpened, DoneAlone
<1>3. \A f \in File : Whole(f) => f = First
  BY DEF RegistrationInit, Whole
<1>4. Whole(First) /\ path = First /\ content[First] = OldNode /\ owned = {First}
  BY RegistrationAssumption DEF RegistrationInit, Whole
<1>5. NamesInv
  BY <1>2 DEF RegistrationInit, NamesInv
<1> QED
  BY <1>1, <1>2, <1>3, <1>4, <1>5 DEF RegInv, OldInv, AloneInv, DoneInv, UsableInv

LEMMA TypesStep == RegistrationTypeOK /\ [RegistrationNext]_registrationVars => RegistrationTypeOK'
<1> SUFFICES ASSUME RegistrationTypeOK, [RegistrationNext]_registrationVars
             PROVE  RegistrationTypeOK'
  OBVIOUS
<1> USE Constants DEF RegistrationTypeOK
<1>1. ASSUME NEW s \in Script PROVE Target(s) \in File /\ Registry(s) \in SUBSET Node
  BY DEF Target, Registry
<1>2. ASSUME NEW s \in Script, Reads(s) PROVE RegistrationTypeOK'
  <2>1. CASE Whole(path)
    BY <1>2, <2>1, WholeIsRegistry DEF Reads, Running
  <2>2. CASE ~Whole(path)
    BY <1>2, <2>2 DEF Reads
  <2> QED
    BY <2>1, <2>2
<1>3. ASSUME NEW s \in Script, Opens(s) PROVE RegistrationTypeOK'
  BY <1>1, <1>3 DEF Opens
<1>4. ASSUME NEW s \in Script, Writes(s) PROVE RegistrationTypeOK'
  <2>1. \A c \in Written(content[opened[s]], Registry(s)) : c \in (SUBSET Node) \cup {Empty, Torn}
    BY <1>1 DEF Written
  <2>2. PICK c \in Written(content[opened[s]], Registry(s)) :
          content' = [content EXCEPT ![opened[s]] = c]
    BY <1>4 DEF Writes
  <2>3. c \in (SUBSET Node) \cup {Empty, Torn}
    BY <2>1
  <2>4. content' \in [File -> (SUBSET Node) \cup {Empty, Torn}]
    BY <2>2, <2>3
  <2> QED
    BY <1>4, <2>4 DEF Writes
<1>5. ASSUME NEW s \in Script, GivesAway(s) PROVE RegistrationTypeOK'
  BY <1>5 DEF GivesAway
<1>6. ASSUME NEW s \in Script, Replaces(s) PROVE RegistrationTypeOK'
  BY <1>6 DEF Replaces
<1>7. ASSUME NEW s \in Script, Fails(s) PROVE RegistrationTypeOK'
  BY <1>7 DEF Fails, Outcome
<1>8. CASE UNCHANGED registrationVars
  BY <1>8 DEF registrationVars
<1> QED
  BY <1>2, <1>3, <1>4, <1>5, <1>6, <1>7, <1>8 DEF RegistrationNext, AllOver

\* What a step of a script does to the sets of scripts.
LEMMA ReadsSets ==
  ASSUME RegistrationTypeOK, NEW s \in Script, Reads(s), Whole(path)
  PROVE  /\ Running' = Running \cup {s} /\ s \notin Running /\ HasOpened' = HasOpened
         /\ DoneAlone' = DoneAlone
         /\ met' = IF Running = {} THEN met ELSE met \cup {s} \cup Running
  BY DEF RegistrationTypeOK, Reads, Running, HasOpened, DoneAlone

LEMMA GoesOnSets ==
  ASSUME RegistrationTypeOK, NEW s \in Script, Opens(s) \/ Writes(s) \/ GivesAway(s)
  PROVE  /\ Running' = Running /\ s \in Running /\ HasOpened' = HasOpened \cup {s}
         /\ DoneAlone' = DoneAlone /\ met' = met
  BY DEF RegistrationTypeOK, Opens, Writes, GivesAway, Running, HasOpened, DoneAlone

LEMMA EndsSets ==
  ASSUME RegistrationTypeOK, NEW s \in Script, Replaces(s) \/ Fails(s)
  PROVE  /\ Running' = Running \ {s} /\ s \in Running /\ HasOpened' = HasOpened \ {s}
         /\ DoneAlone \subseteq DoneAlone'
         /\ DoneAlone' = IF Replaces(s) /\ s \notin met THEN DoneAlone \cup {s} ELSE DoneAlone
         /\ met' = met
<1>1. CASE Replaces(s)
  BY <1>1 DEF RegistrationTypeOK, Replaces, Running, HasOpened, DoneAlone
<1>2. CASE Fails(s)
  <2>1. ~Replaces(s)
    BY <1>2 DEF RegistrationTypeOK, Fails, Outcome, Replaces
  <2> QED
    BY <1>2, <2>1 DEF RegistrationTypeOK, Fails, Outcome, Running, HasOpened, DoneAlone
<1> QED
  BY <1>1, <1>2

LEMMA ReadsStep == ASSUME RegInv, RegistrationTypeOK', NEW s \in Script, Reads(s) PROVE RegInv'
<1> USE Constants DEF RegInv
<1>1. CASE ~Whole(path)
  <2>1. /\ step' = [step EXCEPT ![s] = "failed"] /\ step[s] = "idle"
        /\ UNCHANGED <<base, opened, content, owned, path, tmp, met, found>>
    BY <1>1 DEF Reads
  <2>2. Running' = Running /\ HasOpened' = HasOpened /\ DoneAlone' = DoneAlone
    BY <2>1 DEF Running, HasOpened, DoneAlone, RegistrationTypeOK
  <2>3. \A r \in Running : step'[r] = step[r]
    BY <2>1 DEF Running, RegistrationTypeOK
  <2> QED
    BY <2>1, <2>2, <2>3
    DEF NamesInv, OldInv, AloneInv, DoneInv, UsableInv, RegistrationTypeOK, Whole, Registry
<1>2. CASE Whole(path)
  <2>1. /\ step' = [step EXCEPT ![s] = "read"] /\ step[s] = "idle"
        /\ base' = [base EXCEPT ![s] = content[path]]
        /\ found' = IF path \in owned THEN found \cup {s} ELSE found
        /\ UNCHANGED <<opened, content, owned, path, tmp>>
    BY <1>2 DEF Reads
  <2>2. /\ Running' = Running \cup {s} /\ s \notin Running /\ HasOpened' = HasOpened
        /\ DoneAlone' = DoneAlone
        /\ met' = IF Running = {} THEN met ELSE met \cup {s} \cup Running
    BY <1>2, ReadsSets
  <2>3. \A r \in Running : step'[r] = step[r] /\ base'[r] = base[r]
    BY <2>1, <2>2 DEF RegistrationTypeOK
  <2>4. base'[s] = content[path] /\ step'[s] = "read"
    BY <2>1 DEF RegistrationTypeOK
  <2>5. \A f : Whole(f)' <=> Whole(f)
    BY <2>1 DEF Whole
  <2>6. NamesInv'
    BY <2>1, <2>2 DEF NamesInv, RegistrationTypeOK
  <2>7. OldInv'
    BY <1>2, <2>1, <2>2, <2>3, <2>4, <2>5 DEF OldInv, RegistrationTypeOK
  <2>8. AloneInv'
    <3>1. CASE Running = {}
      BY <2>2, <2>4, <3>1 DEF AloneInv, HasOpened
    <3>2. CASE Running # {}
      BY <2>2, <3>2 DEF AloneInv
    <3> QED
      BY <3>1, <3>2
  <2>9. DoneInv'
    BY <1>2, <2>1, <2>2, <2>3, <2>4, <2>5 DEF DoneInv
  <2>10. UsableInv'
    BY <2>1, <2>2, <2>3, <2>4, <2>5 DEF UsableInv
  <2> QED
    BY <2>6, <2>7, <2>8, <2>9, <2>10
<1> QED
  BY <1>1, <1>2

LEMMA OpensStep == ASSUME RegInv, RegistrationTypeOK', NEW s \in Script, Opens(s) PROVE RegInv'
<1> USE Constants DEF RegInv
<1>0. PICK f : f = Target(s)
  OBVIOUS
<1>1. /\ step' = [step EXCEPT ![s] = "opened"] /\ step[s] = "read"
      /\ opened' = [opened EXCEPT ![s] = f] /\ tmp' = f
      /\ content' = [content EXCEPT ![f] = Empty]
      /\ UNCHANGED <<base, owned, path, met, found>>
  BY <1>0 DEF Opens
<1>2. f \in File /\ f # path /\ (f = s \/ f = tmp)
  BY <1>0, <1>1 DEF Target, NamesInv, RegistrationTypeOK
<1>3. /\ Running' = Running /\ s \in Running /\ HasOpened' = HasOpened \cup {s}
      /\ DoneAlone' = DoneAlone
  BY GoesOnSets
<1>4. /\ content'[f] = Empty /\ ~Whole(f)'
      /\ \A g \in File \ {f} : content'[g] = content[g] /\ (Whole(g)' <=> Whole(g))
  BY <1>1, <1>2 DEF RegistrationTypeOK, Whole
<1>5. \A r \in Script \ {s} : step'[r] = step[r] /\ opened'[r] = opened[r]
  BY <1>1 DEF RegistrationTypeOK
<1>6. step'[s] = "opened" /\ opened'[s] = f
  BY <1>1 DEF RegistrationTypeOK
<1>7. NamesInv'
  BY <1>1, <1>2, <1>3, <1>5, <1>6 DEF NamesInv
<1>8. OldInv'
  BY <1>1, <1>3, <1>4 DEF OldInv
<1>9. AloneInv'
  BY <1>1, <1>3, <1>4, <1>6 DEF AloneInv
<1>10. DoneInv'
  BY <1>1, <1>2, <1>3, <1>4 DEF DoneInv, RegistrationTypeOK
<1>11. UsableInv'
  BY <1>1, <1>2, <1>3, <1>4, <1>6 DEF UsableInv, AloneInv, RegistrationTypeOK
<1> QED
  BY <1>7, <1>8, <1>9, <1>10, <1>11

LEMMA WritesStep == ASSUME RegInv, RegistrationTypeOK', NEW s \in Script, Writes(s) PROVE RegInv'
<1> USE Constants DEF RegInv
<1>0. PICK f : f = opened[s]
  OBVIOUS
<1>1. PICK c \in Written(content[f], Registry(s)) : content' = [content EXCEPT ![f] = c]
  BY <1>0 DEF Writes
<1>2. /\ step' = [step EXCEPT ![s] = "written"] /\ step[s] = "opened"
      /\ UNCHANGED <<base, opened, owned, path, tmp, met, found>>
  BY DEF Writes
<1>3. /\ Running' = Running /\ s \in Running /\ s \in HasOpened
      /\ HasOpened' = HasOpened /\ DoneAlone' = DoneAlone
  BY <1>2, GoesOnSets DEF HasOpened
<1>4. f \in File
  BY <1>0, <1>3 DEF NamesInv
<1>5. /\ c = Registry(s) \/ c = Torn
      /\ content[f] = Empty => c = Registry(s)
  BY <1>1 DEF Written
<1>6. /\ content'[f] = c
      /\ \A g \in File \ {f} : content'[g] = content[g]
  BY <1>1, <1>4 DEF RegistrationTypeOK
<1>7. step'[s] = "written" /\ \A r \in Script \ {s} : step'[r] = step[r]
  BY <1>2 DEF RegistrationTypeOK
<1>8. OldNode \subseteq Registry(s) /\ DoneAlone \subseteq Registry(s)
  BY <1>3 DEF OldInv, DoneInv, Registry
<1>9. \A g \in File : Whole(g)' => (g = f /\ content'[f] = Registry(s)) \/ (g # f /\ Whole(g))
  BY <1>5, <1>6 DEF Whole
<1>10. NamesInv'
  BY <1>2, <1>3, <1>7 DEF NamesInv
<1>11. OldInv'
  BY <1>2, <1>3, <1>6, <1>8, <1>9 DEF OldInv
<1>12. AloneInv'
  <2> SUFFICES ASSUME NEW r \in Running \ met PROVE AloneInv!(r)'
    BY <1>2, <1>3 DEF AloneInv
  <2>1. r = s
    BY <1>3 DEF AloneInv
  <2>2. f = tmp /\ content[f] = Empty
    BY <1>0, <1>2, <1>3, <2>1 DEF AloneInv
  <2>3. content'[tmp] = Registry(s)
    BY <1>5, <1>6, <2>2
  <2> QED
    BY <1>0, <1>2, <1>3, <1>7, <2>1, <2>2, <2>3 DEF AloneInv, Registry
<1>13. DoneInv'
  BY <1>2, <1>3, <1>4, <1>6, <1>8, <1>9 DEF DoneInv, RegistrationTypeOK
<1>14. UsableInv'
  <2> SUFFICES ASSUME met = {} PROVE UsableInv!2'
    BY <1>2 DEF UsableInv
  <2>1. f = tmp /\ tmp # path
    BY <1>0, <1>3 DEF AloneInv, NamesInv
  <2>2. Whole(path)'
    BY <1>2, <1>6, <2>1 DEF UsableInv, Whole, RegistrationTypeOK
  <2> QED
    BY <1>2, <1>3, <1>7, <2>2 DEF UsableInv, RegistrationTypeOK, Running
<1> QED
  BY <1>10, <1>11, <1>12, <1>13, <1>14

LEMMA GivesAwayStep ==
  ASSUME RegInv, RegistrationTypeOK', NEW s \in Script, GivesAway(s) PROVE RegInv'
<1> USE Constants DEF RegInv
<1>1. /\ step' = [step EXCEPT ![s] = "owned"] /\ step[s] = "written"
      /\ owned' = IF s \in found THEN owned \cup {tmp} ELSE owned \ {tmp}
      /\ UNCHANGED <<base, opened, content, path, tmp, met, found>>
  BY DEF GivesAway
<1>2. /\ Running' = Running /\ s \in Running /\ s \in HasOpened
      /\ HasOpened' = HasOpened /\ DoneAlone' = DoneAlone
  BY <1>1, GoesOnSets DEF HasOpened
<1>3. step'[s] = "owned" /\ \A r \in Script \ {s} : step'[r] = step[r]
  BY <1>1 DEF RegistrationTypeOK
<1>4. \A g : Whole(g)' <=> Whole(g)
  BY <1>1 DEF Whole
<1>5. NamesInv'
  BY <1>1, <1>2, <1>3 DEF NamesInv
<1>6. OldInv'
  BY <1>1, <1>2, <1>4 DEF OldInv
<1>7. AloneInv'
  BY <1>1, <1>2, <1>3 DEF AloneInv, Registry
<1>8. DoneInv'
  BY <1>1, <1>2, <1>4 DEF DoneInv, Whole
<1>9. UsableInv'
  <2> SUFFICES ASSUME met = {} PROVE UsableInv!2'
    BY <1>1 DEF UsableInv
  <2>1. owned' = owned \cup {tmp}
    BY <1>1, <1>2 DEF UsableInv
  <2> QED
    BY <1>1, <1>2, <1>4, <2>1 DEF UsableInv
<1> QED
  BY <1>5, <1>6, <1>7, <1>8, <1>9

LEMMA ReplacesStep ==
  ASSUME RegInv, RegistrationTypeOK', NEW s \in Script, Replaces(s) PROVE RegInv'
<1> USE Constants DEF RegInv
<1>1. /\ step' = [step EXCEPT ![s] = "done"] /\ step[s] = "owned" /\ tmp # NoFile
      /\ path' = tmp /\ tmp' = NoFile
      /\ UNCHANGED <<base, opened, content, owned, met, found>>
  BY DEF Replaces
<1>2. /\ Running' = Running \ {s} /\ s \in Running /\ HasOpened' = HasOpened \ {s}
      /\ s \in HasOpened
      /\ DoneAlone' = IF s \notin met THEN DoneAlone \cup {s} ELSE DoneAlone
  BY <1>1, EndsSets DEF HasOpened
<1>3. step'[s] = "done" /\ \A r \in Script \ {s} : step'[r] = step[r]
  BY <1>1 DEF RegistrationTypeOK
<1>4. \A g : Whole(g)' <=> Whole(g)
  BY <1>1 DEF Whole
<1>5. tmp \in File
  BY <1>1 DEF RegistrationTypeOK
<1>6. NamesInv'
  BY <1>1, <1>2, <1>3, <1>5 DEF NamesInv
<1>7. OldInv'
  BY <1>1, <1>2, <1>4 DEF OldInv
<1>8. AloneInv'
  BY <1>1, <1>2, <1>3 DEF AloneInv, Registry
<1>9. DoneInv'
  <2>1. CASE s \in met
    BY <1>1, <1>2, <1>4, <2>1 DEF DoneInv, Whole
  <2>2. CASE s \notin met
    <3>1. Running' = {} /\ HasOpened' = {}
      BY <1>2, <2>2 DEF AloneInv, HasOpened, Running
    <3>2. content[tmp] = Registry(s)
      BY <1>1, <1>2, <2>2 DEF AloneInv
    <3>3. DoneAlone' \subseteq content[tmp]
      BY <1>2, <2>2, <3>2 DEF DoneInv, Registry
    <3> QED
      BY <1>1, <3>1, <3>3 DEF DoneInv
  <2> QED
    BY <2>1, <2>2
<1>10. UsableInv'
  <2> SUFFICES ASSUME met = {} PROVE UsableInv!2'
    BY <1>1 DEF UsableInv
  <2>1. tmp \in owned /\ content[tmp] = Registry(s)
    BY <1>1, <1>2 DEF UsableInv, AloneInv
  <2>2. Registry(s) \in SUBSET Node
    BY DEF Registry, RegistrationTypeOK
  <2>3. Whole(tmp)
    BY <2>1, <2>2, RegistrationAssumption DEF Whole
  <2>4. Running' = {}
    BY <1>2 DEF AloneInv
  <2> QED
    BY <1>1, <2>1, <2>3, <2>4 DEF Whole
<1> QED
  BY <1>6, <1>7, <1>8, <1>9, <1>10

LEMMA FailsStep == ASSUME RegInv, RegistrationTypeOK', NEW s \in Script, Fails(s) PROVE RegInv'
<1> USE Constants DEF RegInv
<1>1. /\ step' = [step EXCEPT ![s] = "failed"]
      /\ UNCHANGED <<base, opened, content, owned, path, tmp, met, found>>
  BY DEF Fails, Outcome
<1>2. /\ Running' = Running \ {s} /\ HasOpened' = HasOpened \ {s} /\ DoneAlone' = DoneAlone
  BY <1>1 DEF Fails, RegistrationTypeOK, Running, HasOpened, DoneAlone
<1>3. \A r \in Script \ {s} : step'[r] = step[r]
  BY <1>1 DEF RegistrationTypeOK
<1>4. \A g : Whole(g)' <=> Whole(g)
  BY <1>1 DEF Whole
<1>5. NamesInv'
  BY <1>1, <1>2, <1>3 DEF NamesInv, Fails, Running, RegistrationTypeOK
<1>6. OldInv'
  BY <1>1, <1>2, <1>4 DEF OldInv
<1>7. AloneInv'
  BY <1>1, <1>2, <1>3 DEF AloneInv, Registry, Running
<1>8. DoneInv'
  BY <1>1, <1>2, <1>4 DEF DoneInv, Whole
<1>9. UsableInv'
  BY <1>1, <1>2, <1>3, <1>4 DEF UsableInv, Whole, Running
<1> QED
  BY <1>5, <1>6, <1>7, <1>8, <1>9

LEMMA RegInvStep == RegInv /\ [RegistrationNext]_registrationVars => RegInv'
<1> SUFFICES ASSUME RegInv, [RegistrationNext]_registrationVars PROVE RegInv'
  OBVIOUS
<1>1. RegistrationTypeOK'
  BY TypesStep DEF RegInv
<1>2. CASE UNCHANGED registrationVars
  BY <1>2 DEF registrationVars, RegInv, RegistrationTypeOK, NamesInv, OldInv, AloneInv, DoneInv,
     UsableInv, Whole, Running, HasOpened, DoneAlone, Registry
<1> QED
  BY <1>1, <1>2, ReadsStep, OpensStep, WritesStep, GivesAwayStep, ReplacesStep, FailsStep
  DEF RegistrationNext, AllOver

------------------------------------------------------------------------------
LEMMA Invariance == RegistrationSpec => []RegInv
  BY RegInvInit, RegInvStep, PTL DEF RegistrationSpec

\* As long as no two registrations have run at once, the registry is whole and the hub
\* may read it.
THEOREM RegistryStaysUsable == RegistrationSpec => []RegistryIsUsable
<1>1. RegInv => RegistryIsUsable
  BY DEF RegInv, UsableInv, RegistryIsUsable
<1> QED
  BY <1>1, Invariance, PTL

\* What a registration has added without meeting another one stays in the registry.
THEOREM DoneStaysRegistered == RegistrationSpec => []DoneIsRegistered
<1>1. RegInv => DoneIsRegistered
  BY DEF RegInv, DoneInv, DoneIsRegistered, DoneAlone
<1> QED
  BY <1>1, Invariance, PTL

\* No order of overlapping registrations takes an old node from a registry that is whole.
THEOREM OldNodesAreKept == RegistrationSpec => []OldNodesStay
<1>1. RegInv => OldNodesStay
  BY DEF RegInv, OldInv, RegistrationTypeOK, OldNodesStay
<1> QED
  BY <1>1, Invariance, PTL
==============================================================================
