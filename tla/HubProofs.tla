------------------------------ MODULE HubProofs ------------------------------
(***************************************************************************)
(* What holds of the hub for every set of nodes, tokens and settings and   *)
(* every bound.                                                            *)
(***************************************************************************)
EXTENDS Hub, TLAPS

------------------------------------------------------------------------------
(* Types *)

\* A reload keeps the shape of everything it touches.
LEMMA ReloadTypes ==
  ASSUME TypeOK, NEW m \in StatResults, NEW deleted \in BOOLEAN
  PROVE  /\ m \in 0..(MaxEdits + 1)
         /\ KeysAfter(m) \in Registry
         /\ SettingsAfter(m) \in Values
         /\ SamplesAfter(m) \in [Node -> Record \cup {None}]
         /\ RowsAfter(m, deleted) \in [Node -> Record \cup {None}]
<1>1. m \in 0..(MaxEdits + 1)
  BY ConstantsAssumption DEF TypeOK, StatResults
<1>2. KeysAfter(m) \in Registry
  BY DEF TypeOK, KeysAfter
<1>3. SettingsAfter(m) \in Values
  <2> DEFINE new == file.settings
  <2>1. /\ new \in [offline : Nat \cup {NotInt}, retention : Nat \cup {NotInt},
                    persist : Nat \cup {NotInt}]
        /\ settings \in [offline : Nat, retention : Nat, persist : Nat]
    BY ConstantsAssumption DEF TypeOK, Values, Seconds
  <2>2. \A S : \A v \in {new.offline, new.retention, new.persist} :
          v \in S /\ Past(m, S) => v \in Nat
    BY <2>1 DEF Past
  <2> QED
    BY <2>1, <2>2 DEF SettingsAfter, Values, Seconds
<1>4. SamplesAfter(m) \in [Node -> Record \cup {None}]
  BY DEF TypeOK, SamplesAfter
<1>5. RowsAfter(m, deleted) \in [Node -> Record \cup {None}]
  BY DEF TypeOK, RowsAfter
<1> QED
  BY <1>1, <1>2, <1>3, <1>4, <1>5

LEMMA OutcomesBoolean == Outcomes \subseteq BOOLEAN
  BY DEF Outcomes

LEMMA TypeInit == Init => TypeOK
<1> SUFFICES ASSUME Init PROVE TypeOK
  OBVIOUS
<1>1. now \in Time
  BY ConstantsAssumption DEF Init, Time
<1>2. file \in [kind : {"text", "garbage", "absent"}, keys : Registry,
                settings : Settings, mtime : 1..(MaxEdits + 1)]
  BY ConstantsAssumption DEF Init
<1>3. keys \in Registry /\ settings \in Values /\ mtime \in 0..(MaxEdits + 1)
  BY ConstantsAssumption DEF Init, Registry, NoRegistry, Values, Defaults, Seconds
<1> QED
  BY <1>1, <1>2, <1>3 DEF Init, TypeOK, NoRecords

LEMMA TypeStep == TypeOK /\ [Next]_vars => TypeOK'
<1> SUFFICES ASSUME TypeOK, [Next]_vars PROVE TypeOK'
  OBVIOUS
<1>1. CASE Tick
  BY <1>1, ConstantsAssumption DEF Tick, TypeOK, Time
<1>2. CASE SetClock
  BY <1>2 DEF SetClock, TypeOK
<1>3. CASE EditConfig
  <2>1. ASSUME NEW kind \in {"text", "garbage"}, NEW ks \in Registry,
               NEW s \in Settings, WriteFile(kind, ks, s)
        PROVE  TypeOK'
    <3>1. file'.mtime \in 1..(MaxEdits + 1)
      BY <2>1, ConstantsAssumption DEF WriteFile, TypeOK
    <3> QED
      BY <2>1, <3>1 DEF WriteFile, TypeOK
  <2>2. CASE RemoveFile
    BY <2>2 DEF RemoveFile, TypeOK
  <2> QED
    BY <1>3, <2>1, <2>2 DEF EditConfig, TypeOK
<1>4. CASE LoadConfig
  <2>1. file.settings \in Values
    BY <1>4, ConstantsAssumption DEF LoadConfig, AllInt, TypeOK, Values, Seconds
  <2> QED
    BY <1>4, <2>1 DEF LoadConfig, TypeOK
<1>5. CASE InitState
  <2>1. db' \in [Node -> Record \cup {None}]
    BY <1>5 DEF InitState, RowsKept, TypeOK
  <2>2. samples' \in [Node -> Record \cup {None}]
    BY <1>5 DEF InitState, Restored, RowsKept, TypeOK
  <2>3. lastPersisted' \in [Node -> Time \cup {None}]
    BY <1>5 DEF InitState, RestoredAt, Restored, RowsKept, TypeOK, Record
  <2> QED
    BY <1>5, <2>1, <2>2, <2>3, ConstantsAssumption DEF InitState, TypeOK
<1>6. CASE Crash
  BY <1>6, ConstantsAssumption
     DEF Crash, TypeOK, NoRecords, NoRegistry, Registry, Defaults, Values, Seconds
<1>7. CASE Current
  <2> PICK m \in StatResults, deleted \in Outcomes :
        /\ ReloadConfig(m)
        /\ samples' = SamplesAfter(m)
        /\ db' = RowsAfter(m, deleted)
        /\ UNCHANGED lastPersisted
    BY <1>7 DEF Current
  <2> QED
    BY ReloadTypes, OutcomesBoolean DEF ReloadConfig, TypeOK
<1>8. ASSUME NEW n \in Node, NEW k \in Key, NEW ts \in Stamp, Accept(n, k, ts)
      PROVE  TypeOK'
  <2> DEFINE r == [ts |-> ts, received |-> now]
  <2> PICK m \in StatResults, deleted \in Outcomes, written \in Outcomes :
        /\ ReloadConfig(m)
        /\ samples' = [SamplesAfter(m) EXCEPT ![n] = r]
        /\ \/ db' = [RowsAfter(m, deleted) EXCEPT ![n] = r]
           \/ db' = RowsAfter(m, deleted)
        /\ \/ lastPersisted' = [lastPersisted EXCEPT ![n] = now]
           \/ lastPersisted' = lastPersisted
    BY <1>8 DEF Accept, PersistedAfter
  <2>1. r \in Record
    BY DEF Record, TypeOK
  <2>2. /\ samples' \in [Node -> Record \cup {None}]
        /\ db' \in [Node -> Record \cup {None}]
    BY <2>1, ReloadTypes, OutcomesBoolean
  <2>3. lastPersisted' \in [Node -> Time \cup {None}]
    BY DEF TypeOK
  <2> QED
    BY <2>2, <2>3, ReloadTypes, OutcomesBoolean DEF ReloadConfig, TypeOK
<1>9. CASE UNCHANGED vars
  BY <1>9 DEF vars, TypeOK
<1> QED
  BY <1>1, <1>2, <1>3, <1>4, <1>5, <1>6, <1>7, <1>8, <1>9 DEF Next

\* Every variable keeps its shape, whatever is in the file and whichever
\* transaction fails: in particular a setting that is no number never becomes a
\* setting of the hub.
THEOREM TypeCorrect == Spec => []TypeOK
  BY TypeInit, TypeStep, PTL DEF Spec

------------------------------------------------------------------------------
(* The registry *)

\* What a process that is not serving holds in memory.
Volatile ==
  phase # "up" => /\ samples = NoRecords
                  /\ lastPersisted = NoRecords
                  /\ phase = "down" => keys = NoRegistry

LEMMA VolatileInit == Init => Volatile
  BY DEF Init, Volatile

LEMMA VolatileStep == Volatile /\ [Next]_vars => Volatile'
  BY DEF Volatile, Next, vars, Tick, SetClock, EditConfig, WriteFile, RemoveFile,
         LoadConfig, InitState, Crash, Current, Accept, ReloadConfig

\* RegistryFresh is not inductive: an edit needs the time in memory to be one the
\* file already had, and a start needs the registry read to be the one of the file.
RegistryInv ==
  /\ RegistryFresh
  /\ mtime <= file.mtime
  /\ phase = "loaded" => keys = file.keys

LEMMA RegistryInit == Init => RegistryInv
  BY DEF Init, RegistryInv, RegistryFresh

\* A reload that sees the time the file now has ends on the registry of the file.
LEMMA ReloadFresh ==
  ASSUME TypeOK, RegistryInv, NEW m \in StatResults, ReloadConfig(m)
  PROVE  RegistryInv'
<1>1. m <= file.mtime /\ m \in Nat
  BY DEF StatResults, TypeOK
<1>2. ASSUME m = file.mtime, Readable PROVE keys' = file.keys
  BY <1>2 DEF ReloadConfig, KeysAfter, Reads, RegistryInv, RegistryFresh
<1> QED
  BY <1>1, <1>2 DEF ReloadConfig, RegistryInv, RegistryFresh, Readable

LEMMA RegistryStep ==
  ASSUME EditsDuringStartup = FALSE, TypeOK, RegistryInv, [Next]_vars
  PROVE  RegistryInv'
<1>1. CASE EditConfig
  <2>1. ASSUME NEW kind, NEW ks, NEW s, WriteFile(kind, ks, s) PROVE RegistryInv'
    BY <2>1 DEF WriteFile, RegistryInv, RegistryFresh, TypeOK
  <2>2. CASE RemoveFile
    BY <2>2 DEF RemoveFile, RegistryInv, RegistryFresh, Readable, TypeOK
  <2> QED
    BY <1>1, <2>1, <2>2 DEF EditConfig
<1>2. CASE LoadConfig
  BY <1>2 DEF LoadConfig, RegistryInv, RegistryFresh
<1>3. CASE InitState
  BY <1>3 DEF InitState, RegistryInv, RegistryFresh, TypeOK
<1>4. CASE Crash
  BY <1>4 DEF Crash, RegistryInv, RegistryFresh, TypeOK
<1>5. CASE Current
  BY <1>5, ReloadFresh DEF Current
<1>6. ASSUME NEW n \in Node, NEW k \in Key, NEW ts \in Stamp, Accept(n, k, ts)
      PROVE  RegistryInv'
  BY <1>6, ReloadFresh DEF Accept
<1>7. CASE Tick \/ SetClock \/ UNCHANGED vars
  BY <1>7 DEF Tick, SetClock, vars, RegistryInv, RegistryFresh, Readable
<1> QED
  BY <1>1, <1>2, <1>3, <1>4, <1>5, <1>6, <1>7 DEF Next

\* Unless the file is edited while the hub starts, a hub that has seen the time
\* the file has runs on the registry the file has: an edit that falls between the
\* stat() and the read of a reload does no harm.
THEOREM RegistryStaysFresh ==
  ASSUME EditsDuringStartup = FALSE
  PROVE  Spec => []RegistryFresh
<1>1. Init => TypeOK /\ RegistryInv
  BY TypeInit, RegistryInit
<1>2. TypeOK /\ RegistryInv /\ [Next]_vars => (TypeOK /\ RegistryInv)'
  BY TypeStep, RegistryStep
<1>3. RegistryInv => RegistryFresh
  BY DEF RegistryInv
<1> QED
  BY <1>1, <1>2, <1>3, PTL DEF Spec

\* Unless the file is edited while the hub starts, no request is accepted under a
\* token that the readable file no longer gives to the node.
THEOREM TokensRotateAtOnce ==
  ASSUME EditsDuringStartup = FALSE
  PROVE  Spec => RotationIsImmediate
<1> DEFINE Rotates ==
      Readable => \A n \in Node : \A k \in Key \ {file.keys[n]}, ts \in Stamp :
                    ~Accept(n, k, ts)
<1>1. Init => TypeOK /\ RegistryInv
  BY TypeInit, RegistryInit
<1>2. TypeOK /\ RegistryInv /\ [Next]_vars => (TypeOK /\ RegistryInv)'
  BY TypeStep, RegistryStep
<1>3. TypeOK /\ RegistryInv => Rotates
  <2> SUFFICES ASSUME RegistryInv, Readable,
                      NEW n \in Node, NEW k \in Key, NEW ts \in Stamp, Accept(n, k, ts)
               PROVE  k = file.keys[n]
    OBVIOUS
  <2>1. PICK m \in StatResults : ReloadConfig(m) /\ k = KeysAfter(m)[n]
    BY DEF Accept, Authenticates
  <2>2. CASE m = mtime
    <3>1. keys = file.keys
      BY <2>1, <2>2 DEF StatResults, Readable, RegistryInv, RegistryFresh, ReloadConfig
    <3> QED
      BY <2>1, <2>2, <3>1 DEF KeysAfter, Reads
  <2>3. CASE m # mtime
    BY <2>1, <2>3 DEF KeysAfter, Reads
  <2> QED
    BY <2>2, <2>3
<1>4. Spec => [][Rotates]_vars
  BY <1>1, <1>2, <1>3, PTL DEF Spec
<1> QED
  BY <1>4 DEF RotationIsImmediate

------------------------------------------------------------------------------
(* The samples *)

\* Every setting in every file is a number.
IntSettings ==
  \A s \in Settings : NotInt \notin {s.offline, s.retention, s.persist}

LEMMA FilesInt == IntSettings /\ TypeOK => AllInt
  BY DEF IntSettings, TypeOK, AllInt

\* The node whose sample is accepted is registered, so the reload kept its sample.
LEMMA AcceptedRegistered ==
  ASSUME TypeOK, NEW n \in Node, NEW k \in Key, NEW m \in StatResults,
         Authenticates(n, k, m)
  PROVE  KeysAfter(m)[n] # NoKey /\ SamplesAfter(m)[n] = samples[n]
  BY ConstantsAssumption
     DEF Authenticates, KeysAfter, SamplesAfter, Dropped, Registered, TypeOK

LEMMA OrphanStep ==
  ASSUME IntSettings, TypeOK, Volatile, NoOrphanSamples, [Next]_vars
  PROVE  NoOrphanSamples'
<1>1. ASSUME NEW m \in StatResults, ReloadConfig(m), NEW n \in Node,
             SamplesAfter(m)[n] # None
      PROVE  keys'[n] # NoKey
  BY <1>1, FilesInt
     DEF ReloadConfig, KeysAfter, SamplesAfter, Dropped, Registered, NoOrphanSamples
<1>2. CASE Current
  BY <1>1, <1>2 DEF Current, NoOrphanSamples
<1>3. ASSUME NEW i \in Node, NEW k \in Key, NEW ts \in Stamp, Accept(i, k, ts)
      PROVE  NoOrphanSamples'
  <2> PICK m \in StatResults :
        /\ ReloadConfig(m)
        /\ Authenticates(i, k, m)
        /\ samples' = [SamplesAfter(m) EXCEPT ![i] = [ts |-> ts, received |-> now]]
    BY <1>3 DEF Accept
  <2> SUFFICES ASSUME NEW n \in Node, samples'[n] # None PROVE keys'[n] # NoKey
    BY DEF NoOrphanSamples
  <2>1. CASE n = i
    BY <2>1, AcceptedRegistered DEF ReloadConfig
  <2>2. CASE n # i
    BY <2>2, <1>1 DEF SamplesAfter
  <2> QED
    BY <2>1, <2>2
<1>4. CASE LoadConfig
  BY <1>4 DEF LoadConfig, Volatile, NoOrphanSamples, NoRecords
<1>5. CASE InitState
  BY <1>5 DEF InitState, Restored, NoOrphanSamples
<1>6. CASE Crash
  BY <1>6 DEF Crash, NoOrphanSamples, NoRecords
<1>7. CASE Tick \/ SetClock \/ EditConfig \/ UNCHANGED vars
  BY <1>7 DEF Tick, SetClock, EditConfig, WriteFile, RemoveFile, vars, NoOrphanSamples
<1> QED
  BY <1>2, <1>3, <1>4, <1>5, <1>6, <1>7 DEF Next

\* As long as every setting an operator writes is a number, no reload and no
\* restart leaves a sample of an unregistered node in memory.
THEOREM NoOrphans ==
  ASSUME IntSettings
  PROVE  Spec => []NoOrphanSamples
<1>1. Init => TypeOK /\ Volatile /\ NoOrphanSamples
  BY TypeInit, VolatileInit DEF Init, NoOrphanSamples, NoRecords
<1>2. TypeOK /\ Volatile /\ NoOrphanSamples /\ [Next]_vars
        => (TypeOK /\ Volatile /\ NoOrphanSamples)'
  BY TypeStep, VolatileStep, OrphanStep
<1> QED
  BY <1>1, <1>2, PTL DEF Spec

\* As long as every setting is a number, a node that a reload adds has no sample yet:
\* what an earlier registration left was dropped when it ended.
THEOREM AddedNodesWait ==
  ASSUME IntSettings
  PROVE  Spec => AddedNodeWaits
<1> DEFINE Waits ==
      \A n \in Node :
        phase = "up" /\ phase' = "up" /\ keys[n] = NoKey /\ keys'[n] # NoKey
          => samples[n] = None
<1>1. NoOrphanSamples => Waits
  BY DEF NoOrphanSamples
<1>2. Spec => [][Waits]_vars
  BY <1>1, NoOrphans, PTL DEF Spec
<1> QED
  BY <1>2 DEF AddedNodeWaits

\* Every sample in memory and in the table, restored ones included, had a stamp
\* inside the window around its reception, wherever the clock has been set.
THEOREM StampsInWindow == Spec => []StampWindow
<1>1. Init => TypeOK /\ StampWindow
  BY TypeInit DEF Init, StampWindow, NoRecords
<1>2. ASSUME TypeOK, StampWindow, [Next]_vars PROVE StampWindow'
  <2>1. CASE Current
    BY <1>2, <2>1 DEF Current, SamplesAfter, RowsAfter, StampWindow
  <2>2. ASSUME NEW i \in Node, NEW k \in Key, NEW ts \in Stamp, Accept(i, k, ts)
        PROVE  StampWindow'
    <3> DEFINE r == [ts |-> ts, received |-> now]
    <3>1. r.ts \in (r.received - MaxSampleAge)..(r.received + MaxFutureSkew)
      BY <1>2, <2>2, ConstantsAssumption DEF Accept, InWindow, TypeOK, Stamp, Time
    <3>2. \A n \in Node : /\ samples'[n] \in {r, samples[n], None}
                          /\ db'[n] \in {r, db[n], None}
      BY <1>2, <2>2 DEF Accept, SamplesAfter, RowsAfter
    <3> QED
      BY <1>2, <3>1, <3>2 DEF StampWindow
  <2>3. CASE InitState
    BY <1>2, <2>3 DEF InitState, Restored, RowsKept, StampWindow
  <2>4. CASE Crash
    BY <1>2, <2>4 DEF Crash, NoRecords, StampWindow
  <2>5. CASE Tick \/ SetClock \/ EditConfig \/ LoadConfig \/ UNCHANGED vars
    BY <1>2, <2>5
       DEF Tick, SetClock, EditConfig, WriteFile, RemoveFile, LoadConfig, vars, StampWindow
  <2> QED
    BY <1>2, <2>1, <2>2, <2>3, <2>4, <2>5 DEF Next
<1>3. TypeOK /\ StampWindow /\ [Next]_vars => (TypeOK /\ StampWindow)'
  BY <1>2, TypeStep
<1> QED
  BY <1>1, <1>3, PTL DEF Spec

\* The stamp of a node only grows while one process knows the node, with any
\* clock, any file and any failure of the database.
THEOREM StampsOnlyAdvance == Spec => StampsAdvance
<1> DEFINE Advances ==
      \A n \in Node :
        samples[n] # None /\ samples'[n] # None /\ samples'[n] # samples[n]
          => samples'[n].ts > samples[n].ts
<1>1. Init => TypeOK /\ Volatile
  BY TypeInit, VolatileInit
<1>2. TypeOK /\ Volatile /\ [Next]_vars => (TypeOK /\ Volatile)'
  BY TypeStep, VolatileStep
<1>3. ASSUME TypeOK, Volatile, [Next]_vars PROVE Advances
  <2>1. CASE Current
    BY <2>1 DEF Current, SamplesAfter
  <2>2. ASSUME NEW i \in Node, NEW k \in Key, NEW ts \in Stamp, Accept(i, k, ts)
        PROVE  Advances
    <3> PICK m \in StatResults :
          /\ Authenticates(i, k, m)
          /\ Newer(i, ts, m)
          /\ samples' = [SamplesAfter(m) EXCEPT ![i] = [ts |-> ts, received |-> now]]
      BY <2>2 DEF Accept
    <3>1. samples[i] # None => ts > samples[i].ts
      BY <1>3, AcceptedRegistered DEF Newer
    <3>2. samples'[i].ts = ts
      BY DEF SamplesAfter
    <3>3. \A n \in Node \ {i} : samples'[n] \in {samples[n], None}
      BY DEF SamplesAfter
    <3> QED
      BY <3>1, <3>2, <3>3
  <2>3. CASE InitState
    BY <1>3, <2>3 DEF InitState, Volatile, NoRecords
  <2>4. CASE Crash
    BY <2>4 DEF Crash, NoRecords
  <2>5. CASE Tick \/ SetClock \/ EditConfig \/ LoadConfig \/ UNCHANGED vars
    BY <2>5 DEF Tick, SetClock, EditConfig, WriteFile, RemoveFile, LoadConfig, vars
  <2> QED
    BY <1>3, <2>1, <2>2, <2>3, <2>4, <2>5 DEF Next
<1>4. TypeOK /\ Volatile /\ [Next]_vars => [Advances]_vars
  BY <1>3
<1>5. Spec => [][Advances]_vars
  BY <1>1, <1>2, <1>4, PTL DEF Spec
<1> QED
  BY <1>5 DEF StampsAdvance

------------------------------------------------------------------------------
(* The table *)

\* The throttle in force is one that some file asked for.
ThrottleConfigured ==
  phase # "down" => \E s \in Settings : s.persist # NotInt /\ settings.persist = s.persist

\* DiskCloseBehind is not inductive: a first sample could find a row and a
\* throttle that do not belong together.  A node without a sample has no row
\* unless its row was left by an earlier process, and then it has no throttle.
DiskInv ==
  /\ ThrottleConfigured
  /\ DiskCloseBehind
  /\ \A n \in Node :
       phase = "up" /\ samples[n] = None /\ db[n] # None => lastPersisted[n] = None

LEMMA ThrottleStep ==
  ASSUME TypeOK, ThrottleConfigured, [Next]_vars
  PROVE  ThrottleConfigured'
<1>1. ASSUME NEW m, ReloadConfig(m) PROVE ThrottleConfigured'
  BY <1>1 DEF ReloadConfig, SettingsAfter, Past, ThrottleConfigured, TypeOK
<1>2. CASE LoadConfig
  BY <1>2 DEF LoadConfig, AllInt, ThrottleConfigured, TypeOK
<1> QED
  BY <1>1, <1>2
     DEF Next, Tick, SetClock, EditConfig, WriteFile, RemoveFile, InitState, Crash,
         Current, Accept, vars, ThrottleConfigured

LEMMA DiskStep ==
  ASSUME DbFailures = FALSE, TypeOK, Volatile, DiskInv, [Next]_vars
  PROVE  DiskInv'
<1> DEFINE Close(n) ==
      /\ lastPersisted[n] # None
      /\ \/ samples[n].received = lastPersisted[n]
         \/ \E s \in Settings : /\ s.persist # NotInt
                                /\ samples[n].received - lastPersisted[n] < s.persist
      /\ db[n] # None => /\ db[n].received = lastPersisted[n]
                         /\ db[n].ts <= samples[n].ts
<1> DEFINE Good(n) ==
      phase = "up" => /\ samples[n] # None => Close(n)
                      /\ samples[n] = None /\ db[n] # None => lastPersisted[n] = None
<1>0. /\ \A n \in Node : Good(n)
      /\ (\A n \in Node : Good(n)') => DiskInv'
  BY ThrottleStep DEF DiskInv, DiskCloseBehind
<1> HIDE DEF Good
<1>1. ASSUME NEW m \in StatResults, NEW deleted \in Outcomes, NEW n \in Node
      PROVE  \/ SamplesAfter(m)[n] = None /\ RowsAfter(m, deleted)[n] = None
             \/ SamplesAfter(m)[n] = samples[n] /\ RowsAfter(m, deleted)[n] = db[n]
  BY DEF SamplesAfter, RowsAfter, Outcomes
<1>2. CASE Current
  BY <1>0, <1>1, <1>2 DEF Current, ReloadConfig, Good
<1>3. ASSUME NEW i \in Node, NEW k \in Key, NEW ts \in Stamp, Accept(i, k, ts)
      PROVE  \A n \in Node : Good(n)'
  <2> DEFINE r == [ts |-> ts, received |-> now]
  <2> PICK m \in StatResults, deleted \in Outcomes, written \in Outcomes :
        /\ ReloadConfig(m)
        /\ Authenticates(i, k, m)
        /\ Newer(i, ts, m)
        /\ samples' = [SamplesAfter(m) EXCEPT ![i] = r]
        /\ db' = IF WriteDue(i, m) /\ written
                 THEN [RowsAfter(m, deleted) EXCEPT ![i] = r]
                 ELSE RowsAfter(m, deleted)
        /\ lastPersisted' = PersistedAfter(i, m, written)
    BY <1>3 DEF Accept
  <2>1. SamplesAfter(m)[i] = samples[i] /\ written
    BY AcceptedRegistered DEF Outcomes
  <2>2. phase = "up" /\ phase' = "up" /\ settings'.persist = SettingsAfter(m).persist
    BY DEF ReloadConfig
  <2>3. ASSUME NEW n \in Node, n # i PROVE Good(n)'
    <3>1. /\ samples'[n] = SamplesAfter(m)[n]
          /\ db'[n] = RowsAfter(m, deleted)[n]
          /\ lastPersisted'[n] = lastPersisted[n]
      BY <2>3 DEF SamplesAfter, RowsAfter, PersistedAfter, TypeOK
    <3> QED
      BY <1>0, <1>1, <2>2, <3>1 DEF Good
  <2>4. samples'[i] = r /\ r # None
    BY ConstantsAssumption DEF SamplesAfter, TypeOK, Stamp, Time
  <2>5. ASSUME WriteDue(i, m) PROVE Good(i)'
    <3>1. db'[i] = r /\ lastPersisted'[i] = now
      BY <2>1, <2>5 DEF RowsAfter, PersistedAfter, TypeOK
    <3>2. now # None /\ ts <= ts
      BY ConstantsAssumption DEF TypeOK, Time, Stamp
    <3>3. Close(i)'
      BY <2>4, <3>1, <3>2
    <3> QED
      BY <2>4, <3>3 DEF Good
  <2>6. ASSUME ~WriteDue(i, m) PROVE Good(i)'
    <3>1. lastPersisted'[i] = lastPersisted[i] /\ db'[i] \in {db[i], None}
      BY <2>6, <1>1 DEF PersistedAfter
    <3>2. /\ lastPersisted[i] # None
          /\ now - lastPersisted[i] < SettingsAfter(m).persist
      BY <2>6, ReloadTypes, OutcomesBoolean
         DEF WriteDue, TypeOK, Time, Values, Seconds
    <3>3. PICK s \in Settings : s.persist # NotInt /\ settings'.persist = s.persist
      BY <2>2, ThrottleStep DEF DiskInv, ThrottleConfigured
    <3>4. r.received - lastPersisted'[i] < s.persist
      BY <2>2, <3>1, <3>2, <3>3
    <3>5. ASSUME db'[i] # None
          PROVE  db'[i].received = lastPersisted'[i] /\ db'[i].ts <= ts
      <4>1. db[i] # None /\ db'[i] = db[i]
        BY <3>1, <3>5
      <4>2. samples[i] # None
        BY <1>0, <2>2, <3>2, <4>1 DEF Good
      <4>3. db[i].received = lastPersisted[i] /\ db[i].ts <= samples[i].ts
        BY <1>0, <2>2, <4>1, <4>2 DEF Good
      <4>4. ts > samples[i].ts
        BY <2>1, <4>2 DEF Newer
      <4> QED
        BY <3>1, <4>1, <4>2, <4>3, <4>4 DEF TypeOK, Record, Stamp
    <3>6. Close(i)'
      BY <2>4, <3>1, <3>2, <3>3, <3>4, <3>5
    <3> QED
      BY <2>4, <3>6 DEF Good
  <2> QED
    BY <2>3, <2>5, <2>6
<1>4. CASE InitState
  <2> SUFFICES ASSUME NEW n \in Node PROVE Good(n)'
    BY <1>0
  <2>1. /\ db'[n] = RowsKept[n]
        /\ samples'[n] = Restored(n)
        /\ lastPersisted'[n] = RestoredAt(n)
    BY <1>4 DEF InitState, RowsKept
  <2>2. RowsKept[n] # None => RowsKept[n] \in Record
    BY DEF RowsKept, TypeOK
  <2> QED
    BY <2>1, <2>2, ConstantsAssumption DEF Good, Restored, RestoredAt, Record, Time, Stamp
<1>5. CASE LoadConfig \/ Crash
  BY <1>0, <1>5 DEF LoadConfig, Crash, Good
<1>6. CASE Tick \/ SetClock \/ EditConfig \/ UNCHANGED vars
  BY <1>0, <1>6 DEF Tick, SetClock, EditConfig, WriteFile, RemoveFile, vars, Good
<1> QED
  BY <1>0, <1>2, <1>3, <1>4, <1>5, <1>6 DEF Next

LEMMA DiskInductive ==
  ASSUME DbFailures = FALSE
  PROVE  Spec => [](TypeOK /\ Volatile /\ DiskInv)
<1>1. Init => TypeOK /\ Volatile /\ DiskInv
  BY TypeInit, VolatileInit DEF Init, DiskInv, DiskCloseBehind, ThrottleConfigured
<1>2. TypeOK /\ Volatile /\ DiskInv /\ [Next]_vars => (TypeOK /\ Volatile /\ DiskInv)'
  BY TypeStep, VolatileStep, DiskStep
<1> QED
  BY <1>1, <1>2, PTL DEF Spec

\* Without failures of the database, what the throttle would lose in a crash is
\* less than the longest interval configured, and the row is never ahead of memory.
THEOREM DiskFollows ==
  ASSUME DbFailures = FALSE
  PROVE  Spec => []DiskCloseBehind
<1>1. DiskInv => DiskCloseBehind
  BY DEF DiskInv
<1> QED
  BY <1>1, DiskInductive, PTL

\* Without failures of the database, the row of a node in memory is rewritten no
\* sooner than the configured interval after it was last written.
THEOREM WritesAreRare ==
  ASSUME DbFailures = FALSE
  PROVE  Spec => WriteRate
<1> DEFINE Rare ==
      \A n \in Node :
        samples[n] # None /\ db[n] # None /\ db'[n] # None /\ db'[n] # db[n]
          => db'[n].received - db[n].received >= settings'.persist
<1>1. ASSUME TypeOK, Volatile, DiskInv, [Next]_vars PROVE Rare
  <2>1. CASE Current
    BY <2>1 DEF Current, RowsAfter
  <2>2. ASSUME NEW i \in Node, NEW k \in Key, NEW ts \in Stamp, Accept(i, k, ts)
        PROVE  Rare
    <3> DEFINE r == [ts |-> ts, received |-> now]
    <3> PICK m \in StatResults, deleted \in Outcomes, written \in Outcomes :
          /\ ReloadConfig(m)
          /\ db' = IF WriteDue(i, m) /\ written
                   THEN [RowsAfter(m, deleted) EXCEPT ![i] = r]
                   ELSE RowsAfter(m, deleted)
      BY <2>2 DEF Accept
    <3>1. phase = "up" /\ settings'.persist = SettingsAfter(m).persist
      BY DEF ReloadConfig
    <3> SUFFICES ASSUME NEW n \in Node,
                        samples[n] # None, db[n] # None, db'[n] # None, db'[n] # db[n]
                 PROVE  db'[n].received - db[n].received >= settings'.persist
      OBVIOUS
    <3>2. n = i /\ WriteDue(i, m) /\ db'[n] = r
      BY DEF RowsAfter
    <3>3. lastPersisted[n] # None /\ db[n].received = lastPersisted[n]
      BY <1>1, <3>1 DEF DiskInv, DiskCloseBehind
    <3> QED
      BY <3>1, <3>2, <3>3 DEF WriteDue
  <2>3. CASE InitState
    BY <1>1, <2>3 DEF InitState, Volatile, NoRecords
  <2>4. CASE Tick \/ SetClock \/ EditConfig \/ LoadConfig \/ Crash \/ UNCHANGED vars
    BY <2>4
       DEF Tick, SetClock, EditConfig, WriteFile, RemoveFile, LoadConfig, Crash, vars
  <2> QED
    BY <1>1, <2>1, <2>2, <2>3, <2>4 DEF Next
<1>2. TypeOK /\ Volatile /\ DiskInv /\ [Next]_vars => [Rare]_vars
  BY <1>1
<1>3. Spec => [][Rare]_vars
  BY <1>2, DiskInductive, PTL DEF Spec
<1> QED
  BY <1>3 DEF WriteRate

\* No reload takes a node out of the registry.
NodesStay ==
  phase = "up" /\ phase' = "up" => Registered(keys) \subseteq Registered(keys')

\* what was written is still in the table
WrittenIsThere == phase = "up" => \A n \in Node : lastPersisted[n] # None => db[n] # None

LEMMA NoneDropped ==
  ASSUME NodesStay, NEW m, NEW deleted, ReloadConfig(m)
  PROVE  Dropped(m) = {} /\ \A n \in Node : RowsAfter(m, deleted)[n] = db[n]
<1>1. Reads(m) => Registered(keys) \subseteq Registered(file.keys)
  BY DEF NodesStay, ReloadConfig, KeysAfter
<1> QED
  BY <1>1 DEF Dropped, RowsAfter

LEMMA WrittenStep ==
  ASSUME DbFailures = FALSE, TypeOK, WrittenIsThere, [Next]_vars, NodesStay
  PROVE  WrittenIsThere'
<1>1. CASE Current
  <2> PICK m \in StatResults, deleted \in Outcomes :
        ReloadConfig(m) /\ db' = RowsAfter(m, deleted) /\ UNCHANGED lastPersisted
    BY <1>1 DEF Current
  <2> QED
    BY NoneDropped DEF ReloadConfig, WrittenIsThere
<1>2. ASSUME NEW i \in Node, NEW k \in Key, NEW ts \in Stamp, Accept(i, k, ts)
      PROVE  WrittenIsThere'
  <2> DEFINE r == [ts |-> ts, received |-> now]
  <2> PICK m \in StatResults, deleted \in Outcomes, written \in Outcomes :
        /\ ReloadConfig(m)
        /\ db' = IF WriteDue(i, m) /\ written
                 THEN [RowsAfter(m, deleted) EXCEPT ![i] = r]
                 ELSE RowsAfter(m, deleted)
        /\ lastPersisted' = PersistedAfter(i, m, written)
    BY <1>2 DEF Accept
  <2>1. phase = "up" /\ \A n \in Node : RowsAfter(m, deleted)[n] = db[n]
    BY NoneDropped DEF ReloadConfig
  <2>2. CASE WriteDue(i, m) /\ written
    <3>1. r # None
      <4>1. r \in Record
        BY DEF Record, TypeOK
      <4> QED
        BY <4>1, ConstantsAssumption DEF Record, Time, Stamp
    <3>2. db'[i] = r /\ \A n \in Node \ {i} : db'[n] = db[n]
      BY <2>1, <2>2 DEF RowsAfter
    <3>3. \A n \in Node \ {i} : lastPersisted'[n] = lastPersisted[n]
      BY <2>2 DEF PersistedAfter, TypeOK
    <3> QED
      BY <2>1, <3>1, <3>2, <3>3 DEF WrittenIsThere
  <2>3. CASE ~(WriteDue(i, m) /\ written)
    BY <2>1, <2>3 DEF PersistedAfter, WrittenIsThere
  <2> QED
    BY <2>2, <2>3
<1>3. CASE InitState
  BY <1>3 DEF InitState, RestoredAt, Restored, WrittenIsThere
<1>4. CASE LoadConfig \/ Crash
  BY <1>4 DEF LoadConfig, Crash, WrittenIsThere
<1>5. CASE Tick \/ SetClock \/ EditConfig \/ UNCHANGED vars
  BY <1>5 DEF Tick, SetClock, EditConfig, WriteFile, RemoveFile, vars, WrittenIsThere
<1> QED
  BY <1>1, <1>2, <1>3, <1>4, <1>5 DEF Next

\* Every node in memory has its row, as long as no write fails and no reload removes a
\* node. A node that is removed and comes back within the interval is what the throttle
\* leaves without one.
THEOREM RowsStayWithNodes ==
  ASSUME DbFailures = FALSE
  PROVE  Spec /\ [][NodesStay]_vars => []AcceptedHasRow
<1>1. Init => WrittenIsThere
  BY DEF Init, WrittenIsThere
<1>2. TypeOK /\ WrittenIsThere /\ [Next]_vars /\ [NodesStay]_vars => WrittenIsThere'
  <2>1. ASSUME UNCHANGED vars, WrittenIsThere PROVE WrittenIsThere'
    BY <2>1 DEF vars, WrittenIsThere
  <2> QED
    BY <2>1, WrittenStep
<1>3. DiskInv /\ WrittenIsThere => AcceptedHasRow
  BY DEF DiskInv, DiskCloseBehind, WrittenIsThere, AcceptedHasRow
<1> QED
  BY <1>1, <1>2, <1>3, DiskInductive, PTL DEF Spec

\* Whatever fails, a row that is there was received when the throttle says its
\* node was last written: a failed write does not hold back the next one.
THEOREM ThrottleIsHonest == Spec => []ThrottleCountsWrites
<1>1. Init => TypeOK /\ Volatile /\ ThrottleCountsWrites
  BY TypeInit, VolatileInit DEF Init, ThrottleCountsWrites, NoRecords
<1>2. ASSUME TypeOK, Volatile, ThrottleCountsWrites, [Next]_vars
      PROVE  ThrottleCountsWrites'
  <2>1. CASE Current
    BY <1>2, <2>1 DEF Current, RowsAfter, ThrottleCountsWrites
  <2>2. ASSUME NEW i \in Node, NEW k \in Key, NEW ts \in Stamp, Accept(i, k, ts)
        PROVE  ThrottleCountsWrites'
    <3> DEFINE r == [ts |-> ts, received |-> now]
    <3> PICK m \in StatResults, deleted \in Outcomes, written \in Outcomes :
          /\ db' = IF WriteDue(i, m) /\ written
                   THEN [RowsAfter(m, deleted) EXCEPT ![i] = r]
                   ELSE RowsAfter(m, deleted)
          /\ lastPersisted' = PersistedAfter(i, m, written)
      BY <2>2 DEF Accept
    <3>1. \A n \in Node : RowsAfter(m, deleted)[n] \in {db[n], None}
      BY DEF RowsAfter
    <3>2. CASE WriteDue(i, m) /\ written
      <4>1. db'[i] = r /\ lastPersisted'[i] = now
        BY <1>2, <3>2 DEF PersistedAfter, RowsAfter, TypeOK
      <4>2. \A n \in Node \ {i} :
              db'[n] \in {db[n], None} /\ lastPersisted'[n] = lastPersisted[n]
        BY <1>2, <3>1, <3>2 DEF PersistedAfter, RowsAfter, TypeOK
      <4> QED
        BY <1>2, <4>1, <4>2 DEF ThrottleCountsWrites
    <3>3. CASE ~(WriteDue(i, m) /\ written)
      BY <1>2, <3>1, <3>3 DEF PersistedAfter, ThrottleCountsWrites
    <3> QED
      BY <3>2, <3>3
  <2>3. CASE InitState
    BY <1>2, <2>3 DEF InitState, RestoredAt, Restored, ThrottleCountsWrites
  <2>4. CASE Crash
    BY <2>4 DEF Crash, NoRecords, ThrottleCountsWrites
  <2>5. CASE Tick \/ SetClock \/ EditConfig \/ LoadConfig \/ UNCHANGED vars
    BY <1>2, <2>5
       DEF Tick, SetClock, EditConfig, WriteFile, RemoveFile, LoadConfig, vars,
           ThrottleCountsWrites
  <2> QED
    BY <1>2, <2>1, <2>2, <2>3, <2>4, <2>5 DEF Next
<1>3. TypeOK /\ Volatile /\ ThrottleCountsWrites /\ [Next]_vars
        => (TypeOK /\ Volatile /\ ThrottleCountsWrites)'
  BY <1>2, TypeStep, VolatileStep
<1> QED
  BY <1>1, <1>3, PTL DEF Spec

------------------------------------------------------------------------------
(* The promise *)

Members == IF phase = "up" THEN Registered(keys) ELSE {}

\* A reload is a refresh of the promise: exactly the nodes that leave the registry
\* are forgotten, in memory and in the table.
LEMMA ReloadForgets ==
  ASSUME DbFailures = FALSE, IntSettings, TypeOK, phase = "up",
         NEW m \in StatResults, NEW deleted \in Outcomes
  PROVE  /\ SamplesAfter(m) = Promise!After(Registered(KeysAfter(m)), samples)
         /\ RowsAfter(m, deleted) = Promise!After(Registered(KeysAfter(m)), db)
<1>1. deleted = TRUE
  BY DEF Outcomes
<1>2. Dropped(m) = Members \ Registered(KeysAfter(m))
  BY FilesInt DEF Dropped, KeysAfter, Members
<1> QED
  BY <1>1, <1>2 DEF SamplesAfter, RowsAfter, Promise!After, Members

LEMMA PromiseStep ==
  ASSUME DbFailures = FALSE, IntSettings, TypeOK, Volatile, [Next]_vars
  PROVE  [Promise!Next]_(Promise!vars)
<1>1. CASE Current
  <2> PICK m \in StatResults, deleted \in Outcomes :
        /\ ReloadConfig(m)
        /\ samples' = SamplesAfter(m)
        /\ db' = RowsAfter(m, deleted)
    BY <1>1 DEF Current
  <2>1. Promise!Refresh(Registered(KeysAfter(m)))
    BY ReloadForgets DEF ReloadConfig, Promise!Refresh
  <2>2. Registered(KeysAfter(m)) \in SUBSET Node
    BY DEF Registered
  <2> QED
    BY <2>1, <2>2 DEF Promise!Next
<1>2. ASSUME NEW i \in Node, NEW k \in Key, NEW ts \in Stamp, Accept(i, k, ts)
      PROVE  Promise!Next
  <2> DEFINE r == [ts |-> ts, received |-> now]
  <2> PICK m \in StatResults, deleted \in Outcomes :
        /\ ReloadConfig(m)
        /\ Authenticates(i, k, m)
        /\ Newer(i, ts, m)
        /\ samples' = [SamplesAfter(m) EXCEPT ![i] = r]
        /\ \/ db' = [RowsAfter(m, deleted) EXCEPT ![i] = r]
           \/ db' = RowsAfter(m, deleted)
    BY <1>2 DEF Accept
  <2>1. i \in Registered(KeysAfter(m))
    BY AcceptedRegistered DEF Registered
  <2>2. Promise!Learn(Registered(KeysAfter(m)), i, r)
    BY <2>1, ReloadForgets DEF ReloadConfig, Newer, Promise!Learn
  <2>3. r \in Record /\ Registered(KeysAfter(m)) \in SUBSET Node
    BY DEF Record, TypeOK, Registered
  <2> QED
    BY <2>2, <2>3 DEF Promise!Next
<1>3. CASE InitState
  <2>1. /\ phase = "loaded" /\ phase' = "up" /\ keys' = keys
        /\ db' = [n \in Node |-> IF n \in {i \in Node : Expired(i)} THEN None ELSE db[n]]
    BY <1>3 DEF InitState, RowsKept
  <2>2. samples' = [n \in Node |-> IF n \in Registered(keys) THEN db'[n] ELSE None]
    BY <1>3 DEF InitState, Restored, RowsKept, Registered
  <2>3. Promise!Start(Registered(keys))
    <3> DEFINE old == {i \in Node : Expired(i)}
    <3>1. old \in SUBSET Node /\ db' = [n \in Node |-> IF n \in old THEN None ELSE db[n]]
      BY <2>1
    <3> HIDE DEF old
    <3> QED
      BY <2>1, <2>2, <3>1 DEF Promise!Start
  <2>4. Registered(keys) \in SUBSET Node
    BY DEF Registered
  <2> QED
    BY <2>3, <2>4 DEF Promise!Next
<1>4. CASE Crash
  <2>1. CASE phase = "up"
    BY <1>4, <2>1 DEF Crash, NoRecords, Promise!Stop, Promise!Next
  <2>2. CASE phase # "up"
    BY <1>4, <2>2 DEF Crash, Volatile, Promise!vars
  <2> QED
    BY <2>1, <2>2
<1>5. CASE Tick \/ SetClock \/ EditConfig \/ LoadConfig \/ UNCHANGED vars
  BY <1>5
     DEF Tick, SetClock, EditConfig, WriteFile, RemoveFile, LoadConfig, vars, Promise!vars
<1> QED
  BY <1>1, <1>2, <1>3, <1>4, <1>5 DEF Next

\* The hub keeps the promise of module LastKnown, as long as every setting is a
\* number and no transaction on the database fails: every step of the hub is a step
\* of the promise or invisible to it.
THEOREM HubKeepsPromise ==
  ASSUME DbFailures = FALSE, IntSettings
  PROVE  Spec => KeepsPromise
<1>1. Init => TypeOK /\ Volatile
  BY TypeInit, VolatileInit
<1>2. TypeOK /\ Volatile /\ [Next]_vars => (TypeOK /\ Volatile)'
  BY TypeStep, VolatileStep
<1>3. Init => Promise!Init
  BY DEF Init, Promise!Init, NoRecords
<1>4. TypeOK /\ Volatile /\ [Next]_vars => [Promise!Next]_(Promise!vars)
  BY PromiseStep
<1> QED
  BY <1>1, <1>2, <1>3, <1>4, PTL DEF Spec, KeepsPromise, Promise!Spec
==============================================================================
