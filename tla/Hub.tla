--------------------------------- MODULE Hub ---------------------------------
(***************************************************************************)
(* The hub process of hub/app.py: it takes telemetry samples from the      *)
(* registered nodes, keeps the last one of each node in memory and, at a   *)
(* limited rate, in an SQLite table, and reloads its registry when the     *)
(* modification time of its configuration file changes.                    *)
(*                                                                         *)
(* The program is one asyncio thread and no handler awaits between         *)
(* authenticate() and the end of accept(), so a request is one step.  The  *)
(* file is edited, the clock moves and the process dies at any time.       *)
(* An edit may also fall between the stat() and the read of a reload; see  *)
(* StatResults.                                                            *)
(***************************************************************************)
EXTENDS Integers

CONSTANTS
  Node,                \* names a configuration or a sample may carry
  Key,                 \* bearer tokens; the hash of a token is the token
  ShortKey,            \* the tokens of fewer than 32 characters
  NoKey,               \* "not in token_sha256"
  None,                \* "no record"
  Settings,            \* the (offline, retention, persist) triples of a file
  NotInt,              \* a setting int() does not accept
  MaxSampleAge,        \* MAX_SAMPLE_AGE
  MaxFutureSkew,       \* MAX_FUTURE_SKEW
  FileKinds,           \* the kinds of file an operator leaves behind
  DbFailures,          \* may a transaction on the database fail?
  EditsDuringStartup,  \* may the file be edited while the hub starts?
  ClockSteps,          \* may the wall clock be set?
  MaxTime,             \* bound on the clock
  MaxEdits             \* bound on the number of times the file is written

ASSUME ConstantsAssumption ==
  /\ ShortKey \subseteq Key
  /\ NoKey \notin Key
  /\ NotInt \notin Int
  /\ None \notin Int \cup [ts : Int, received : Int]
  /\ MaxSampleAge \in Nat
  /\ MaxFutureSkew \in Nat
  /\ MaxTime \in Nat
  /\ MaxEdits \in Nat
  /\ FileKinds \subseteq {"text", "garbage", "absent"}
  /\ {DbFailures, EditsDuringStartup, ClockSteps} \subseteq BOOLEAN
  /\ Settings \subseteq [offline : Nat \cup {NotInt},
                         retention : Nat \cup {NotInt},
                         persist : Nat \cup {NotInt}]

VARIABLES
  now,           \* the wall clock of the hub, in seconds
  file,          \* the configuration file
  phase,         \* "down", "loaded" (file read, state not built) or "up"
  keys,          \* token_hashes
  settings,      \* offline_seconds, state_retention_seconds, state_persist_seconds
  mtime,         \* _config_mtime_ns
  samples,       \* samples: the last sample of each node in memory
  lastPersisted, \* _last_persisted
  db             \* the table last_samples

vars == <<now, file, phase, keys, settings, mtime, samples, lastPersisted, db>>

Registry == [Node -> Key \cup {NoKey}]
NoRegistry == [n \in Node |-> NoKey]
Time == 0..MaxTime
Stamp == 0..(MaxTime + MaxFutureSkew + 1)   \* stamps a node may send
Record == [ts : Stamp, received : Time]     \* a sample and its reception
NoRecords == [n \in Node |-> None]
Seconds == Nat
Values == [offline : Seconds, retention : Seconds, persist : Seconds]
Defaults == [offline |-> 10, retention |-> 86400, persist |-> 30]

Registered(ks) == {n \in Node : ks[n] # NoKey}

------------------------------------------------------------------------------
(* What _read_config() and int() make of the file.                          *)

\* _read_config() returns: the file is there, is well formed and registers a node.
Readable == file.kind = "text" /\ Registered(file.keys) # {}

\* every int() on the settings of the file succeeds
AllInt == NotInt \notin {file.settings.offline, file.settings.retention,
                         file.settings.persist}

\* mutant of StatResults: stat() is called once, when the hub starts
StatAtStart == {mtime}

\* What stat() may return to a reload.  An edit between stat() and the read
\* leaves the hub with the older time and the newer text.
StatResults ==
  {m \in 0..file.mtime :
     \/ m > mtime
     \/ m = mtime /\ (mtime = file.mtime \/ file.kind = "absent")}

------------------------------------------------------------------------------
(* _reload_config(), m being the time stat() returned: what each piece of   *)
(* state is after it.  The three int() calls come after the new registry is *)
(* in place and before the samples of removed nodes are dropped, so a       *)
(* setting that is no number leaves the reload half done.                   *)

Reads(m) == m # mtime /\ Readable

\* mutant of KeysAfter: the new entries are merged into the old ones
KeysMerged(m) ==
  IF Reads(m) THEN [n \in Node |-> IF file.keys[n] = NoKey THEN keys[n] ELSE file.keys[n]]
              ELSE keys

KeysAfter(m) == IF Reads(m) THEN file.keys ELSE keys

\* mutant of SettingsAfter: the settings are taken as they stand in the file
SettingsUnchecked(m) == IF Reads(m) THEN file.settings ELSE settings

\* the reload gets past the int() of each of these values
Past(m, values) == Reads(m) /\ NotInt \notin values

SettingsAfter(m) ==
  LET new == file.settings IN
  [offline   |-> IF Past(m, {new.offline}) THEN new.offline ELSE settings.offline,
   retention |-> IF Past(m, {new.offline, new.retention})
                 THEN new.retention ELSE settings.retention,
   persist   |-> IF Past(m, {new.offline, new.retention, new.persist})
                 THEN new.persist ELSE settings.persist]

Dropped(m) ==
  IF Reads(m) /\ AllInt THEN Registered(keys) \ Registered(file.keys) ELSE {}

SamplesAfter(m) == [n \in Node |-> IF n \in Dropped(m) THEN None ELSE samples[n]]

\* mutant of RowsAfter: the rows of removed nodes stay
RowsStay(m, deleted) == db

RowsAfter(m, deleted) ==
  [n \in Node |-> IF deleted /\ n \in Dropped(m) THEN None ELSE db[n]]

\* the reload raises: the request ends with status 500
Raises(m, deleted) ==
  \/ Reads(m) /\ ~AllInt
  \/ Dropped(m) # {} /\ ~deleted

Outcomes == IF DbFailures THEN BOOLEAN ELSE {TRUE}

\* The part of a request every handler starts with.
ReloadConfig(m) ==
  /\ phase = "up"
  /\ mtime' = m
  /\ keys' = KeysAfter(m)
  /\ settings' = SettingsAfter(m)
  /\ UNCHANGED <<now, file, phase>>

------------------------------------------------------------------------------
(* Telemetry *)

\* mutant of Authenticates: the token is compared before the reload
AuthenticatesStale(n, k, m) == k \notin ShortKey /\ keys[n] = k

\* authenticate(); the hash of no token is the one compared for a stranger
Authenticates(n, k, m) == k \notin ShortKey /\ KeysAfter(m)[n] = k

\* mutant of InWindow: clocks that run ahead are not looked at
NotTooOld(ts) == now - ts <= MaxSampleAge

InWindow(ts) == now - ts <= MaxSampleAge /\ ts - now <= MaxFutureSkew

\* mutant of Newer: only a repeated stamp is ignored
NotRepeated(n, ts, m) ==
  SamplesAfter(m)[n] # None => ts # SamplesAfter(m)[n].ts

Newer(n, ts, m) ==
  SamplesAfter(m)[n] # None => ts > SamplesAfter(m)[n].ts

\* mutant of WriteDue: a node is written once
WriteOnce(n, m) == lastPersisted[n] = None

\* the throttle of _persist()
WriteDue(n, m) ==
  lastPersisted[n] # None => now - lastPersisted[n] >= SettingsAfter(m).persist

\* mutant of PersistedAfter: the time is noted before the write
PersistedEagerly(n, m, written) ==
  IF WriteDue(n, m) THEN [lastPersisted EXCEPT ![n] = now] ELSE lastPersisted

\* _persist(): the time of a write is noted when the write has succeeded
PersistedAfter(n, m, written) ==
  IF WriteDue(n, m) /\ written THEN [lastPersisted EXCEPT ![n] = now] ELSE lastPersisted

\* telemetry(): the sample is stored and, when a write is due, persisted.  A
\* failed write leaves the sample in memory, and the table and the throttle alone.
Accept(n, k, ts) ==
  \E m \in StatResults, deleted \in Outcomes, written \in Outcomes :
    LET r == [ts |-> ts, received |-> now] IN
    /\ ReloadConfig(m)
    /\ ~Raises(m, deleted)
    /\ Authenticates(n, k, m)
    /\ InWindow(ts)
    /\ Newer(n, ts, m)
    /\ samples' = [SamplesAfter(m) EXCEPT ![n] = r]
    /\ db' = IF WriteDue(n, m) /\ written
                THEN [RowsAfter(m, deleted) EXCEPT ![n] = r]
                ELSE RowsAfter(m, deleted)
    /\ lastPersisted' = PersistedAfter(n, m, written)

\* current(), and telemetry() when it answers 403, 422, "ignored_older" or 500:
\* the reload is all that changes.
Current ==
  \E m \in StatResults, deleted \in Outcomes :
    /\ ReloadConfig(m)
    /\ samples' = SamplesAfter(m)
    /\ db' = RowsAfter(m, deleted)
    /\ UNCHANGED lastPersisted

------------------------------------------------------------------------------
(* Start and end of the process *)

\* load_config(): the registry and settings the process starts from.  A file
\* that cannot be read, or a setting that is no number, ends the process.
LoadConfig ==
  /\ phase = "down"
  /\ Readable
  /\ AllInt
  /\ phase' = "loaded"
  /\ keys' = file.keys
  /\ settings' = file.settings
  /\ UNCHANGED <<now, file, mtime, samples, lastPersisted, db>>

Expired(n) == db[n] # None /\ db[n].received < now - settings.retention

RowsKept == [n \in Node |-> IF Expired(n) THEN None ELSE db[n]]

\* mutant of Restored: every row of the table is loaded
RestoredRow(n) == RowsKept[n]

Restored(n) == IF keys[n] # NoKey THEN RowsKept[n] ELSE None

\* mutant of RestoredAt: the throttle starts empty
ThrottleEmpty(n) == None

RestoredAt(n) == IF Restored(n) = None THEN None ELSE Restored(n).received

\* HubState.__init__() and _restore(): only now is the time of the file taken.
InitState ==
  /\ phase = "loaded"
  /\ file.kind # "absent"
  /\ phase' = "up"
  /\ mtime' = file.mtime
  /\ db' = RowsKept
  /\ samples' = [n \in Node |-> Restored(n)]
  /\ lastPersisted' = [n \in Node |-> RestoredAt(n)]
  /\ UNCHANGED <<now, file, keys, settings>>

\* The process ends: killed, stopped, or by an exception while it starts.
Crash ==
  /\ phase # "down"
  /\ phase' = "down"
  /\ keys' = NoRegistry
  /\ settings' = Defaults
  /\ mtime' = 0
  /\ samples' = NoRecords
  /\ lastPersisted' = NoRecords
  /\ UNCHANGED <<now, file, db>>

------------------------------------------------------------------------------
(* The environment *)

Tick ==
  /\ now < MaxTime
  /\ now' = now + 1
  /\ UNCHANGED <<file, phase, keys, settings, mtime, samples, lastPersisted, db>>

\* The host has no battery-backed clock: time synchronisation may set it back.
SetClock ==
  /\ ClockSteps
  /\ \E t \in Time : now' = t
  /\ UNCHANGED <<file, phase, keys, settings, mtime, samples, lastPersisted, db>>

\* The file is replaced: its time changes, whatever its text is.
WriteFile(kind, ks, s) ==
  /\ phase = "loaded" => EditsDuringStartup
  /\ file.mtime < MaxEdits
  /\ file' = [kind |-> kind, keys |-> ks, settings |-> s, mtime |-> file.mtime + 1]
  /\ UNCHANGED <<now, phase, keys, settings, mtime, samples, lastPersisted, db>>

\* The file is gone, until it is written again.
RemoveFile ==
  /\ phase = "loaded" => EditsDuringStartup
  /\ file.kind # "absent"
  /\ "absent" \in FileKinds
  /\ file' = [file EXCEPT !.kind = "absent"]
  /\ UNCHANGED <<now, phase, keys, settings, mtime, samples, lastPersisted, db>>

------------------------------------------------------------------------------

Init ==
  /\ now = 0
  /\ \E ks \in Registry, s \in Settings :
       file = [kind |-> "text", keys |-> ks, settings |-> s, mtime |-> 1]
  /\ phase = "down"
  /\ keys = NoRegistry
  /\ settings = Defaults
  /\ mtime = 0
  /\ samples = NoRecords
  /\ lastPersisted = NoRecords
  /\ db = NoRecords

EditConfig ==
  \/ \E ks \in Registry, s \in Settings : WriteFile("text", ks, s)
  \/ "garbage" \in FileKinds /\ WriteFile("garbage", file.keys, file.settings)
  \/ RemoveFile

Next ==
  \/ Tick
  \/ SetClock
  \/ EditConfig
  \/ LoadConfig
  \/ InitState
  \/ Crash
  \/ Current
  \/ \E n \in Node, k \in Key, ts \in Stamp : Accept(n, k, ts)

Spec == Init /\ [][Next]_vars

\* The display polls the state every refresh interval.
FairSpec == Spec /\ WF_vars(Current)

------------------------------------------------------------------------------
(* Properties *)

\* Every variable keeps its shape.
TypeOK ==
  /\ now \in Time
  /\ file \in [kind : {"text", "garbage", "absent"}, keys : Registry,
               settings : Settings, mtime : 1..(MaxEdits + 1)]
  /\ phase \in {"down", "loaded", "up"}
  /\ keys \in Registry
  /\ settings \in Values
  /\ mtime \in 0..(MaxEdits + 1)
  /\ samples \in [Node -> Record \cup {None}]
  /\ lastPersisted \in [Node -> Time \cup {None}]
  /\ db \in [Node -> Record \cup {None}]

\* A hub that has seen the time the file now has runs on the registry the file
\* now has: comparing times never hides an edit (_reload_config, load_config).
RegistryFresh ==
  phase = "up" /\ mtime = file.mtime /\ Readable => keys = file.keys

\* Memory holds samples of registered nodes only, through every reload and
\* restart (accept, _reload_config, _restore).
NoOrphanSamples ==
  \A n \in Node : samples[n] # None => keys[n] # NoKey

\* Whatever is in memory or on disk had a stamp inside the window around its
\* reception, whichever way it got there (accept, _persist, _restore).
StampWindow ==
  \A n \in Node : \A r \in {samples[n], db[n]} :
    r # None => r.ts \in (r.received - MaxSampleAge)..(r.received + MaxFutureSkew)

\* The throttle loses less than the longest interval an operator configured:
\* a running hub has written each node it has a sample of, the sample in memory
\* is less than that interval younger than the write, and a row that is still
\* there is that write and holds no newer stamp than memory.
DiskCloseBehind ==
  \A n \in Node : phase = "up" /\ samples[n] # None =>
    /\ lastPersisted[n] # None
    /\ \/ samples[n].received = lastPersisted[n]
       \/ \E s \in Settings : /\ s.persist # NotInt
                              /\ samples[n].received - lastPersisted[n] < s.persist
    /\ db[n] # None => /\ db[n].received = lastPersisted[n]
                       /\ db[n].ts <= samples[n].ts

\* The throttle counts writes that reached the table, never one that failed: a
\* row that is there was received when the throttle says it was written, through
\* failed writes and failed deletes (_persist, _reload_config).
ThrottleCountsWrites ==
  \A n \in Node :
    lastPersisted[n] # None /\ db[n] # None
      => db[n].received = lastPersisted[n]

\* One process never goes back to an older stamp of a node it still knows, even
\* when samples arrive late, twice or out of order.
StampsAdvance ==
  [][\A n \in Node :
       samples[n] # None /\ samples'[n] # None /\ samples'[n] # samples[n]
         => samples'[n].ts > samples[n].ts]_vars

\* The row of a node in memory is rewritten no sooner than the configured
\* interval after it was last written, restarts included.
WriteRate ==
  [][\A n \in Node :
       samples[n] # None /\ db[n] # None /\ db'[n] # None /\ db'[n] # db[n]
         => db'[n].received - db[n].received >= settings'.persist]_vars

\* A token that the file no longer gives to a node is refused from the first
\* request on, and a token it gives is the only one accepted.
RotationIsImmediate ==
  [][Readable => \A n \in Node : \A k \in Key \ {file.keys[n]}, ts \in Stamp :
                   ~Accept(n, k, ts)]_vars

\* docs/display-ui-phase-0-contract-v1.1-addendum.md, section 8: a node that a reload
\* adds appears as waiting until its first telemetry.
AddedNodeWaits ==
  [][\A n \in Node :
       phase = "up" /\ phase' = "up" /\ keys[n] = NoKey /\ keys'[n] # NoKey
         => samples[n] = None]_vars

\* README.md: the hub keeps one last-known sample per node in SQLite.
AcceptedHasRow ==
  \A n \in Node : phase = "up" /\ samples[n] # None => db[n] # None

\* Once the file stays readable and the hub stays up, the hub comes to run on
\* the registry of the file and stays on it.
RegistryConverges ==
  <>[](phase = "up" /\ Readable) => <>[](keys = file.keys)

\* What a reader of the state sees is the promise of module LastKnown.
Promise == INSTANCE LastKnown WITH
  serving <- phase = "up",
  members <- IF phase = "up" THEN Registered(keys) ELSE {},
  known <- samples,
  saved <- db

\* The hub implements the promise: reloads, restarts and throttled writes
\* change nothing else (accept, _reload_config, _persist, _restore).
KeepsPromise == Promise!Spec

==============================================================================
