# Verification of the homelab resource monitor

TLA+ models of the homelab resource monitor, the TLC runs that check them on
small instances, and TLAPS proofs of theorems about them. Everything here is
written from the code of the repository; where a document says something else,
the difference is a finding (below).

- [The system](#the-system): components, state, operations, what is hard
- [Modules](#modules): which module models what, and how it corresponds to the code
- [Runs](#runs): what TLC checks, with which bounds, and what it shows
- [Proofs](#proofs): what is proved, from which assumptions, along which argument
- [Findings](#findings)
- [Not modelled](#not-modelled) and [plan](#plan)

## The system

```text
Linux agent   --\
                 +-- POST telemetry --> hub --> GET state (poll) --> display + touch
Windows agent --/                        |                              |
                                 hub.json, SQLite          power helper (Unix socket, root)
```

| component | state | operations | interacts with |
|---|---|---|---|
| Hub (`hub/app.py`) | registry of token hashes, settings, time of the configuration file; last sample of each node in memory; table `last_samples`; time of the last write of each node | reload, authenticate, accept, persist, restore, read the current state | agents (HTTP), display (HTTP, polling), operator (file), SQLite |
| UI reducer (`display/ui_state.py`, `categories.py`) | one `UiState`: screen, selected node by name and position, category, chart metric, pages, the pending power action, its hold, status and error, three times | `reduce_ui` on eleven kinds of event | called by the display loop only |
| Navigation (`display/navigation.py`) | none | hit tests, pagination, calibration of a raw touch | called by the reducer and the loop |
| Display loop (`display/app.py`, `gestures.py`) | the reducer's state, the node list, the belief in the hub, the touch recognizer, the action under the finger, the queued power request, the frame shown | poll the hub, read the panel, feed the reducer, draw, ask the helper | hub, panel, power client |
| Power client and helper (`power_client.py`, `power_helper.py`, systemd units) | one connection and one process per request; few processes at a time | connect, write, read, authorise, execute, answer, give up | display loop, other local processes, systemd |
| Sample history (`history.py`) | a bounded window of samples per node and metric, the last stamp of each node | add, series | display loop, renderer |
| Linux agent (`agents/linux`) | the previous reading of each counter | collect, post, give up, sleep | kernel files, hub |
| Windows agent (`agents/windows`) | as above | as above | sensor library, hub |
| Node registration (`add-node-hash.py`) | the configuration file | read, change, replace | hub, through the file |
| Protocol, rendering, drivers, deployment, tools | none of their own that outlives a call | | |

What is hard to test, and what each component must guarantee:

- **Hub.** One asyncio thread, and no handler awaits between authentication and
  the end of `accept`, so a request is atomic. Around it nothing is: the file is
  replaced, removed or broken at any time and read behind one comparison of
  modification times; a reload can stop half way; a transaction can fail after
  memory has changed; the process dies and restores rows of another registry;
  the wall clock of a host without a battery-backed one is set back. It must run
  on the registry of the file, accept only the tokens in it, keep one sample per
  registered node that only gets newer, and lose at most one write interval.
- **UI reducer.** Small steps, many orders. Nodes and categories come and go
  under every screen, results and timeouts arrive at screens that were left.
  Name and position of the selection must agree with the list, a screen must not
  show what its node does not have, and a power request must be confirmed, held,
  sent and ended in this order.
- **Display loop.** One task that awaits the hub, the helper and its sleep, while
  a finger comes and goes. The clock is read once per iteration, before a wait of
  up to two seconds. A press must count once, a hold must be a hold, a request
  must be on the screen before it is made, and the display must come home.
- **Power protocol.** The client gives up before the helper does, so a timeout does
  not mean that nothing happened, and a second request may run beside the first.
  Every wait on either side has its own timeout, every answer can be lost, other
  processes may use the same socket, and the host may be stopping. Only what an
  entitled peer asked for in full may be carried out; "accepted" and a refusal must
  be true; client and helper must both end.
- **History, sending loop.** Requests and answers are lost or late, the hub restarts
  with older samples, the clock of a node is set. A chart must stay in order and
  keep what it has shown, what looks online must have been heard, and the end of
  the chart must follow the hub.
- **Counters.** They begin again, wrap around, go back and change their source between
  two readings. A rate must be of one source and no more than it carried, a usage
  no less than the work done.
- **Registration.** Read, write, give away and replace are separate steps on two
  file names; scripts overlap and are killed.

`PROJECT.json` lists these hazards one by one, at their lines, with the
properties that would catch them.

## Modules

| module | models | |
|---|---|---|
| `Hub` | `hub/app.py` | the hub process, its file, its table, its clock |
| `LastKnown` | what a reader of the hub is promised | abstract specification, implemented by `Hub` |
| `Navigation` | `display/navigation.py` | hit-test tables and pagination, operators only |
| `Ui` (extends `Navigation`) | `display/ui_state.py`, `categories.py` | the reducer, any event at any time |
| `Display` (extends `Ui`) | `display/app.py`, `gestures.py` | the loop, the recognizer, a finger; implements `Ui` |
| `PowerProtocol` | `power_client.py`, `power_helper.py`, the socket unit | client, helpers, systemctl, other peers |
| `PowerPromise` | what the user and the host are promised | abstract specification, implemented by `PowerProtocol` |
| `Telemetry` (instance of `LastKnown`) | `agents/linux/agent.py`, `Worker.cs`, the refresh of `display/app.py`, `history.py` | a sample from a node to a chart |
| `Rates` | the counters of `agents/linux/collector.py` | network, storage, processor, packages |
| `Registration` | `add-node-hash.py` | scripts that overlap and are killed |
| `HubProofs`, `NavigationProofs`, `UiProofs`, `DisplayProofs`, `PowerProofs`, `TelemetryProofs`, `RatesProofs`, `RegistrationProofs` | theorems | |
| `MCHub`, `MCUi`, `MCDisplay`, `MCPower`, `MCTelemetry` | instances for TLC | values of the constants; `MCTelemetry` puts three modules side by side |

A definition whose comment begins "mutant of D" is a plausible mistake in D. No
specification uses it; putting it in the place of D makes a property fail, and
`PROJECT.json` says which.

### Hub

`phase` is the life of the process: `LoadConfig` (`load_config`) reads the file,
`InitState` (`HubState.__init__` and `_restore`) takes its time and loads the
table, `Crash` ends it at any point. The requests are `Accept` (a stored sample)
and `Current` (everything that only reloads: reading the state, and samples that
are refused or older). Every request begins with the reload, so each piece of
state has an operator for what the reload makes of it (`KeysAfter`,
`SettingsAfter`, `SamplesAfter`, `RowsAfter`), in the order of the code: the
registry is replaced, then three `int()` calls may raise, then samples and rows
of removed nodes go.

- `StatResults` is the window between `stat()` and the read of a reload: the hub
  may note any time from the one it last noted to the one the file has, and reads
  what the file holds now.
- Failing transactions (`deleted`, `written`) and edits during startup are
  switched by constants, because some properties hold only without them.
- A token is its hash. A setting is a number or `NotInt`. A sample is its stamp.
- Parsing a request, schema validation and the flag `online` of an answer change
  no state and are left out.

### Navigation and Ui

The tables of hit boxes are functions from actions to rectangles, with the
program's coordinates. The program scans a table in order; `At` takes any hit.
That no two boxes of a table overlap, so that these agree, is proved. `MapTouch` and
`Scale` are the calibration of a raw sample, `Rounded` the rounding of Python (half to
even), by which the order of two touches must survive.

`Ui` has one operator per event of `reduce_ui` (`DataRefreshed`, `ShortPress`,
`LongPress`, `HoldStarted`, `HoldTick`, `HoldEnded` for cancelled and released,
`RequestAccepted`, `RequestFailed`, `InactivityTick`, `AutoRotateTick`), from a
state to a state, and an action per event that offers it with any data. Verdicts
of the clock (hold complete, timeout over, rotation due) are parameters, so `Ui`
allows any timing, and what it guarantees, it guarantees for any loop around the
reducer. A node of a list is its name and the categories available on it. The flags
for redrawing that a transition carries are left out; its effect is
`RequestsPower`.

### Display

One iteration of `run()` is cut where something else can happen:

```text
fetch -> input -> idle -> render -> [request ->] sleep -> fetch or input
```

`Fetched` is the answer of the hub (or none: then the old list is refreshed
again), `InputDown` and `InputUp` the look at the panel with the recognizer,
the hold and the gesture that result from it, `Inactivity` the second look at the
panel, `Render` rotation and frame, `RequestIsAccepted` and `RequestIsFailed` the
helper's answer, `Wake` the next iteration. `failed` is reached where the code
would meet one of its assertions. `Finger` moves at any point of this, `Tick`
passes time while the loop waits.

Times are ages: a recorded moment is kept as the number of ticks since, capped
where no comparison can tell the difference, and `lag` is how far `now` is behind
the clock. This keeps the state space finite without a bound on the clock.
A frame is what distinguishes one from the next here: screen, pending action,
status and error; that it is sent in full for a request (`power_frame_presented`)
follows from the transition that queues one. Three history variables are read by the
properties only: `turns` counts how often a press has changed the screen, `heldFor` is
the time since the finger came to the button, unless a look has found it elsewhere
since, and `watched` is the age, by the loop's clock, of the first of the looks that
have found it there in a row.

### PowerProtocol and PowerPromise

A connection is a record: who opened it, what it is to carry and how much of that has
been written, whether its ends are closed, what the client was told, and the helper
that serves it with its timer, its systemctl (`cmd`) and what the host took (`effect`).
Bytes are counted, not spelled: a payload is a model value with a length, and the
helper sees a request when it has read all of it.

| code | actions |
|---|---|
| `request_power_action` | `Ask`, `Connected`, `ConnectFails`, `Write`, `WriteEof`, `ReadLine`, `ReadEnd`, `IoFails`, `ClientTimesOut` |
| socket unit (`Accept`, `MaxConnections`) | `Served`, part of `Connected` and `OtherConnects` |
| `handle_connection`, `_read_request` | `Start`, `Recv`, `RecvEnd`, `ReadTimesOut`, `HelperFails` |
| `execute_action` | `Received`, `CommandEnds`, `CommandTimesOut` |

The host takes an action at any time while its systemctl runs, and one that is killed
may have been heard all the same. From the first action taken on, the host may stop
its services, and begins again. Other processes connect if the mode of the socket lets
them, write at any pace and close when they like. `PowerPromise` knows only what was
asked for, what was done and what was told.

### Telemetry

One node, whose samples are stamps; the hub is module `LastKnown`, which `Hub`
implements, so what holds here holds with the real hub under the conditions of
`HubKeepsPromise`. `Sends`, `PostIsAnswered`, `PostFails`, `PostTimesOut` are the
sending loop; a request that was abandoned may be among `late` and arrive when it
likes, after newer ones too. `Asks`, `HubAnswers`, `FetchSucceeds`, `FetchFails` are the
refresh of the display, the first and last of them two sides of a wait; `Add` is
`HistoryStore.add`. `epoch` counts how often the hub forgot the node, by a restart or a
removal; the properties read it, the code has nothing like it. A timer counts
down and no tick passes over its end, so a timeout is neither early nor late.

### Rates

Three parts that share only the clock. In each the kernel moves on its own (`Carry`,
`Plug`, `Spends`, `IowaitGoesBack`, `Draws`) and the collector compares two readings
(`Look`, `CpuUsage`, `CpuPower`, or their failure). A rate is kept as the amount and
the time it is divided by, next to what really happened (`real`). Which interface
has the most traffic depends on both directions, so `Look` takes any interface there
is.

### Registration

`File` are identities, `path` and `tmp` the names: a script that finds the temporary
file there empties and writes that one, whoever else has it open. Of two different
texts written over one another a registry of either length can result, or none
(`Torn`). A script gives the temporary file to the owner it has found (`found`). `met` are
the scripts that have run at the same time as another.

## Runs

| run | configuration | states | checks |
|---|---|---|---|
| `hub_core` | two nodes, one token, clock 0..3 that is set at will, two edits | 125,988 | memory, table and readers stay related; `Hub` implements `LastKnown` |
| `hub_registry` | valid, broken, half-numeric, removed files; a short token; failing transactions; two edits | 117,604 | registry, tokens and throttle; liveness of the reload |
| `ui_events` | lists of up to six nodes, two pages, a point in every region of every table | 10,416 | all invariants of the reducer |
| `display_loop` | a finger that goes between four points and away at any step; lists that come, go and lose categories; automatic rotation; the way to a shutdown, values, graph and menu | 2,154,020 | hold, request, frame, one turn per press; `Display` implements `Ui` |
| `display_home` | one node, the points on the way to a shutdown and back, no rotation, fair | 102,994 | the display comes home |
| `power_protocol` | two connections, a request of full length and one that is too long, two helpers at a time | 245,931 | `PowerProtocol` implements `PowerPromise`; both sides end |
| `telemetry` | a sample each tick, one from a clock set back or forward, one forgetful hub, one late request; two interfaces, a disk, two packages with different ranges; three scripts | 299,403 | charts, figures, registrations |
| `hub_row_missing`, `hub_late_edit`, `hub_bad_setting`, `display_late`, `usage_percent` | | | findings |

### What they show

*Hub.* `RegistryFresh`: a hub that has noted the time the file now has runs on the
registry the file now has. `RotationIsImmediate`: no sample is accepted under a
token a readable file no longer gives to the node. `NoOrphanSamples`: memory holds
samples of registered nodes only. `StampWindow`, `StampsAdvance`: what is kept was
fresh at its reception and only gets newer, in one process. `DiskCloseBehind`,
`WriteRate`, `ThrottleCountsWrites`: the throttle loses less than an interval,
writes no more often, and never counts a failed write. `KeepsPromise`: to a reader
the hub is `LastKnown`. `RegistryConverges`: once the file stays readable and the
hub up, it comes to run on the registry of the file.

*Reducer.* `UiTypeOK`: what is selected is in the list, the page of the list exists, and
so does the row a new list keeps in mind for a selection it has lost. `SelectionAgrees`: the
two forms of the selection name one node of the current list.
`RefreshKeepsSelection` is `docs/display-ui-phase-0-contract.md:613-618`: a new list that
still has the node does not move the selection, the page of the list stays unless the list is
too short for it, and when the node is gone while the list is shown, the first node by name is
selected and its page shown. `CategoryShown`: values and graph are shown only for a node that has
them. `NodesReachable`: every node has exactly one row on one page. `PowerCoherent`:
pending action, hold, status and error exist on their screens and nowhere else.
`PowerPath`: a request is confirmed, held, sent, and ended by its own result.

*Loop.* `RequestIsShown`, `NeverFails`: a request is made under its own frame, and
no assertion of the loop is met. `OneTurnPerPress`: a press changes the screen at
most once, however it is held, slid or released. `HighlightIsLive`: what is
highlighted belongs to a press still followed. `HoldIsWatched`: a request goes out only at a
look that finds the finger on the button, as every look has since an iteration that
began the hold time ago. It forgives a lift and a press between two looks, which the code
cannot see, and says nothing of how long the first of the looks came after that iteration
began, which is the finding `display_late`. `RefinesReducer`: the loop does nothing the reducer's
specification does not allow. `ComesHome`: when the finger stays away, the display
returns to the overview, unless a request was accepted.

*Power.* `KeepsPowerPromise`: nothing is carried out that an entitled peer did not ask
for in full, and that once; what is told as accepted has been taken, what is told as
refused is not and will not be, unless the host already stops. That this needs the
client's timeout to be the shorter one is the assumption of the module. `ReadIsBounded`:
a helper reads no longer than one timeout for each byte a request may have and one more.
`NobodyHangs`: every request of the display ends, and every helper.

*Charts.* `SeriesInOrder`, `WindowKept`: from left to right, each sample once, none older
than the window, except where the hub began again. `SeenIsKept`: what was shown goes
only by age, or from the left end of a full chart. `OnlineWasHeard`: what looks online
was heard within the offline time and three waits of the display. `ChartFollows`: what
the hub keeps knowing becomes the end of the chart, also the older sample after a
restart.

*Figures.* `RateIsReal`: a rate is what one source carried in the time, or less if its
counter began again. `UsageIsHonest`: never less than the work, exact without
guests, whose time the kernel counts twice, and without corrections by the kernel; never
above the whole by more than such a correction took back. That it can be above the whole is
the finding `usage_percent`.
`PowerIsExactWhenAlike`: exact if all counters or none have wrapped, and else wrong by
the ranges of those that have or have not.

*Registrations.* `RegistryIsUsable`, `DoneIsRegistered`: one at a time, the registry is
whole at every moment; and whoever finished alone stays in every whole registry,
whatever others do to one another.

### Bounds

*Hub.* Two nodes are needed to remove one and keep one (a readable file registers
at least one); more add nothing, since no operation relates two nodes. Two edits
after the first file are remove and re-add, or break and repair. Four instants
exceed the longest persist interval (2) and reach the retention (2, 3). A sample may
be one second old and, in the passing runs, not ahead of the hub at all, so that the
first stamp beyond either end of the window is among those tried.
`hub_registry` has two instants, enough for a write that is due after one that
failed; the registry needs no time at all.

*Reducer.* Lists of zero to six nodes have one page, a full page, a page and a
rest, and two full pages. They come in orders other than that of the names and
change places. The test points lie in every region that any table or gap of any
screen cuts out, so each press means what it can mean.

*Loop.* Ticks stand for the shortest time that makes a difference: hold 3 (2 in
`display_home` and `display_late`), long press 2, wait for the hub 1 (0 in `display_home`, 2 in
`display_late`), sleep 1, timeouts and rotation 2. With a hold of 3 and a look every tick, or
every two with a wait, a hold is three looks or two, and a finger may leave and come back
between any of them. `PointsKept` is 2 instead of 5, the least at which a median is between
two points; it is 1 in `display_home` and `display_late`, whose questions are not where a press
was. Releases are debounced for a tick in `display_loop` and not at all in the other two, and
rotation is on in `display_loop` only. It begins without a node; its lists are two nodes with
one category each, and one of the two without it. `display_loop` does not distinguish states by
`heldFor` (its `VIEW`), which no action and none of its properties reads.

*Power.* One client and one that gave up, or one other process, are two connections; they
are used again when they are over, which makes any number one after another. Requests
of one byte and junk of two reach the limit and pass it. The timeouts are 1, 1 and 2 as
in the code.

*Telemetry.* Samples are taken at ticks 0, 1 and 2, with stamps 0, 1, and 1 or 3: in order,
repeated, and ahead by more than the window. Two more ticks let every timeout and the
offline time pass; then the clock stands still while everything else goes on.
`MaxSamples` 3 and `Window` 1 are both reached. One lost memory of the hub and one late
request make every disorder of two stamps.

*Rates.* Counters to 3 and clock to 2: three readings, with a reset, a wrap or a change of
source in either interval. Ranges 3 and 2 differ, so that a sum that is unwrapped with
the wrong range shows.

*Registration.* Three scripts: two that meet and one that comes before, between or after. A
script that finds a registry not given to the hub would have to be a fourth one; the proofs
cover any number.

### Fairness

`FairSpec` of the hub has `WF(Current)`: the display polls the state every half
second, so a running hub reloads again and again. Nothing forces the operator, the
clock or an agent. `FairDisplay` has `WF(Step)` and `WF(Tick)`: the loop is one task
that no other blocks, each of its waits has a timeout, and clocks run. The finger
is under no fairness: `ComesHome` assumes that it eventually stays away.

`FairSpec` of the power protocol has `WF(Tick)`, `WF(ClientGoesOn)` and one
`WF(HelperGoesOn(c))` for each connection: clocks run and processes are scheduled.
Nothing makes a peer write, a command finish or the host take an action.
`TelemetryFairness` has weak fairness for time, for the timeouts of agent and display and
for the display asking again, and strong fairness for the hub's answer and its
reception, which are enabled again and again by ever new requests: if each of them
failed, the display could never follow. Nothing makes a sample arrive or the hub
run; `ChartFollows` says nothing of a hub that never answers because it never runs.

Deadlock is checked except in the findings of the hub, whose clock is bounded and
never set back, and in `hub_registry`, where a hub that is down while its file is
gone does stop.

## Proofs

All constants arbitrary (any number of nodes, tokens, points, lists and ticks);
the assumptions are the one of each module about its constants, which TLC evaluates in
every run of that module: `ConstantsAssumption` (`Hub`), `UiAssumption` (`Ui`),
`DisplayAssumption`, `PowerAssumption`, `TelemetryAssumption`, `RatesAssumption` and
`RegistrationAssumption`. What a theorem assumes beyond that is in its statement and in the
last column.

| module | theorem | property | holds if |
|---|---|---|---|
| `HubProofs` | `TypeCorrect` | `TypeOK` | |
| | `RegistryStaysFresh` | `RegistryFresh` | no edit during startup |
| | `TokensRotateAtOnce` | `RotationIsImmediate` | no edit during startup |
| | `NoOrphans` | `NoOrphanSamples` | settings are numbers |
| | `AddedNodesWait` | `AddedNodeWaits` | settings are numbers |
| | `StampsInWindow`, `StampsOnlyAdvance` | `StampWindow`, `StampsAdvance` | |
| | `DiskFollows`, `WritesAreRare` | `DiskCloseBehind`, `WriteRate` | no failing transaction |
| | `ThrottleIsHonest` | `ThrottleCountsWrites` | |
| | `RowsStayWithNodes` | `AcceptedHasRow` | no failing transaction, no reload removes a node |
| | `HubKeepsPromise` | `KeepsPromise` | settings are numbers, no failing transaction |
| `NavigationProofs` | `OnePointOneAction` | no two boxes of a table hold one point | |
| | `PagesPartition` | the pages show every position once | |
| `UiProofs` | `PowerStaysCoherent` | `PowerCoherent` | |
| | `PowerKeepsItsPath` | `PowerPath` | |
| | `UiTypeCorrect` | `UiTypeOK` | |
| | `SelectionStaysRight`, `RefreshKeepsTheSelection` | `SelectionAgrees`, `RefreshKeepsSelection` | |
| | `CategoryStaysShown` | `CategoryShown` | |
| | `NodesStayReachable` | `NodesReachable` | |
| `NavigationProofs` | `TouchesAreInOrder` | calibrated touches lie on the screen, in the order of the raw ones | ranges not empty |
| `DisplayProofs` | `LoopNeverFails`, `RequestsAreShown`, `HighlightsAreLive` | `NeverFails`, `RequestIsShown`, `HighlightIsLive` | |
| | `PressesTurnOnce` | `OneTurnPerPress` | |
| | `HoldsAreWatched` | `HoldIsWatched` | |
| | `HoldsAreFullWithoutWaits` | `HoldIsFull` | no wait for the hub (`FetchMax = 0`) |
| | `LoopSelectionAgrees`, `LoopKeepsTheSelection` | `SelectionAgrees`, `RefreshKeepsSelection` | |
| | `LoopCategoryShown`, `LoopNodesReachable` | `CategoryShown`, `NodesReachable` | |
| | `LoopPowerCoherent`, `LoopPowerPath` | `PowerCoherent`, `PowerPath` | |
| | `LoopImplementsReducer` | `RefinesReducer` | |
| `PowerProofs` | `PowerTypes` | `PowerTypeOK` (not in a run) | |
| | `ReadingEnds` | `ReadIsBounded` | |
| | `ClientIsFirst` | `ClientGivesUpFirst` (not in a run) | client's timeout below the command's |
| | `PowerKeepsPromise` | `KeepsPowerPromise` | client's timeout below the command's |
| | `AnswersStayTrue` | `AnswersAreTrue` (not in a run) | client's timeout below the command's |
| | `ActionsAreTakenOnce` | `DoneIsDone` (not in a run) | client's timeout below the command's |
| `TelemetryProofs` | `TelemetryTypes` | `TelemetryTypeOK` (not in a run) | |
| | `ChartsAreInOrder`, `ChartsKeepTheirWindow`, `ChartsForgetNothingElse` | `SeriesInOrder`, `WindowKept`, `SeenIsKept` | |
| | `NewsIsFresh` | `OnlineWasHeard` | the hub's clock is true |
| `RatesProofs` | `RatesAreReal`, `UsageStaysHonest` | `RateIsReal`, `UsageIsHonest` | |
| | `PowerIsExact` | `PowerIsExactWhenAlike` | |
| | `BytesCountOnce` | `NothingCountedTwice` (not in a run) | |
| `RegistrationProofs` | `RegistryStaysUsable`, `DoneStaysRegistered` | `RegistryIsUsable`, `DoneIsRegistered` | |
| | `OldNodesAreKept` | `OldNodesStay` (not in a run) | |

**Hub.** `RegistryFresh` is not inductive: an edit must give the file a time the
hub has not noted, and a start must read the registry of the file it takes the
time of. `RegistryInv` adds `mtime <= file.mtime` and, between `LoadConfig` and
`InitState`, `keys = file.keys`; the latter is what an edit during startup breaks
(run `hub_late_edit`). `DiskCloseBehind` is not inductive either: the first sample
of a node could meet a row and a throttle that do not belong together. `DiskInv`
adds that a node without a sample and with a row has no throttle, so that its first
sample is written. For `HubKeepsPromise`, lemma `ReloadForgets` says that a reload
forgets exactly the nodes that leave the registry, in memory and in the table, and
`PromiseStep` maps each action to `Refresh`, `Learn`, `Start`, `Stop` or a stutter.
`AcceptedHasRow` needs one more step: what the throttle counts as written is still in the
table (`WrittenIsThere`), which only a node that leaves the registry breaks.

**Reducer.** Most events have nothing to do with power. `Plain` says so of a pair
of states: the power fields are equal, and either the screen is, or both screens
are no power screens. It is transitive, so the long handlers are proved by
composing the lemmas of the operators they are built from. `Good` is the coherence of
`PowerCoherent` with the record shape it needs, `OnPath` one step of `PowerPath`;
`Plain` steps keep both (`PlainIsGood`), and each event about power has a lemma
of its own. No type of the list or of a node is needed, which is why these two
theorems hold for any answer of the hub.

The other five rest on `Sound`, a relation between a state and a list. It adds to the
ranges of the fields that the selection is located (`Located`: name and position agree,
or there is no list), that the category and the graph metric fit the selected node
where the screen shows them, and that both pages exist. `UiTypeOK` is what this says of the
selection and the pages. `Sound` is not inductive for the
list alone: `DataRefreshed` takes a state that is sound for the old list and must make
it sound for the new one, screen by screen, so each operator it is built from has a
lemma that says which part of `Sound` it restores. Rows and pages are counted by ranks
in the sorted order; that every rank is taken once is the counting lemma
`NodesStayReachable` needs. What a time is does not matter to any of this, so `Sound` takes
the set of times as a parameter.

**Loop.** `LoopInv` says what may be queued at each point of an iteration: an effect is
queued only between the input and the request it leads to, with the state that
announces it (`power_pending`, sending, the same action); until rendering the panel
shows another frame, so that the frame of the request is due and gets presented. A
confirmation is on the panel when the finger is looked at, which is why the frame of
its end differs. That no event but the end of a hold asks for an effect follows from
the lemmas of `UiProofs`; a press is highlighted only while the recognizer has one.

`OneTurnPerPress` counts, so it needs to know which press may still count: `TurnInv` says
that a press that has turned the screen is spent (the recognizer has reported its long
press or dropped it, or the hold has taken it over) until the finger is seen up.
`HoldIsWatched` relates the reducer's hold, which knows only when it began, to the row of
looks behind it: `HoldInv` says that as long as there is a hold, the press is on the hold
button, the row of looks goes on (`watched`) and is no younger than the hold. A look that
finds anything else ends both, because the recognizer or the loop drops the press at
that look. For the finger's own clock `HoldInv` adds that the row began no more than
`FetchMax` before the finger was first on the button, `now` being read before the wait for the
hub; with `FetchMax = 0` nothing is missing, which is `HoldsAreFullWithoutWaits`.

What the reducer guarantees of a selection does not follow from `RefinesReducer`: the
reducer's own theorems are about its own variables and a clock that stands for any. `LoopSound`
is `Sound` in the loop, with ages in the place of moments, and `Tick`, which makes every
age one older, keeps it as any event does.

`RefinesReducer` maps the state of the loop to that of the reducer by `Timeless`, which
keeps of a time only whether there is a hold. No event reads more than that, so each
event commutes with `Timeless` (lemmas `Timeless…`), and the operators of the instance are
those of the loop, since they depend neither on `Moments` nor on `Points` (lemmas `Same…`).
Three things remain. A press is reported at a median, which `KthFound` and
`PositionFound` place half way between points the finger was at, hence in `Between`: the
number of places that come before a value in sorted order takes every number below the
length once, so there is a k-th smallest. One look at the panel may make two events, the
end of a hold and a gesture (`InputDownMap`, `InputUpMap`): one of the two then changes
nothing but times. And `MapInv` adds that a press that is followed has points and that
ages are numbers, so that a hold which grows older is not taken for one that ends.
That each step is one event is also why the loop keeps a request on its path
(`LoopPowerPath`), although one look may be two events: two in one step could send a
request whose hold the state before does not show.

**Touches.** Rounding half to even is shown to be monotone (`RoundedGrows`), by comparing
quotients and, when they are equal, remainders; `ScaleGrows` carries that through the
multiplication and the clamping. Linear arithmetic does the rest.

**Power.** `IInv` has a part for each connection. `Sound` relates what a helper has read,
answered and started to what its peer has written; `Held` relates the client's age to
the timer of its helper, so that as long as the client waits, the command's timer is
below its timeout. With `ClientTimeout < CommandTimeout` a refusal that is read is
therefore final. Each action is then mapped to one of `PowerPromise` or to a stutter. What a user may
conclude from an answer is proved of `PowerPromise` alone: `StepSeenBy` is what one of its
steps can be to one request, `AnswersAreTrue` is inductive for that, and the refinement carries
both theorems over to client, helpers and systemctl.

**Telemetry.** `OrderInv` adds to the order of the points that epochs ascend along a chart, and
that what the hub knows, and the answer under way, is no older than the points of the
same epoch. `HeardInv` keeps an account of age: what is shown was heard by
the hub within the offline time, plus what the display's timers have used up.

**Rates.** `TrafficInv` relates each previous reading to the present counter of its source
by what that carried since (`moved`), unless it began again, and the bytes claimed
to those carried; what a failing look keeps of this depends on where it fails (`NotesStep`).
`ProcessorInv` does the same for the fields of `/proc/stat`, of which only the waiting time
goes back, and by no more than `real.back`: hence the bound on what exceeds the whole. The
inequality with the work is `WorkIsCounted`, one multiplication of inequalities.
`PackagesInv` relates sums: the counters together show what the collector noted and what was
drawn since, less the ranges of the counters that wrapped around, and none wraps twice because a
counter that has wrapped is below what its package has drawn. `Sum` adds in the order in which
`CHOOSE` takes elements out of the set. That this recursion has a value for every finite set
(`AddsExist`), that the order does not matter (`SumPeel`), and what follows for parts, changes
and comparisons of sums (`SumSplit`, `SumUpdate`, `SumLess`) is proved by `SubsetInduction`: of
the sets for which a fact would fail, one has none of the others inside, and the strict inclusion
of finite sets is well-founded. The fact is there a set of sets instead of a formula with a
parameter, which is what makes this induction possible for the provers.

**Registration.** `AloneInv`: as long as no scripts have met, the one that runs holds the
temporary file for itself and writes the registry of the path plus its node. `UsableInv`: as
long as none have met at all, it has found that registry given to the hub, so that it gives
the new one to the hub too.
`DoneInv`: whoever finished alone is in the path's registry, in what every running script
has read, and in the temporary file if that is whole.

**Only model-checked.** Liveness (`RegistryConverges`, `ComesHome`, `NobodyHangs`,
`ChartFollows`) is out of the prover's reach. Every invariant that a passing run checks is a
theorem.

## Findings

- `hub_row_missing` (`hub/app.py:137`). A removed node keeps its entry in
  `_last_persisted`. Added again within the persist interval, it has a sample in
  memory and no row, though `README.md` promises one last-known sample per node in
  SQLite; a restart in that time shows it as waiting.
- `hub_late_edit` (`hub/app.py:250`). `load_config` reads the file before
  `HubState.__init__` takes its time. An edit in between is not seen until the next
  one.
- `hub_bad_setting` (`hub/app.py:122`). A setting that is no number stops a reload
  after the registry is replaced and before the samples of removed nodes are
  dropped. A node that such a file removes and the next one adds again appears with
  its old sample, not as waiting.
- `display_late` (`display/app.py:117`). A press first seen after a slow wait for
  the hub is dated before it, so with a wait as long as the hold one further
  iteration completes the hold. The run counts from the moment the finger comes to the
  button, seen or not, and forgives lifts that no look could see: it is short even so.
- `usage_percent` (`agents/linux/collector.py:169`). The kernel may take back time it had
  counted as waiting. The usage is then above 100 percent, which
  `protocol/telemetry-v2.schema.json:32` and `:51` do not allow, and the hub refuses the
  whole sample.

For each of them it is proved what holds without its cause: `RowsStayWithNodes` (no node is
removed), `AddedNodesWait` (settings are numbers), `HoldsAreFullWithoutWaits` (the loop does
not wait for the hub), `RegistryStaysFresh` (no edit during startup), and `UsageStaysHonest`,
whose bound is the whole if the kernel took nothing back.

## Not modelled

- The rendering, and with it whether a chart joins the points on either side of an
  outage: it does, since an offline node is no new point (`history.py:33`,
  `renderer.py:1015`), though `docs/display-ui-phase-0-contract.md:635` asks for a gap.
- Button feedback and partial refreshes in the loop: they decide how much of a frame
  is sent, not which frame.
- Of the collectors, what is copied from one file without a second reading; the sensor
  library of the Windows agent. The set of packages with an energy counter is fixed.
- A calibration with an empty range, which raises an error on the first touch.
- Protocol validation, wording: pure functions. Drivers, deployment scripts, bench
  tools: input and output, run by hand.

## Plan

Done, in this order: `Hub` with `LastKnown` and its proofs; `Navigation`, `Ui` and
their proofs; `Display` and its implementation of `Ui`; `PowerProtocol` with
`PowerPromise`; `Telemetry`; `Rates`; `Registration`; the proofs of all of these, of
the loop's invariants and of its implementation of `Ui`.

Left: the segments of a chart as an operator, so that the gap of an outage can be stated.
