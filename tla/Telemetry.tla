------------------------------ MODULE Telemetry ------------------------------
(***************************************************************************)
(* A sample on its way from a node to a chart: run() of agents/linux/      *)
(* agent.py (the Windows agent's Worker.cs loops alike), the hub as module *)
(* LastKnown promises it, the refresh of the display in display/app.py and *)
(* HistoryStore of display/history.py.                                     *)
(*                                                                         *)
(* There is one node: the hub and the charts keep nodes apart by name.  A  *)
(* sample is its stamp.  Requests and answers are lost, an abandoned       *)
(* request may still arrive, agent and hub stop and start, the clock of    *)
(* the node is set.  Hub and display run on one host, whose clock is true  *)
(* here.  A timer counts ticks down, and no tick passes over its end.      *)
(***************************************************************************)
EXTENDS Integers, Sequences, FiniteSets

CONSTANTS
  TheNode, Absent,
  Interval,     \* interval_seconds of the agent
  PostTimeout,  \* how long it waits for the hub
  OfflineAfter, \* offline_seconds of the hub
  RefreshEvery, \* how long the display leaves its data alone at most
  FetchTimeout, \* how long it waits for the hub
  Window,       \* window_seconds of the charts
  MaxSamples,   \* max_samples of the charts
  MaxLate,      \* bound of the abandoned requests under way
  MaxEpoch,     \* bound of the restarts and removals
  Clock,        \* what the clock of the node may show at each time, if it takes samples
  EndOfTime     \* bound of the clock, which stands still there

Stamp == UNION {Clock[t] : t \in 0..EndOfTime}
Record == [ts : Stamp, at : 0..EndOfTime]

ASSUME TelemetryAssumption ==
  /\ {MaxLate, MaxEpoch, EndOfTime, OfflineAfter} \subseteq Nat
  /\ {Interval, PostTimeout, RefreshEvery, FetchTimeout, Window, MaxSamples}
       \subseteq Nat \ {0}
  /\ Clock \in [0..EndOfTime -> SUBSET Int]
  /\ Absent \notin Stamp \cup Record

VARIABLES
  time,
  agent,      \* "sleeping" between two samples, or "posting" one
  agentTimer, \* what is left of its sleep or of its patience
  post,       \* the sample on its way to the hub
  late,       \* the samples of abandoned requests that are
  serving, members, known, saved, \* the hub
  epoch,      \* how often the hub has forgotten what it knew of the node
  fetching,   \* is the display waiting for the hub?
  displayTimer,
  answer,     \* the answer on its way to the display
  shown,      \* the node as the display has it
  hubOnline,
  last,       \* _last_timestamp
  points      \* the samples of a chart

sender == <<agent, agentTimer, post, late>>
hub == <<serving, members, known, saved, epoch>>
display == <<fetching, displayTimer, answer, shown, hubOnline, last, points>>
telemetryVars == <<time, sender, hub, display>>

View == [ts : Stamp, at : 0..EndOfTime, online : BOOLEAN]
Answer == [view : View \cup {Absent}, epoch : 0..MaxEpoch]
Point == [ts : Stamp, epoch : 0..MaxEpoch]

H == INSTANCE LastKnown WITH Node <- {TheNode}, None <- Absent

------------------------------------------------------------------------------
(* The agent *)

\* A request without an answer is lost, or will arrive when nobody waits for it.
Abandon ==
  /\ post' = Absent
  /\ late' \in {late} \cup {late \cup {p} : p \in {post} \ {Absent}}
  /\ Cardinality(late') <= MaxLate

\* An agent that is slow, stopped or started again takes its next sample later.
Sends ==
  /\ agent = "sleeping" /\ agentTimer = 0
  /\ agent' = "posting" /\ agentTimer' = PostTimeout
  /\ post' \in Clock[time]
  /\ UNCHANGED late

Sleeps == agent' = "sleeping" /\ agentTimer' = Interval

PostIsAnswered == agent = "posting" /\ post = Absent /\ Sleeps /\ UNCHANGED <<post, late>>

PostFails == agent = "posting" /\ Sleeps /\ Abandon

PostTimesOut == agentTimer = 0 /\ PostFails

AgentNext ==
  /\ Sends \/ PostIsAnswered \/ PostFails
  /\ UNCHANGED <<time, hub, display>>

------------------------------------------------------------------------------
(* The hub *)

\* A sample that arrives is learned, or refused.
Takes(ts) ==
  /\ serving
  /\ \/ H!Learn(members, TheNode, [ts |-> ts, at |-> time])
     \/ UNCHANGED <<serving, members, known, saved>>
  /\ UNCHANGED epoch

TakesPost == post # Absent /\ Takes(post) /\ post' = Absent /\ UNCHANGED late
TakesLate == \E ts \in late : Takes(ts) /\ late' = late \ {ts} /\ UNCHANGED post

\* The hub may know less, or something older, than before.
Forgets == epoch < MaxEpoch /\ epoch' = epoch + 1

HubStarts == (\E M \in SUBSET {TheNode} : H!Start(M)) /\ UNCHANGED epoch
HubStops == H!Stop /\ Forgets
HubRefreshes ==
  \E M \in SUBSET {TheNode} :
    /\ H!Refresh(M)
    /\ IF members \subseteq M THEN UNCHANGED epoch ELSE Forgets

HubNext ==
  /\ \/ TakesPost \/ TakesLate
     \/ (HubStarts \/ HubStops \/ HubRefreshes) /\ UNCHANGED <<post, late>>
  /\ UNCHANGED <<time, agent, agentTimer, display>>

------------------------------------------------------------------------------
(* The display and its charts *)

\* mutant of SameStamp: an older stamp is taken for a known one as well
NotNewer(ts) == last # Absent /\ ts <= last

\* mutant of SameStamp: every answer counts as a new sample
NoStampKnown(ts) == FALSE

SameStamp(ts) == last # Absent /\ ts = last

\* a deque of at most MaxSamples
Pushed(s, p) == IF Len(s) < MaxSamples THEN Append(s, p) ELSE Append(Tail(s), p)

\* mutant of TooOld: only one sample is looked at
FirstOld(s, cutoff) == {i \in {1} : s[1].ts < cutoff}

\* mutant of TooOld: a sample as old as the window is not kept
AsOld(s, cutoff) == {i \in DOMAIN s : \A j \in 1..i : s[j].ts <= cutoff}

\* the samples before the first that is in the window
TooOld(s, cutoff) == {i \in DOMAIN s : \A j \in 1..i : s[j].ts < cutoff}

Trimmed(s, cutoff) == SubSeq(s, Cardinality(TooOld(s, cutoff)) + 1, Len(s))

\* A node without a sample has no stamp.
Add(view, when) ==
  IF view = Absent \/ SameStamp(view.ts) THEN UNCHANGED <<last, points>>
  ELSE /\ last' = view.ts
       /\ points' = Trimmed(Pushed(points, [ts |-> view.ts, epoch |-> when]), view.ts - Window)

Asks ==
  /\ ~fetching /\ displayTimer = 0
  /\ fetching' = TRUE /\ displayTimer' = FetchTimeout /\ answer' = Absent
  /\ UNCHANGED <<shown, hubOnline, last, points>>

ViewOf(r) ==
  IF r = Absent THEN Absent
  ELSE [ts |-> r.ts, at |-> r.at, online |-> time - r.at <= OfflineAfter]

HubAnswers ==
  /\ fetching /\ answer = Absent /\ serving
  /\ answer' = [view |-> ViewOf(known[TheNode]), epoch |-> epoch]
  /\ UNCHANGED <<fetching, displayTimer, shown, hubOnline, last, points>>

Rests == fetching' = FALSE /\ displayTimer' \in 1..RefreshEvery /\ answer' = Absent

FetchSucceeds ==
  /\ fetching /\ answer # Absent
  /\ shown' = answer.view /\ hubOnline' = TRUE
  /\ Add(answer.view, answer.epoch)
  /\ Rests

\* mutant of OnFailure: the display keeps what it believes of the hub
OnFailureAsBefore == hubOnline

OnFailure == FALSE

\* The handler also encloses the loop that adds the points, which could leave the new
\* nodes with some of the points; the schema lets the hub take no sample for which
\* add() fails.
FetchFails ==
  /\ fetching
  /\ hubOnline' = OnFailure
  /\ Rests /\ UNCHANGED <<shown, last, points>>

DisplayNext ==
  /\ Asks \/ HubAnswers \/ FetchSucceeds \/ FetchFails
  /\ UNCHANGED <<time, sender, hub>>

------------------------------------------------------------------------------
\* The clock stands still in the end, so that everything else may go on.
Passes ==
  /\ agent = "posting" => agentTimer > 0
  /\ displayTimer > 0
  /\ time' = IF time < EndOfTime THEN time + 1 ELSE time
  /\ agentTimer' = IF agentTimer = 0 THEN 0 ELSE agentTimer - 1
  /\ displayTimer' = displayTimer - 1
  /\ UNCHANGED <<agent, post, late, hub, fetching, answer, shown, hubOnline, last, points>>

TelemetryInit ==
  /\ time = 0
  /\ agent = "sleeping" /\ agentTimer = 0 /\ post = Absent /\ late = {}
  /\ H!Init /\ epoch = 0
  /\ fetching = FALSE /\ displayTimer = 0 /\ answer = Absent
  /\ shown = Absent /\ hubOnline = TRUE /\ last = Absent /\ points = <<>>

TelemetryNext == AgentNext \/ HubNext \/ DisplayNext \/ Passes

TelemetrySpec == TelemetryInit /\ [][TelemetryNext]_telemetryVars

Alone(A) == A /\ UNCHANGED <<time, hub, display>>

\* A process runs on when it may, time passes, and a request of the display that is
\* tried again and again is answered some time.  Nothing says that a sample arrives,
\* that the hub runs or that a stopped agent is started again.
TelemetryFairness ==
  /\ WF_telemetryVars(Passes)
  /\ WF_telemetryVars(Alone(PostTimesOut))
  /\ WF_telemetryVars(DisplayNext /\ Asks)
  /\ WF_telemetryVars(DisplayNext /\ displayTimer = 0 /\ FetchFails)
  /\ SF_telemetryVars(DisplayNext /\ HubAnswers)
  /\ SF_telemetryVars(DisplayNext /\ FetchSucceeds)

FairTelemetry == TelemetrySpec /\ TelemetryFairness

------------------------------------------------------------------------------
(* Properties *)

\* The type of every variable; the series ends with the last stamp, and fits.
TelemetryTypeOK ==
  /\ time \in 0..EndOfTime
  /\ agent \in {"sleeping", "posting"}
  /\ agentTimer \in Nat
  /\ post \in Stamp \cup {Absent} /\ late \subseteq Stamp
  /\ IsFiniteSet(late) /\ Cardinality(late) <= MaxLate
  /\ serving \in BOOLEAN /\ members \subseteq {TheNode} /\ epoch \in 0..MaxEpoch
  /\ {known, saved} \subseteq [{TheNode} -> Record \cup {Absent}]
  /\ fetching \in BOOLEAN /\ displayTimer \in Nat /\ hubOnline \in BOOLEAN
  /\ answer = Absent \/ answer \in Answer
  /\ shown \in View \cup {Absent}
  /\ points \in Seq(Point) /\ Len(points) <= MaxSamples
  /\ last = IF points = <<>> THEN Absent ELSE points[Len(points)].ts

\* A chart goes from left to right: its samples are in the order of their stamps and
\* each is there once, whatever is lost, late or refused and however the clock of the
\* node is set, except where the hub began again or forgot the node in between.
SeriesInOrder ==
  \A i, j \in DOMAIN points :
    i < j /\ points[i].epoch = points[j].epoch => points[i].ts < points[j].ts

\* A chart shows no sample that is older than its window.  (A stamp that went back
\* hides older samples behind a newer one.)
WindowKept ==
  (\A i, j \in DOMAIN points : i < j => points[i].ts < points[j].ts)
    => \A i \in DOMAIN points : points[i].ts >= last - Window

\* What a chart has shown stays until it is a window old or the chart is full: no
\* failure, restart or removal, and no sample that comes, takes anything else away.
SeenIsKept ==
  [][/\ points' # <<>>
     /\ \E gone \in 0..Len(points) :
          /\ points' = Append(SubSeq(points, gone + 1, Len(points)), points'[Len(points')])
          /\ \A i \in 1..gone :
               points[i].ts < last' - Window \/ (i = 1 /\ Len(points) = MaxSamples)
    ]_points

\* A node that the display shows as online, with a hub that it believes online, was
\* heard by the hub not longer ago than the hub and the display may take to notice.
OnlineWasHeard ==
  hubOnline /\ shown # Absent /\ shown.online =>
    time - shown.at <= OfflineAfter + FetchTimeout + RefreshEvery + FetchTimeout

\* Unless what the hub knows changes for ever, it ends up at the end of the chart: also
\* the older sample of a restart, also after any number of failed refreshes.
ChartFollows ==
  \/ []<><<TRUE>>_known
  \/ []<>(known[TheNode] = Absent \/ last = known[TheNode].ts)
==============================================================================
