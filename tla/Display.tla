-------------------------------- MODULE Display --------------------------------
(***************************************************************************)
(* The loop of the display: run() of display/app.py, the TouchRecognizer   *)
(* of display/gestures.py that it feeds, and a finger.                     *)
(*                                                                         *)
(* One iteration reads the clock, perhaps waits for the hub, reads the     *)
(* touch panel, shows a frame, perhaps waits for the power helper, and     *)
(* sleeps.  The finger moves at any time; the loop sees it when it looks.  *)
(* Everything after the wait for the hub still uses the clock as it was    *)
(* before (`now'): `lag' is how far behind it is.                          *)
(*                                                                         *)
(* Times are kept as ages, in ticks since the moment they name, and an age *)
(* that no comparison can tell from a higher one stops growing.  A moment  *)
(* recorded as `now' therefore has age lag.                                *)
(***************************************************************************)
EXTENDS Ui

CONSTANTS
  HoldTime,        \* power_confirm_hold_seconds
  LongAfter,       \* long_press_seconds
  MinShort,        \* minimum_short_press_seconds
  Debounce,        \* release_debounce_seconds
  Tolerance,       \* movement_tolerance_pixels
  PointsKept,      \* the points a press is the median of, 5 in the program
  MenuTimeout,     \* menu_timeout_seconds, 0 for never
  DetailTimeout,   \* detail_timeout_seconds, 0 for never
  RotateEvery,     \* auto_rotate_seconds, 0 for never
  PauseAfterTouch, \* pause_after_touch_seconds
  RefreshEvery,    \* the interval between two questions to the hub
  FetchMax,        \* the longest wait for the hub, the total timeout of the session
  RequestMax,      \* the longest wait for the helper, the timeout of the client
  RestMax          \* the longest time from a frame to the next iteration

ASSUME DisplayAssumption ==
  /\ HoldTime \in Nat \ {0}
  /\ PointsKept \in Nat \ {0}
  /\ RestMax \in Nat \ {0}
  /\ \A n \in {LongAfter, MinShort, Debounce, Tolerance, MenuTimeout, DetailTimeout,
               RotateEvery, PauseAfterTouch, RefreshEvery, FetchMax, RequestMax} :
       n \in Nat
  /\ NoTime \notin Nat

VARIABLES
  pc,            \* what the loop is doing
  lag,           \* the clock minus `now'
  waited,        \* ticks since the loop went to wait for the helper or to sleep
  fetchedAt,     \* age of the last answer of the hub, as next_refresh counts it
  finger,        \* where the finger is, Up if nowhere
  heldFor,       \* time since it came to the hold button, unless a look has found
                 \* it elsewhere since
  watched,       \* age of the `now' of the first of the looks that, one after the
                 \* other, found it on the button of a confirmation
  rec,           \* the TouchRecognizer
  pressedAction, \* the action under the finger when the press began
  queued,        \* queued_power_effect
  shown,         \* the frame on the screen
  turns          \* how often the present press has changed the screen

loop == <<pc, lag, waited, fetchedAt, queued, shown>>
touch == <<finger, heldFor>>
press == <<rec, pressedAction, turns, watched>>
displayVars == <<vars, loop, touch, press>>

Up == <<>>

------------------------------------------------------------------------------
(* Ages *)

Larger(a, b) == IF a < b THEN b ELSE a

OldHold == HoldTime + FetchMax
OldPress == Larger(LongAfter, MinShort) + FetchMax
OldRelease == Debounce + FetchMax
OldInteraction == Larger(MenuTimeout, DetailTimeout) + FetchMax
OldPause == FetchMax + (IF RotateEvery = 0 THEN 0 ELSE PauseAfterTouch)
OldRotation == FetchMax + RotateEvery

Older(age, old) == AtMost(age + 1, old)

\* as `now' sees it, at least this much time has passed since a moment of that age
Elapsed(age, interval) == age - lag >= interval

------------------------------------------------------------------------------
(* Gestures, TouchRecognizer *)

\* the k-th smallest of a sequence of numbers
Kth(s, k) ==
  CHOOSE v \in {s[i] : i \in DOMAIN s} :
    /\ Cardinality({i \in DOMAIN s : s[i] < v}) < k
    /\ k <= Cardinality({i \in DOMAIN s : s[i] <= v})

\* round() of a half rounds to the even neighbour
HalfOf(n) ==
  IF n % 4 = 3 THEN n \div 2 + 1 ELSE n \div 2

Median(s) == HalfOf(Kth(s, (Len(s) + 1) \div 2) + Kth(s, Len(s) \div 2 + 1))

\* position: the median of the points kept
Position(points) ==
  <<Median([i \in DOMAIN points |-> points[i][1]]),
    Median([i \in DOMAIN points |-> points[i][2]])>>

Distance(a, b) == IF a < b THEN b - a ELSE a - b

Moved(p, q) == Distance(p[1], q[1]) > Tolerance \/ Distance(p[2], q[2]) > Tolerance

Kept(points) ==
  IF Len(points) > PointsKept THEN Tail(points) ELSE points

Idle(releasedAt) ==
  [state |-> "idle", startedAt |-> 0, origin |-> Up, points |-> <<>>,
   releasedAt |-> releasedAt]

NoGesture == [kind |-> "none"]

\* A press continues: it moves away, becomes a long one, or goes on.
Continue(r, p) ==
  LET points == Kept(Append(r.points, p))
      at == Position(points)
      s == [r EXCEPT !.points = points]
  IN
  IF Moved(at, r.origin)
  THEN <<[s EXCEPT !.state = "wait_release"], NoGesture>>
  ELSE IF r.state = "pressed" /\ Elapsed(r.startedAt, LongAfter)
  THEN <<[s EXCEPT !.state = "long_emitted"], [kind |-> "long", at |-> at]>>
  ELSE <<s, NoGesture>>

\* update() with a finger at p
Touching(r, p) ==
  CASE r.state = "idle" /\ Elapsed(r.releasedAt, Debounce)
         -> <<[r EXCEPT !.state = "pressed", !.startedAt = lag, !.origin = p,
                        !.points = <<p>>], NoGesture>>
    [] r.state \in {"pressed", "long_emitted"} -> Continue(r, p)
    [] OTHER -> <<r, NoGesture>>

\* mutant of ShortOn: the release of a long press is a short one as well
ShortOnAny(r) == r.state \in {"pressed", "long_emitted"} /\ Elapsed(r.startedAt, MinShort)

\* the release is a short press
ShortOn(r) == r.state = "pressed" /\ Elapsed(r.startedAt, MinShort)

\* update() with no finger
Released(r) ==
  <<IF r.state = "idle" THEN r ELSE Idle(lag),
    IF ShortOn(r) THEN [kind |-> "short", at |-> Position(r.points)] ELSE NoGesture>>

\* consume_current_press()
Consumed(r) ==
  IF r.state \in {"pressed", "long_emitted"} THEN [r EXCEPT !.state = "wait_release"] ELSE r

AfterGesture(s, g) ==
  CASE g.kind = "short" -> ShortPress(s, nodes, g.at[1], g.at[2], lag)
    [] g.kind = "long"  -> LongPress(s, nodes, g.at[1], g.at[2], lag)
    [] OTHER            -> s

------------------------------------------------------------------------------
(* The loop *)

\* what distinguishes one frame from another here
Frame(s) == <<s.screen, s.pending, s.status, s.error>>

\* mutant of AfterAnswer: the state follows the list before the answer
AfterAnswerStale(L) == DataRefreshed(ui, nodes)

AfterAnswer(L) == DataRefreshed(ui, L)

\* The hub answers with a list, or it does not and the last list is used again.
Fetched ==
  \E L \in Lists \cup {nodes} :
    /\ pc = "fetch"
    /\ pc' = "input"
    /\ nodes' = L
    /\ ui' = AfterAnswer(L)
    /\ fetchedAt' = lag
    /\ UNCHANGED <<enabled, lag, waited, queued, shown, touch, press>>

\* queued_power_effect is set by the transition that asks for it, once
Queue(sent, s) ==
  /\ pc' = IF sent /\ queued # None THEN "failed" ELSE "idle"
  /\ queued' = IF sent THEN s.pending ELSE queued

Turns(before, s, t) == AtMost(2, before + (IF s.screen # t.screen THEN 1 ELSE 0))

\* mutant of HoldKept: the hold goes on wherever the finger slides
HoldKeptAnywhere(r, p) == TRUE

\* the finger is still on the button, as far as the recognizer and the panel see
HoldKept(r, p) ==
  r.state # "wait_release" /\ At(PowerConfirm, p[1], p[2]) = "power_hold"

\* mutant of PressOver: only a hold notices that the finger has moved away
PressOverOnHold(sent, holding, r, p) == sent \/ (holding /\ ~HoldKept(r, p))

\* pressed_action is dropped while the finger is still down
PressOver(sent, holding, r, p) ==
  sent \/ IF holding THEN ~HoldKept(r, p) ELSE r.state = "wait_release"

OnHold(f) == f # Up /\ At(PowerConfirm, f[1], f[2]) = "power_hold"

\* a look at the panel that finds a confirmation under way
Confirms == ui.screen = "power_confirm" /\ OnHold(finger)

\* A finger is seen: a press begins or goes on, and a hold with it.
InputDown ==
  LET r == Touching(rec, finger)[1]
      g == Touching(rec, finger)[2]
      begins == rec.state = "idle" /\ r.state = "pressed"
      action == IF begins THEN VisibleAction(ui, nodes, finger[1], finger[2])
                ELSE pressedAction
      s1 == IF begins /\ action = "power_hold" /\ ui.screen = "power_confirm"
            THEN HoldStarted(ui, lag) ELSE ui
      holding == action = "power_hold" /\ s1.screen = "power_confirm"
      s2 == IF ~holding THEN s1
            ELSE IF HoldKept(r, finger)
            THEN HoldTick(s1, Elapsed(s1.holdAt, HoldTime), lag)
            ELSE HoldEnded(s1, lag)
      sent == RequestsPower(s1, s2)
      over == PressOver(sent, holding, r, finger)
  IN
  /\ pc = "input" /\ finger # Up
  /\ ui' = IF sent THEN s2 ELSE AfterGesture(s2, g)
  /\ rec' = IF sent THEN Consumed(r) ELSE r
  /\ pressedAction' = IF over THEN NoAction ELSE action
  /\ turns' = Turns(IF begins THEN 0 ELSE turns, ui, ui')
  /\ heldFor' = IF OnHold(finger) THEN heldFor ELSE NoTime
  /\ watched' = IF ~Confirms THEN NoTime ELSE IF watched = NoTime THEN lag ELSE watched
  /\ Queue(sent, s2)
  /\ UNCHANGED <<nodes, enabled, lag, waited, fetchedAt, shown, finger>>

\* No finger is seen: a press ends.
InputUp ==
  LET r == Released(rec)
      s == IF pressedAction = "power_hold" /\ ui.screen = "power_confirm"
           THEN HoldEnded(ui, lag) ELSE ui
  IN
  /\ pc = "input" /\ finger = Up
  /\ ui' = AfterGesture(s, r[2])
  /\ rec' = r[1]
  /\ pressedAction' = NoAction
  /\ turns' = Turns(turns, ui, ui')
  /\ heldFor' = NoTime
  /\ watched' = NoTime
  /\ Queue(FALSE, s)
  /\ UNCHANGED <<nodes, enabled, lag, waited, fetchedAt, shown, finger>>

\* The panel is read again for the timeouts: a finger that came down since the
\* first look holds them off.
Inactivity ==
  LET over(timeout) == timeout > 0 /\ Elapsed(ui.interactionAt, timeout) IN
  /\ pc = "idle"
  /\ pc' = "render"
  /\ ui' = IF finger # Up THEN ui
           ELSE InactivityTick(ui, over(MenuTimeout), over(DetailTimeout))
  /\ UNCHANGED <<nodes, enabled, lag, waited, fetchedAt, queued, shown, touch, press>>

RotationDue ==
  /\ RotateEvery > 0
  /\ Elapsed(ui.pressedAt, PauseAfterTouch)
  /\ Elapsed(ui.rotatedAt, RotateEvery)
  /\ rec.state = "idle"

\* The rotation, the frame, and the request if one is queued and its frame is new.  The
\* frame must also be shown as a whole (power_frame_presented), which full_refresh of the
\* transition that asks for a request always demands (ui_state.py, 439-445).
Render ==
  /\ pc = "render"
  /\ ui' = AutoRotateTick(ui, nodes, RotationDue, lag)
  /\ shown' = Frame(ui')
  /\ pc' = IF queued = None THEN "sleep"
           ELSE IF shown' # shown THEN "request" ELSE "failed"
  /\ waited' = 0
  /\ UNCHANGED <<nodes, enabled, lag, fetchedAt, queued, touch, press>>

\* mutant of Unqueued: the queue is emptied only when the helper accepts
UnqueuedIfAccepted(accepted) == IF accepted THEN None ELSE queued

\* finally: queued_power_effect = None
Unqueued(accepted) == None

Answered(accepted, s) ==
  /\ pc = "request"
  /\ pc' = "sleep"
  /\ ui' = s
  /\ queued' = Unqueued(accepted)
  /\ waited' = 0
  /\ UNCHANGED <<nodes, enabled, lag, fetchedAt, shown, touch, press>>

RequestIsAccepted == Answered(TRUE, RequestAccepted(ui, 0))

RequestIsFailed == \E e \in PowerRequestError : Answered(FALSE, RequestFailed(ui, e, 0))

\* The next iteration, at least one tick after the frame.
Wake ==
  /\ pc = "sleep" /\ waited > 0
  /\ lag' = 0
  /\ waited' = 0
  /\ pc' = IF fetchedAt >= RefreshEvery THEN "fetch" ELSE "input"
  /\ UNCHANGED <<vars, fetchedAt, queued, shown, touch, press>>

Step ==
  \/ Fetched \/ InputDown \/ InputUp \/ Inactivity \/ Render
  \/ RequestIsAccepted \/ RequestIsFailed \/ Wake

------------------------------------------------------------------------------
(* The environment *)

\* Time passes while the loop waits, no longer than it would.
Tick ==
  /\ \/ pc = "fetch" /\ lag < FetchMax
     \/ pc = "request" /\ waited < RequestMax
     \/ pc = "sleep" /\ waited < RestMax
  /\ lag' = IF pc = "fetch" THEN lag + 1 ELSE lag
  /\ waited' = IF pc = "fetch" THEN waited ELSE waited + 1
  /\ fetchedAt' = Older(fetchedAt, RefreshEvery)
  /\ heldFor' = IF heldFor = NoTime THEN NoTime ELSE Older(heldFor, HoldTime)
  /\ rec' = [rec EXCEPT !.startedAt = IF rec.state = "idle" THEN 0 ELSE Older(@, OldPress),
                        !.releasedAt = Older(@, OldRelease)]
  /\ ui' = [ui EXCEPT !.holdAt = IF @ = NoTime THEN NoTime ELSE Older(@, OldHold),
                      !.interactionAt = Older(@, OldInteraction),
                      !.pressedAt = Older(@, OldPause),
                      !.rotatedAt = Older(@, OldRotation)]
  /\ watched' = IF watched = NoTime THEN NoTime ELSE Older(watched, OldHold)
  /\ UNCHANGED <<nodes, enabled, pc, queued, shown, finger, pressedAction, turns>>

\* The finger comes down, slides or goes up.
Finger ==
  /\ finger' \in (Points \cup {Up}) \ {finger}
  /\ heldFor' = IF heldFor = NoTime /\ OnHold(finger') THEN 0 ELSE heldFor
  /\ UNCHANGED <<vars, loop, press>>

DisplayInit ==
  /\ ui = [UiStart(0) EXCEPT !.pressedAt = OldPause]
  /\ nodes = <<>>
  /\ enabled \in BOOLEAN
  /\ pc = "fetch"
  /\ lag = 0
  /\ waited = 0
  /\ fetchedAt = RefreshEvery
  /\ finger = Up
  /\ heldFor = NoTime
  /\ watched = NoTime
  /\ rec = Idle(OldRelease)
  /\ pressedAction = NoAction
  /\ queued = None
  /\ shown = Frame(ui)
  /\ turns = 0

DisplayNext == Step \/ Tick \/ Finger

DisplaySpec == DisplayInit /\ [][DisplayNext]_displayVars

\* The loop and the clock go on; the finger need not move.
FairDisplay == DisplaySpec /\ WF_displayVars(Step) /\ WF_displayVars(Tick)

------------------------------------------------------------------------------
(* Properties *)

Timeless(s) ==
  [s EXCEPT !.holdAt = IF @ = NoTime THEN NoTime ELSE 0,
            !.interactionAt = 0, !.pressedAt = 0, !.rotatedAt = 0]

\* medians of an even number of points lie half way between two of them
Between ==
  {<<HalfOf(p[1] + q[1]), HalfOf(r[2] + s[2])>> : p, q, r, s \in Points}

Reducer == INSTANCE Ui WITH ui <- Timeless(ui), Moments <- {0}, Points <- Between

\* While the helper is asked, the screen says so: the frame of the request is on
\* the panel, and what is asked is what the state says is pending.
RequestIsShown ==
  /\ pc = "request" => shown = Frame(ui)
  /\ queued # None => /\ ui.screen = "power_pending"
                      /\ ui.status = "sending"
                      /\ queued = ui.pending

\* run() never meets one of its own assertions: two effects queued at a time, or
\* a request whose frame was not presented.
NeverFails == pc # "failed"

\* A press changes the screen at most once, however it is held, slid or released,
\* and whatever the helper answers meanwhile.
OneTurnPerPress == turns <= 1

\* What is highlighted belongs to a press the recognizer still follows.
HighlightIsLive ==
  pressedAction # NoAction => rec.state \in {"pressed", "long_emitted"}

\* The loop reaches only what the reducer's own specification allows.
RefinesReducer == Reducer!UiSpec

\* A request goes out only at a look that finds the finger on the button of the
\* confirmation, as every look has since an iteration that began, by the clock of
\* the loop, the hold time or more ago: at least two looks, and no lift, slide or
\* change of the screen that one of them could see.
HoldIsWatched ==
  [][queued = None /\ queued' # None =>
       Confirms /\ watched # NoTime /\ Elapsed(watched, HoldTime)]_displayVars

\* docs/display-ui-phase-0-contract.md, sections 8 and 13.1: a power request needs a
\* completed hold, of 1.5 seconds by default.  It is counted from the moment the finger
\* comes to the button, seen or not, and lifts that no look could see are forgiven.
HoldIsFull ==
  [][queued = None /\ queued' # None => heldFor # NoTime /\ heldFor >= HoldTime]_displayVars

\* Once nobody touches it, the display comes back to the overview, unless it waits
\* for the host to go down.
ComesHome ==
  <>[](finger = Up) =>
    <>[](ui.screen = "overview" \/ (ui.screen = "power_pending" /\ ui.status = "accepted"))
==============================================================================
