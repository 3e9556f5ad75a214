----------------------------- MODULE DisplayProofs -----------------------------
(***************************************************************************)
(* What the loop of the display never does, for every list of nodes, every *)
(* setting of its times, every movement of the finger and every wait.      *)
(*                                                                         *)
(* The reducer keeps what it knows of a power request coherent (Good, see  *)
(* UiProofs), also when the loop feeds it.  LoopInv adds where a queued    *)
(* request is: it is made by a hold on a confirmation whose frame is on    *)
(* the panel, so the frame that follows is a new one; it stays until that  *)
(* frame is shown; it is sent then, and gone before the next look at the   *)
(* panel.  TurnInv adds what a press may still do to the screen, HoldInv   *)
(* how long a hold has been watched when it has an age.                    *)
(*                                                                         *)
(* LoopSound carries what UiProofs knows of a selection into the loop,     *)
(* whose times are ages: Sound does not care what a time is.               *)
(*                                                                         *)
(* Last, the loop implements the reducer: without its times the state of   *)
(* the loop moves by one event of Ui at a time, or not at all.  So it      *)
(* keeps a request on its path as the reducer does.                        *)
(***************************************************************************)
EXTENDS Display, UiProofs

RecFields == {"state", "startedAt", "origin", "points", "releasedAt"}

RecOK(r) ==
  DOMAIN r = RecFields /\ r.state \in {"idle", "pressed", "long_emitted", "wait_release"}

LoopInv ==
  /\ Good(ui)
  /\ pc \in {"fetch", "input", "idle", "render", "request", "sleep"}
  /\ queued # None =>
       /\ pc \in {"idle", "render", "request"}
       /\ ui.screen = "power_pending" /\ ui.status = "sending" /\ queued = ui.pending
       /\ pc # "request" => shown # Frame(ui)
  /\ pc = "request" => queued # None /\ shown = Frame(ui)
  /\ pc \in {"fetch", "input", "sleep"} /\ ui.screen = "power_confirm" =>
       shown[1] = "power_confirm"
  /\ RecOK(rec) /\ HighlightIsLive

LEMMA GoodNext ==
  ASSUME NEW s, Good(s), ui' = s, enabled' = enabled
  PROVE  Good(ui)'
  BY DEF Good, Coherent

\* A plain step, and the presses and ticks, leave a request that is under way alone.
LEMMA PlainPending ==
  ASSUME NEW s, NEW t, Good(s), Plain(s, t)
  PROVE  /\ s.screen = "power_pending" => t.screen = "power_pending" /\ Frame(t) = Frame(s)
                                          /\ t.pending = s.pending /\ t.status = s.status
         /\ t.screen = "power_confirm" => s.screen = "power_confirm"
  BY DEF Good, Plain, PowerScreen, Frame

LEMMA AfterGestureGood ==
  ASSUME NEW s, NEW g, Good(s)
  PROVE  Good(AfterGesture(s, g)) /\ OnPath(s, AfterGesture(s, g))
<1>1. OnPath(s, s)
  BY PlainReflexive, PlainIsGood DEF Good
<1> QED
  BY <1>1, ShortPressGood, LongPressGood DEF AfterGesture

LEMMA InitLoop == DisplayInit => LoopInv
<1> SUFFICES ASSUME DisplayInit PROVE LoopInv
  OBVIOUS
<1>1. Good(ui)
  BY DEF DisplayInit, UiStart, Good, Coherent, Fields, PowerScreen, None, PowerAction
<1>2. ui.screen = "overview"
  BY DEF DisplayInit, UiStart
<1> QED
  BY <1>1, <1>2 DEF DisplayInit, LoopInv, HighlightIsLive, RecOK, RecFields, Idle

LEMMA FetchedLoop == ASSUME LoopInv, Fetched PROVE LoopInv'
<1>1. PICK L : ui' = DataRefreshed(ui, L)
  BY DEF Fetched, AfterAnswer
<1>2. /\ pc = "fetch" /\ pc' = "input" /\ queued' = queued /\ shown' = shown
      /\ enabled' = enabled /\ rec' = rec /\ pressedAction' = pressedAction
  BY DEF Fetched, touch, press
<1>3. Plain(ui, ui')
  BY <1>1, DataRefreshedPlain DEF LoopInv, Good
<1>4. Good(ui)'
  BY <1>2, <1>3, PlainIsGood, GoodNext DEF LoopInv
<1>5. ui'.screen = "power_confirm" => ui.screen = "power_confirm"
  BY <1>3, PlainPending DEF LoopInv
<1> QED
  BY <1>2, <1>4, <1>5 DEF LoopInv, HighlightIsLive

\* What the recognizer makes of a finger: a press that it follows goes on or is over.
LEMMA TouchingStates ==
  ASSUME NEW r, NEW p, RecOK(r)
  PROVE  /\ RecOK(Touching(r, p)[1])
         /\ r.state \in {"pressed", "long_emitted"} =>
              Touching(r, p)[1].state \in {"pressed", "long_emitted", "wait_release"}
<1>1. CASE r.state \in {"pressed", "long_emitted"}
  <2> DEFINE points == Kept(Append(r.points, p))
             s == [r EXCEPT !.points = points]
  <2>1. RecOK(s) /\ s.state = r.state
    BY DEF RecOK, RecFields
  <2>2. \A k \in {"wait_release", "long_emitted"} :
          RecOK([s EXCEPT !.state = k]) /\ [s EXCEPT !.state = k].state = k
    BY <2>1 DEF RecOK, RecFields
  <2>3. Continue(r, p)[1] \in {s, [s EXCEPT !.state = "wait_release"],
                               [s EXCEPT !.state = "long_emitted"]}
    BY DEF Continue
  <2>4. Touching(r, p) = Continue(r, p)
    BY <1>1 DEF Touching
  <2> HIDE DEF s
  <2> QED
    BY <1>1, <2>1, <2>2, <2>3, <2>4
<1>2. CASE r.state \notin {"pressed", "long_emitted"}
  <2>1. Touching(r, p)[1] \in {r, [r EXCEPT !.state = "pressed", !.startedAt = lag,
                                            !.origin = p, !.points = <<p>>]}
    BY <1>2 DEF Touching
  <2> QED
    BY <1>2, <2>1 DEF RecOK, RecFields
<1> QED
  BY <1>1, <1>2

LEMMA ConsumedOK == ASSUME NEW r, RecOK(r) PROVE RecOK(Consumed(r))
  BY DEF Consumed, RecOK, RecFields

LEMMA InputDownLoop == ASSUME LoopInv, InputDown PROVE LoopInv'
<1> DEFINE r == Touching(rec, finger)[1]
           g == Touching(rec, finger)[2]
           begins == rec.state = "idle" /\ r.state = "pressed"
           action == IF begins THEN VisibleAction(ui, nodes, finger[1], finger[2])
                     ELSE pressedAction
           s1 == IF begins /\ action = "power_hold" /\ ui.screen = "power_confirm"
                 THEN HoldStarted(ui, lag) ELSE ui
           holding == action = "power_hold" /\ s1.screen = "power_confirm"
           s2 == IF ~holding THEN s1
                 ELSE IF HoldKept(r, finger)
                 THEN HoldTick(s1, Elapsed(s1.holdAt, HoldTime), lag)
                 ELSE HoldEnded(s1, lag)
           sent == RequestsPower(s1, s2)
           over == PressOver(sent, holding, r, finger)
<1>1. /\ pc = "input" /\ ui' = IF sent THEN s2 ELSE AfterGesture(s2, g)
      /\ rec' = IF sent THEN Consumed(r) ELSE r
      /\ pressedAction' = IF over THEN NoAction ELSE action
      /\ Queue(sent, s2)
      /\ enabled' = enabled /\ shown' = shown
  BY DEF InputDown
<1>2. Good(s1) /\ s1.screen = ui.screen
  BY HoldStartedGood DEF LoopInv, HoldStarted, Good, Fields
<1>10. /\ RecOK(r)
       /\ rec.state \in {"pressed", "long_emitted"} =>
            r.state \in {"pressed", "long_emitted", "wait_release"}
  BY TouchingStates DEF LoopInv
<1> HIDE DEF r, g, s1
<1>3. Good(s2)
  BY <1>2, HoldTickGood, HoldEndedGood
<1>4. sent => s2.screen = "power_pending" /\ s2.status = "sending" /\ ui.screen = "power_confirm"
  <2>1. ASSUME sent PROVE s2 = HoldTick(s1, Elapsed(s1.holdAt, HoldTime), lag)
    <3>1. s1.screen = "power_confirm" /\ s2.screen = "power_pending"
      BY <2>1 DEF RequestsPower
    <3>2. HoldEnded(s1, lag).screen = "power_confirm"
      BY <1>2, <3>1 DEF HoldEnded, Good, Fields
    <3> QED
      BY <3>1, <3>2
  <2> HIDE DEF s2
  <2> QED
    BY <1>2, <1>3, <2>1 DEF RequestsPower, HoldTick, Good, Fields
<1> HIDE DEF s2
<1>5. queued = None
  BY <1>1 DEF LoopInv
<1>6. pc' = "idle" /\ queued' = IF sent THEN s2.pending ELSE None
  BY <1>1, <1>5 DEF Queue
<1>7. Good(ui)'
  BY <1>1, <1>3, AfterGestureGood, GoodNext
<1>8. ASSUME sent PROVE shown # Frame(s2)
  <2>1. shown[1] = "power_confirm"
    BY <1>1, <1>4, <1>8 DEF LoopInv
  <2>2. Frame(s2)[1] = "power_pending"
    BY <1>4, <1>8 DEF Frame
  <2> QED
    BY <2>1, <2>2
<1>9. RecOK(rec') /\ HighlightIsLive'
  <2>1. RecOK(rec')
    BY <1>1, <1>10, ConsumedOK
  <2>2. ASSUME pressedAction' # NoAction PROVE rec'.state \in {"pressed", "long_emitted"}
    <3>1. ~over /\ ~sent /\ rec' = r /\ action # NoAction
      BY <1>1, <2>2 DEF PressOver
    <3>2. r.state # "wait_release"
      BY <3>1 DEF PressOver, HoldKept
    <3>3. ~begins => rec.state \in {"pressed", "long_emitted"}
      BY <3>1 DEF LoopInv, HighlightIsLive
    <3>4. begins => r.state = "pressed"
      OBVIOUS
    <3> HIDE DEF begins, action, sent, over
    <3>5. r.state \in {"pressed", "long_emitted"}
      BY <1>10, <3>2, <3>3, <3>4
    <3> QED
      BY <3>1, <3>5
  <2> QED
    BY <2>1, <2>2 DEF HighlightIsLive
<1> QED
  BY <1>1, <1>4, <1>6, <1>7, <1>8, <1>9 DEF LoopInv, Frame

LEMMA InputUpLoop == ASSUME LoopInv, InputUp PROVE LoopInv'
<1> DEFINE r == Released(rec)
           s == IF pressedAction = "power_hold" /\ ui.screen = "power_confirm"
                THEN HoldEnded(ui, lag) ELSE ui
<1>1. /\ pc = "input" /\ ui' = AfterGesture(s, r[2]) /\ rec' = r[1]
      /\ pressedAction' = NoAction /\ Queue(FALSE, s) /\ enabled' = enabled
  BY DEF InputUp
<1>2. Good(s)
  BY HoldEndedGood DEF LoopInv
<1>3. RecOK(rec')
  <2>1. rec' = IF rec.state = "idle" THEN rec ELSE Idle(lag)
    BY <1>1 DEF Released
  <2>2. RecOK(Idle(lag))
    BY DEF Idle, RecOK, RecFields
  <2> QED
    BY <2>1, <2>2 DEF LoopInv
<1>4. queued = None /\ queued' = None /\ pc' = "idle"
  BY <1>1 DEF LoopInv, Queue
<1> HIDE DEF s, r
<1>5. Good(ui)'
  BY <1>1, <1>2, AfterGestureGood, GoodNext
<1> QED
  BY <1>1, <1>3, <1>4, <1>5 DEF LoopInv, HighlightIsLive

LEMMA InactivityLoop == ASSUME LoopInv, Inactivity PROVE LoopInv'
<1>1. /\ pc = "idle" /\ pc' = "render"
      /\ UNCHANGED <<enabled, queued, shown, rec, pressedAction>>
  BY DEF Inactivity, press
<1>2. PICK menuOver, detailOver :
        ui' = IF finger # Up THEN ui ELSE InactivityTick(ui, menuOver, detailOver)
  BY DEF Inactivity
<1>3. Good(ui)'
  BY <1>1, <1>2, InactivityTickGood, GoodNext DEF LoopInv
<1>4. ui.screen = "power_pending" => ui' = ui
  BY <1>2 DEF InactivityTick
<1> QED
  BY <1>1, <1>3, <1>4 DEF LoopInv, HighlightIsLive, Frame

LEMMA RenderLoop == ASSUME LoopInv, Render PROVE LoopInv'
<1>1. /\ pc = "render" /\ ui' = AutoRotateTick(ui, nodes, RotationDue, lag)
      /\ shown' = Frame(ui')
      /\ pc' = IF queued = None THEN "sleep"
               ELSE IF shown' # shown THEN "request" ELSE "failed"
      /\ UNCHANGED <<enabled, queued, rec, pressedAction>>
  BY DEF Render, press
<1>2. Good(ui)'
  BY <1>1, AutoRotateTickGood, GoodNext DEF LoopInv
<1>3. ui.screen = "power_pending" => ui' = ui
  BY <1>1 DEF AutoRotateTick, AutoRotates
<1>4. CASE queued = None
  <2>1. shown'[1] = ui'.screen
    BY <1>1 DEF Frame
  <2>2. pc' = "sleep" /\ queued' = None
    BY <1>1, <1>4
  <2> QED
    BY <1>1, <1>2, <2>1, <2>2 DEF LoopInv, HighlightIsLive
<1>5. CASE queued # None
  <2>1. ui' = ui /\ shown' # shown /\ pc' = "request"
    BY <1>1, <1>3, <1>5 DEF LoopInv
  <2> QED
    BY <1>1, <1>2, <1>5, <2>1 DEF LoopInv, HighlightIsLive
<1> QED
  BY <1>4, <1>5

LEMMA AnsweredLoop ==
  ASSUME LoopInv, RequestIsAccepted \/ RequestIsFailed
  PROVE  LoopInv'
<1>1. /\ pc = "request" /\ pc' = "sleep" /\ queued' = None
      /\ UNCHANGED <<enabled, rec, pressedAction>>
  BY DEF RequestIsAccepted, RequestIsFailed, Answered, Unqueued, press
<1>2. \/ ui' = RequestAccepted(ui, 0)
      \/ \E e \in PowerRequestError : ui' = RequestFailed(ui, e, 0)
  BY DEF RequestIsAccepted, RequestIsFailed, Answered
<1>3. Good(ui)'
  BY <1>1, <1>2, RequestAcceptedGood, RequestFailedGood, GoodNext DEF LoopInv
<1>4. OnPath(ui, ui')
  BY <1>2, RequestAcceptedGood, RequestFailedGood DEF LoopInv
<1>5. ui'.screen # "power_confirm"
  BY <1>1, <1>4 DEF OnPath, LoopInv
<1> QED
  BY <1>1, <1>3, <1>5 DEF LoopInv, HighlightIsLive

LEMMA WakeLoop == ASSUME LoopInv, Wake PROVE LoopInv'
<1>1. /\ pc = "sleep" /\ pc' \in {"fetch", "input"}
      /\ UNCHANGED <<ui, enabled, queued, shown, rec, pressedAction>>
  BY DEF Wake, vars, press
<1>2. Good(ui)'
  BY <1>1, GoodNext DEF LoopInv
<1> QED
  BY <1>1, <1>2 DEF LoopInv, HighlightIsLive

LEMMA TickLoop == ASSUME LoopInv, Tick PROVE LoopInv'
<1>1. UNCHANGED <<enabled, pc, queued, shown, pressedAction>>
  BY DEF Tick
<1>2. /\ \E hold, i, p, o :
           /\ ui' = [ui EXCEPT !.holdAt = hold, !.interactionAt = i, !.pressedAt = p,
                               !.rotatedAt = o]
           /\ ui.holdAt = NoTime => hold = NoTime
      /\ \E started, released :
           rec' = [rec EXCEPT !.startedAt = started, !.releasedAt = released]
  BY DEF Tick
<1>3. /\ Good(ui') /\ Frame(ui') = Frame(ui) /\ ui'.screen = ui.screen
      /\ ui'.status = ui.status /\ ui'.pending = ui.pending
  BY <1>2 DEF LoopInv, Good, Coherent, Fields, Frame
<1>4. RecOK(rec') /\ rec'.state = rec.state
  BY <1>2 DEF LoopInv, RecOK, RecFields
<1>5. Good(ui)'
  BY <1>1, <1>3, GoodNext
<1> QED
  BY <1>1, <1>3, <1>4, <1>5 DEF LoopInv, HighlightIsLive

LEMMA StepLoop == LoopInv /\ [DisplayNext]_displayVars => LoopInv'
<1> SUFFICES ASSUME LoopInv, [DisplayNext]_displayVars PROVE LoopInv'
  OBVIOUS
<1>1. CASE Finger \/ UNCHANGED displayVars
  <2>1. UNCHANGED <<ui, enabled, pc, queued, shown, rec, pressedAction>>
    BY <1>1 DEF Finger, displayVars, vars, loop, press
  <2>2. Good(ui)'
    BY <2>1, GoodNext DEF LoopInv
  <2> QED
    BY <2>1, <2>2 DEF LoopInv, HighlightIsLive
<1> QED
  BY <1>1, FetchedLoop, InputDownLoop, InputUpLoop, InactivityLoop, RenderLoop, AnsweredLoop,
     WakeLoop, TickLoop
  DEF DisplayNext, Step

------------------------------------------------------------------------------
LEMMA LoopInvariance == DisplaySpec => []LoopInv
  BY InitLoop, StepLoop, PTL DEF DisplaySpec

\* run() meets none of its assertions: no second effect while one is queued, no request
\* without a new frame.
THEOREM LoopNeverFails == DisplaySpec => []NeverFails
<1>1. LoopInv => NeverFails
  BY DEF LoopInv, NeverFails
<1> QED
  BY <1>1, LoopInvariance, PTL

\* The helper is only asked for what the panel shows.
THEOREM RequestsAreShown == DisplaySpec => []RequestIsShown
<1>1. LoopInv => RequestIsShown
  BY DEF LoopInv, RequestIsShown
<1> QED
  BY <1>1, LoopInvariance, PTL

\* A highlight ends with its press.
THEOREM HighlightsAreLive == DisplaySpec => []HighlightIsLive
<1>1. LoopInv => HighlightIsLive
  BY DEF LoopInv
<1> QED
  BY <1>1, LoopInvariance, PTL

------------------------------------------------------------------------------
(* One turn per press *)

\* What is left to a press: none of its turn when it may still be a short or a long
\* one, and no hold to complete when it has had its turn.
TurnInv ==
  /\ turns \in {0, 1}
  /\ rec.state = "pressed" => turns = 0
  /\ rec.state = "long_emitted" /\ turns = 1 => ui.screen # "power_confirm"

\* What a finger that is seen can mean to the recognizer.
LEMMA TouchingGesture ==
  ASSUME NEW r, NEW p, RecOK(r)
  PROVE  LET s == Touching(r, p)[1]
             g == Touching(r, p)[2]
         IN  /\ g.kind \in {"none", "long"}
             /\ g.kind = "long" => r.state = "pressed" /\ s.state = "long_emitted"
             /\ s.state = "pressed" => r.state \in {"idle", "pressed"}
             /\ s.state = "long_emitted" => r.state = "long_emitted" \/ g.kind = "long"
<1>0. NoGesture.kind = "none"
  BY DEF NoGesture
<1>1. CASE r.state \in {"pressed", "long_emitted"}
  <2> DEFINE points == Kept(Append(r.points, p))
             at == Position(points)
             s == [r EXCEPT !.points = points]
  <2>1. DOMAIN s = RecFields /\ s.state = r.state
    BY DEF RecOK, RecFields
  <2>2. \A k \in {"wait_release", "long_emitted"} : [s EXCEPT !.state = k].state = k
    BY <2>1 DEF RecFields
  <2>3. \/ Continue(r, p) = <<[s EXCEPT !.state = "wait_release"], NoGesture>>
        \/ /\ Continue(r, p) = <<[s EXCEPT !.state = "long_emitted"], [kind |-> "long", at |-> at]>>
           /\ r.state = "pressed"
        \/ Continue(r, p) = <<s, NoGesture>>
    BY DEF Continue
  <2>4. Touching(r, p) = Continue(r, p)
    BY <1>1 DEF Touching
  <2> DEFINE long == [kind |-> "long", at |-> at]
             over == [s EXCEPT !.state = "wait_release"]
             emitted == [s EXCEPT !.state = "long_emitted"]
  <2>5. long.kind = "long" /\ over.state = "wait_release" /\ emitted.state = "long_emitted"
    BY <2>2
  <2> HIDE DEF s, at, long, over, emitted
  <2>6. CASE Continue(r, p) = <<over, NoGesture>>
    BY <1>0, <2>4, <2>5, <2>6
  <2>7. CASE Continue(r, p) = <<emitted, long>> /\ r.state = "pressed"
    BY <2>4, <2>5, <2>7
  <2>8. CASE Continue(r, p) = <<s, NoGesture>>
    BY <1>0, <1>1, <2>1, <2>4, <2>8
  <2> QED
    BY <2>3, <2>6, <2>7, <2>8 DEF long, over, emitted
<1>2. CASE r.state \notin {"pressed", "long_emitted"}
  <2> DEFINE s == [r EXCEPT !.state = "pressed", !.startedAt = lag, !.origin = p,
                            !.points = <<p>>]
  <2>1. \/ Touching(r, p) = <<s, NoGesture>> /\ r.state = "idle"
        \/ Touching(r, p) = <<r, NoGesture>>
    BY <1>2 DEF Touching
  <2>2. s.state = "pressed"
    BY DEF RecOK, RecFields
  <2> HIDE DEF s
  <2> QED
    BY <1>0, <1>2, <2>1, <2>2
<1> QED
  BY <1>1, <1>2

\* A long press opens the menu or leaves the screen alone.
LEMMA LongPressScreen ==
  ASSUME NEW s, NEW L, NEW x, NEW y, NEW at, DOMAIN s = Fields
  PROVE  LongPress(s, L, x, y, at).screen \in {s.screen, "main_menu"}
<1> DEFINE t == Touched(s, at)
           u == OpenMainMenu(t, SelectedNode(s, L))
<1>1. t.screen = s.screen /\ DOMAIN t = Fields
  BY TouchedPlain DEF Plain
<1>2. u.screen = "main_menu"
  BY <1>1 DEF OpenMainMenu, Fields
<1>3. LongPress(s, L, x, y, at) \in {s, t, u}
  BY DEF LongPress
<1> HIDE DEF t, u
<1> QED
  BY <1>1, <1>2, <1>3

LEMMA TurnsCount ==
  ASSUME NEW n \in {0, 1}, NEW s, NEW t
  PROVE  /\ n = 0 => Turns(n, s, t) \in {0, 1}
         /\ n = 0 /\ Turns(n, s, t) = 1 => s.screen # t.screen
         /\ s.screen = t.screen => Turns(n, s, t) = n
  BY DEF Turns, AtMost

LEMMA InputDownTurn == ASSUME LoopInv, TurnInv, InputDown PROVE TurnInv'
<1> DEFINE r == Touching(rec, finger)[1]
           g == Touching(rec, finger)[2]
           begins == rec.state = "idle" /\ r.state = "pressed"
           action == IF begins THEN VisibleAction(ui, nodes, finger[1], finger[2])
                     ELSE pressedAction
           s1 == IF begins /\ action = "power_hold" /\ ui.screen = "power_confirm"
                 THEN HoldStarted(ui, lag) ELSE ui
           holding == action = "power_hold" /\ s1.screen = "power_confirm"
           s2 == IF ~holding THEN s1
                 ELSE IF HoldKept(r, finger)
                 THEN HoldTick(s1, Elapsed(s1.holdAt, HoldTime), lag)
                 ELSE HoldEnded(s1, lag)
           sent == RequestsPower(s1, s2)
           before == IF begins THEN 0 ELSE turns
<1>1. /\ ui' = IF sent THEN s2 ELSE AfterGesture(s2, g)
      /\ rec' = IF sent THEN Consumed(r) ELSE r
      /\ turns' = Turns(before, ui, ui')
  BY DEF InputDown
<1>2. Good(s1) /\ s1.screen = ui.screen
  BY HoldStartedGood DEF LoopInv, HoldStarted, Good, Fields
<1>3. Good(s2)
  BY <1>2, HoldTickGood, HoldEndedGood
<1>4. /\ g.kind \in {"none", "long"}
      /\ g.kind = "long" => rec.state = "pressed" /\ r.state = "long_emitted"
      /\ r.state = "pressed" => rec.state \in {"idle", "pressed"}
      /\ r.state = "long_emitted" => rec.state = "long_emitted" \/ g.kind = "long"
  BY TouchingGesture DEF LoopInv
<1>5. RecOK(r)
  BY TouchingStates DEF LoopInv
<1>6. begins \/ pressedAction = NoAction \/ rec.state \in {"pressed", "long_emitted"}
  BY DEF LoopInv, HighlightIsLive
<1>7. ~sent => s2.screen = ui.screen
  <2>1. HoldEnded(s1, lag).screen = s1.screen
    BY <1>2 DEF HoldEnded, Good, Fields
  <2>2. HoldTick(s1, Elapsed(s1.holdAt, HoldTime), lag).screen
          \in {s1.screen, "power_pending"}
    BY <1>2 DEF HoldTick, Good, Fields
  <2>3. s2.screen \in {s1.screen, "power_pending"}
        /\ (s2.screen # s1.screen => s1.screen = "power_confirm")
    BY <2>1, <2>2
  <2> HIDE DEF s1, s2
  <2> QED
    BY <1>2, <2>3 DEF RequestsPower
<1>8. sent => ui.screen = "power_confirm" /\ action = "power_hold"
  <2>1. ~holding => s2 = s1
    OBVIOUS
  <2> HIDE DEF s2, s1
  <2> QED
    BY <1>2, <2>1 DEF RequestsPower
<1>9. before \in {0, 1}
  BY DEF TurnInv
<1> HIDE DEF r, g, s1, s2, sent
<1>10. CASE sent
  <2>1. before = 0
    BY <1>6, <1>8, <1>10 DEF TurnInv, NoAction
  <2>2. turns' \in {0, 1}
    BY <1>1, <2>1, TurnsCount
  <2>3. rec'.state \notin {"pressed", "long_emitted"}
    BY <1>1, <1>5, <1>10 DEF Consumed, RecOK, RecFields
  <2> QED
    BY <2>2, <2>3 DEF TurnInv
<1>11. CASE ~sent /\ g.kind # "long"
  <2>1. ui' = s2 /\ rec' = r
    BY <1>1, <1>4, <1>11 DEF AfterGesture
  <2>2. turns' = before /\ ui'.screen = ui.screen
    BY <1>1, <1>7, <1>9, <1>11, <2>1, TurnsCount
  <2> QED
    BY <1>4, <1>9, <1>11, <2>1, <2>2 DEF TurnInv
<1>12. CASE ~sent /\ g.kind = "long"
  <2>1. ui' = LongPress(s2, nodes, g.at[1], g.at[2], lag) /\ rec' = r
    BY <1>1, <1>12 DEF AfterGesture
  <2>2. before = 0 /\ r.state = "long_emitted"
    BY <1>4, <1>12 DEF TurnInv
  <2>3. ui'.screen \in {ui.screen, "main_menu"}
    BY <1>3, <1>7, <1>12, <2>1, LongPressScreen DEF Good
  <2>4. turns' \in {0, 1} /\ (turns' = 1 => ui'.screen # ui.screen)
    BY <1>1, <2>2, TurnsCount
  <2> QED
    BY <2>1, <2>2, <2>3, <2>4 DEF TurnInv
<1> QED
  BY <1>10, <1>11, <1>12

LEMMA InputUpTurn == ASSUME LoopInv, TurnInv, InputUp PROVE TurnInv'
<1> DEFINE s == IF pressedAction = "power_hold" /\ ui.screen = "power_confirm"
                THEN HoldEnded(ui, lag) ELSE ui
<1>1. /\ ui' = AfterGesture(s, Released(rec)[2]) /\ rec' = Released(rec)[1]
      /\ turns' = Turns(turns, ui, ui')
  BY DEF InputUp
<1>2. s.screen = ui.screen
  BY DEF HoldEnded, LoopInv, Good, Fields
<1>3. rec'.state = "idle"
  BY <1>1 DEF Released, Idle
<1> HIDE DEF s
<1>4. CASE rec.state = "pressed"
  <2>1. turns' \in {0, 1}
    BY <1>1, <1>4, TurnsCount DEF TurnInv
  <2> QED
    BY <1>3, <2>1 DEF TurnInv
<1>5. CASE rec.state # "pressed"
  <2>1. Released(rec)[2] = NoGesture
    BY <1>5 DEF Released, ShortOn
  <2>2. ui' = s
    BY <1>1, <2>1 DEF AfterGesture, NoGesture
  <2>3. turns' = turns
    BY <1>1, <1>2, <2>2, TurnsCount DEF TurnInv
  <2> QED
    BY <1>3, <2>3 DEF TurnInv
<1> QED
  BY <1>4, <1>5

LEMMA StepTurn == LoopInv /\ TurnInv /\ [DisplayNext]_displayVars => TurnInv'
<1> SUFFICES ASSUME LoopInv, TurnInv, [DisplayNext]_displayVars PROVE TurnInv'
  OBVIOUS
<1>1. ASSUME UNCHANGED turns, rec'.state = rec.state,
             ui'.screen = "power_confirm" => ui.screen = "power_confirm"
      PROVE  TurnInv'
  BY <1>1 DEF TurnInv
<1>2. CASE Fetched
  <2>1. PICK L : ui' = DataRefreshed(ui, L)
    BY <1>2 DEF Fetched, AfterAnswer
  <2>2. ui'.screen = "power_confirm" => ui.screen = "power_confirm"
    BY <2>1, DataRefreshedPlain, PlainPending DEF LoopInv, Good
  <2> QED
    BY <1>1, <1>2, <2>2 DEF Fetched, press
<1>3. CASE Inactivity
  <2>1. PICK menuOver, detailOver :
          ui' = IF finger # Up THEN ui ELSE InactivityTick(ui, menuOver, detailOver)
    BY <1>3 DEF Inactivity
  <2>2. ui'.screen = "power_confirm" => ui.screen = "power_confirm"
    BY <2>1 DEF InactivityTick, ToSystem, LoopInv, Good, Fields
  <2> QED
    BY <1>1, <1>3, <2>2 DEF Inactivity, press
<1>4. CASE Render
  <2>1. ui' = AutoRotateTick(ui, nodes, RotationDue, lag)
    BY <1>4 DEF Render
  <2>2. ui'.screen = "power_confirm" => ui.screen = "power_confirm"
    BY <2>1, StepNodePlain, PlainPending DEF AutoRotateTick, LoopInv, Good
  <2> QED
    BY <1>1, <1>4, <2>2 DEF Render, press
<1>5. CASE RequestIsAccepted \/ RequestIsFailed
  <2>1. \/ ui' = RequestAccepted(ui, 0)
        \/ \E e \in PowerRequestError : ui' = RequestFailed(ui, e, 0)
    BY <1>5 DEF RequestIsAccepted, RequestIsFailed, Answered
  <2>2. ui'.screen = "power_confirm" => ui.screen = "power_confirm"
    BY <2>1 DEF RequestAccepted, RequestFailed, LoopInv, Good, Fields
  <2>3. UNCHANGED press
    BY <1>5 DEF RequestIsAccepted, RequestIsFailed, Answered
  <2> QED
    BY <1>1, <2>2, <2>3 DEF press
<1>6. CASE Tick
  <2>1. rec'.state = rec.state /\ ui'.screen = ui.screen /\ turns' = turns
    BY <1>6 DEF Tick, LoopInv, Good, Fields, RecOK, RecFields
  <2> QED
    BY <1>1, <2>1
<1>7. CASE Wake \/ Finger \/ UNCHANGED displayVars
  BY <1>1, <1>7 DEF Wake, Finger, displayVars, vars, press
<1> QED
  BY <1>2, <1>3, <1>4, <1>5, <1>6, <1>7, InputDownTurn, InputUpTurn DEF DisplayNext, Step

\* However a press is held, slid and released, and whatever comes in between, it turns
\* the screen at most once.
THEOREM PressesTurnOnce == DisplaySpec => []OneTurnPerPress
<1>1. DisplayInit => TurnInv
  BY DEF DisplayInit, TurnInv, Idle
<1>2. TurnInv => OneTurnPerPress
  BY DEF TurnInv, OneTurnPerPress
<1> QED
  BY <1>1, <1>2, LoopInvariance, StepTurn, PTL DEF DisplaySpec

------------------------------------------------------------------------------
(* The length of a hold *)

\* A hold under way is no older than the series of looks that have watched it, and that
\* series no older than the time for which the finger may have been on the button, but for
\* what the clock of the loop was behind when the series began.
HoldInv ==
  /\ lag \in Nat /\ lag <= FetchMax
  /\ heldFor \in Nat \cup {NoTime} /\ watched \in Nat \cup {NoTime}
  /\ ui.holdAt \in Nat \cup {NoTime}
  /\ ui.holdAt # NoTime =>
       pressedAction = "power_hold" /\ watched # NoTime /\ ui.holdAt <= watched
  /\ OnHold(finger) => heldFor # NoTime
  /\ watched # NoTime => lag <= watched /\ heldFor # NoTime /\ watched <= heldFor + FetchMax

\* what a step that asks for a request has behind it: by the clock of the loop, and by
\* that of the finger
Watched ==
  queued = None /\ queued' # None => Confirms /\ watched # NoTime /\ Elapsed(watched, HoldTime)

HeldFor(least) ==
  queued = None /\ queued' # None => heldFor # NoTime /\ heldFor >= least

LEMMA TimesAreNat ==
  /\ HoldTime \in Nat /\ HoldTime > 0 /\ FetchMax \in Nat
  /\ NoTime \notin Nat
<1>1. HoldTime \in Nat \ {0} /\ NoTime \notin Nat
  BY DisplayAssumption
<1>2. FetchMax \in Nat
  BY DisplayAssumption
<1> QED
  BY <1>1, <1>2

\* No press begins a hold: the loop does.
LEMMA PressHold ==
  ASSUME NEW s, NEW L, NEW x, NEW y, NEW at, Good(s)
  PROVE  /\ ShortPress(s, L, x, y, at).holdAt \in {s.holdAt, NoTime}
         /\ LongPress(s, L, x, y, at).holdAt = s.holdAt
<1> DEFINE t == Touched(s, at)
           action == VisibleAction(s, L, x, y)
           u == OpenMainMenu(t, SelectedNode(s, L))
<1>1. t.holdAt = s.holdAt /\ t.screen = s.screen /\ DOMAIN t = Fields
  BY TouchedPlain DEF Plain, Good
<1>2. Pressed(s, L, x, y, at).holdAt \in {s.holdAt, NoTime}
  <2> HIDE DEF t, action
  <2>1. CASE s.screen = "overview"
    BY <1>1, <2>1, OverviewPressPlain DEF Pressed, Plain, t
  <2>2. CASE s.screen = "main_menu"
    BY <1>1, <2>2, MenuPressPlain DEF Pressed, Plain, t
  <2>3. CASE s.screen \in {"values", "graph"}
    BY <1>1, <2>3, DetailPressPlain DEF Pressed, Plain, t
  <2>4. CASE s.screen = "nodes"
    BY <1>1, <2>4, NodesPressPlain DEF Pressed, Plain, t
  <2>5. CASE s.screen = "system"
    <3>1. Pressed(s, L, x, y, at) = SystemPress(t, action)
      BY <2>5 DEF Pressed, t, action
    <3>2. SystemPress(t, action).holdAt \in {t.holdAt, NoTime}
      BY <1>1 DEF SystemPress, Fields
    <3> QED
      BY <1>1, <3>1, <3>2
  <2>6. CASE s.screen \notin {"overview", "main_menu", "values", "graph", "nodes", "system"}
    <3>1. Pressed(s, L, x, y, at) \in {t, ToSystem(t)}
      BY <2>6 DEF Pressed, t
    <3>2. ToSystem(t).holdAt = NoTime
      BY <1>1 DEF ToSystem, Fields
    <3> QED
      BY <1>1, <3>1, <3>2
  <2> QED
    BY <2>1, <2>2, <2>3, <2>4, <2>5, <2>6
<1>3. u.holdAt = s.holdAt
  BY <1>1 DEF OpenMainMenu, Fields
<1>4. LongPress(s, L, x, y, at) \in {s, t, u}
  BY DEF LongPress
<1> HIDE DEF t, u
<1> QED
  BY <1>1, <1>2, <1>3, <1>4 DEF ShortPress

\* Where the button answers, the finger is on it.
LEMMA HoldIsTouched ==
  ASSUME NEW s, NEW L, NEW p, p # Up, s.screen = "power_confirm",
         VisibleAction(s, L, p[1], p[2]) = "power_hold"
  PROVE  OnHold(p)
<1>1. ConfirmAction(s, p[1], p[2]) = "power_hold"
  BY DEF VisibleAction
<1> QED
  BY <1>1 DEF ConfirmAction, OnHold, NoAction

\* A look at the finger: the hold is begun, goes on, is complete or ends.
LEMMA InputDownHold ==
  ASSUME LoopInv, HoldInv, InputDown
  PROVE  HoldInv' /\ Watched /\ HeldFor(HoldTime - FetchMax)
<1> DEFINE r == Touching(rec, finger)[1]
           g == Touching(rec, finger)[2]
           begins == rec.state = "idle" /\ r.state = "pressed"
           action == IF begins THEN VisibleAction(ui, nodes, finger[1], finger[2])
                     ELSE pressedAction
           s1 == IF begins /\ action = "power_hold" /\ ui.screen = "power_confirm"
                 THEN HoldStarted(ui, lag) ELSE ui
           holding == action = "power_hold" /\ s1.screen = "power_confirm"
           s2 == IF ~holding THEN s1
                 ELSE IF HoldKept(r, finger)
                 THEN HoldTick(s1, Elapsed(s1.holdAt, HoldTime), lag)
                 ELSE HoldEnded(s1, lag)
           sent == RequestsPower(s1, s2)
           over == PressOver(sent, holding, r, finger)
<1>1. /\ pc = "input" /\ finger # Up
      /\ ui' = IF sent THEN s2 ELSE AfterGesture(s2, g)
      /\ pressedAction' = IF over THEN NoAction ELSE action
      /\ Queue(sent, s2)
      /\ heldFor' = IF OnHold(finger) THEN heldFor ELSE NoTime
      /\ watched' = IF ~Confirms THEN NoTime ELSE IF watched = NoTime THEN lag ELSE watched
      /\ lag' = lag /\ finger' = finger
  BY DEF InputDown
<1>2. Good(s1) /\ s1.screen = ui.screen
  BY HoldStartedGood DEF LoopInv, HoldStarted, Good, Fields
<1>3. Good(s2)
  BY <1>2, HoldTickGood, HoldEndedGood
<1>4. g.kind \in {"none", "long"}
  BY TouchingGesture DEF LoopInv
<1>5. /\ heldFor' \in Nat \cup {NoTime} /\ watched' \in Nat \cup {NoTime}
      /\ OnHold(finger) => heldFor' = heldFor /\ heldFor # NoTime
      /\ watched' # NoTime =>
           /\ Confirms /\ watched' \in {lag, watched} /\ (watched # NoTime => watched' = watched)
           /\ lag <= watched' /\ heldFor' # NoTime /\ watched' <= heldFor' + FetchMax
  <2>1. lag \in Nat /\ lag # NoTime /\ lag <= FetchMax
    BY TimesAreNat DEF HoldInv
  <2>2. OnHold(finger) => heldFor' = heldFor /\ heldFor # NoTime
    BY <1>1 DEF HoldInv
  <2>3. heldFor \in Nat \cup {NoTime} /\ watched \in Nat \cup {NoTime}
    BY DEF HoldInv
  <2>4. watched' # NoTime => Confirms /\ watched' = IF watched = NoTime THEN lag ELSE watched
    BY <1>1
  <2>5. Confirms => OnHold(finger)
    BY DEF Confirms
  <2>6. watched # NoTime => lag <= watched /\ watched <= heldFor + FetchMax
    BY DEF HoldInv
  <2>7. ASSUME watched' # NoTime
        PROVE  lag <= watched' /\ heldFor' # NoTime /\ watched' <= heldFor' + FetchMax
    BY <2>1, <2>2, <2>3, <2>4, <2>5, <2>6, <2>7, TimesAreNat
  <2>8. heldFor' \in Nat \cup {NoTime} /\ watched' \in Nat \cup {NoTime}
    BY <1>1, <2>1, <2>3
  <2> QED
    BY <2>2, <2>4, <2>7, <2>8
<1>6. ui.holdAt # NoTime => ~begins /\ s1 = ui /\ action = "power_hold"
                            /\ ui.screen = "power_confirm"
  BY DEF HoldInv, LoopInv, HighlightIsLive, Good, Coherent, NoAction
\* whatever is held now has been watched since, or is let go of by this look
<1>7. s1.holdAt # NoTime =>
        /\ s1.holdAt \in Nat /\ holding
        /\ HoldKept(r, finger) => Confirms /\ watched' # NoTime /\ s1.holdAt <= watched'
        /\ Elapsed(s1.holdAt, HoldTime) => watched # NoTime /\ s1.holdAt <= watched
  <2>1. CASE ui.holdAt # NoTime
    <3>1. HoldKept(r, finger) => OnHold(finger)
      BY <1>1 DEF HoldKept, OnHold
    <3>2. s1 = ui /\ holding
      BY <1>6, <2>1
    <3>3. ui.screen = "power_confirm" /\ watched # NoTime /\ ui.holdAt <= watched
      BY <1>6, <2>1 DEF HoldInv
    <3>4. HoldKept(r, finger) => Confirms /\ watched' = watched
      BY <1>1, <3>1, <3>3 DEF Confirms
    <3> HIDE DEF s1, holding, r
    <3> QED
      BY <2>1, <3>2, <3>3, <3>4 DEF HoldInv
  <2>2. CASE ui.holdAt = NoTime
    <3> SUFFICES ASSUME s1.holdAt # NoTime
                 PROVE  /\ s1.holdAt \in Nat /\ holding
                        /\ Confirms /\ watched' # NoTime /\ s1.holdAt <= watched'
                        /\ ~Elapsed(s1.holdAt, HoldTime)
      OBVIOUS
    <3>1. begins /\ action = "power_hold" /\ ui.screen = "power_confirm"
      BY <2>2
    <3>2. s1 = HoldStarted(ui, lag)
      BY <3>1
    <3>3. OnHold(finger)
      BY <1>1, <3>1, HoldIsTouched
    <3>4. holding
      BY <1>2, <3>1
    <3> HIDE DEF s1, holding
    <3>5. s1.holdAt = lag
      BY <2>2, <3>2 DEF HoldStarted, LoopInv, Good, Fields
    <3>6. lag \in Nat /\ ~Elapsed(lag, HoldTime)
      BY TimesAreNat DEF HoldInv, Elapsed
    <3>7. Confirms /\ watched' # NoTime
      BY <1>1, <3>1, <3>3, <3>6, TimesAreNat DEF Confirms
    <3> QED
      BY <1>5, <3>4, <3>5, <3>6, <3>7
  <2> QED
    BY <2>1, <2>2
<1> HIDE DEF r, g, s1
<1>8. sent => /\ holding /\ HoldKept(r, finger) /\ s1.holdAt # NoTime
              /\ Elapsed(s1.holdAt, HoldTime)
  <2>1. ASSUME sent PROVE holding /\ s2.screen # s1.screen
    BY <2>1 DEF RequestsPower
  <2>2. HoldEnded(s1, lag).screen = s1.screen
    BY <1>2 DEF HoldEnded, Good, Fields
  <2>3. ASSUME sent PROVE HoldKept(r, finger)
    BY <2>1, <2>2, <2>3
  <2>4. ASSUME sent PROVE HoldTick(s1, Elapsed(s1.holdAt, HoldTime), lag) # s1
    BY <2>1, <2>3, <2>4
  <2> HIDE DEF sent
  <2> QED
    BY <2>1, <2>3, <2>4 DEF HoldTick
<1>9. s2.holdAt # NoTime =>
        s2.holdAt = s1.holdAt /\ holding /\ HoldKept(r, finger) /\ s1.holdAt # NoTime /\ ~sent
  <2>1. HoldEnded(s1, lag).holdAt # NoTime => s1.holdAt # NoTime /\ s1.screen # "power_confirm"
    BY <1>2 DEF HoldEnded, Good, Fields
  <2>2. HoldTick(s1, Elapsed(s1.holdAt, HoldTime), lag).holdAt \in {s1.holdAt, NoTime}
    BY <1>2 DEF HoldTick, Good, Fields
  <2>3. sent => s2.screen = "power_pending"
    BY DEF RequestsPower
  <2>4. s2.holdAt # NoTime => s2.screen = "power_confirm"
    BY <1>3 DEF Good, Coherent
  <2>5. s1.holdAt # NoTime => holding
    BY <1>7
  <2>6. ~holding => s2 = s1
    OBVIOUS
  <2>7. holding => s1.screen = "power_confirm"
    OBVIOUS
  <2>8. holding => s2 = IF HoldKept(r, finger)
                        THEN HoldTick(s1, Elapsed(s1.holdAt, HoldTime), lag)
                        ELSE HoldEnded(s1, lag)
    OBVIOUS
  <2> HIDE DEF s2, sent, holding
  <2> QED
    BY <2>1, <2>2, <2>3, <2>4, <2>5, <2>6, <2>7, <2>8
<1>10. ui'.holdAt = s2.holdAt
  <2>1. CASE sent
    BY <1>1, <2>1
  <2>2. CASE ~sent
    <3>1. AfterGesture(s2, g) \in {s2, LongPress(s2, nodes, g.at[1], g.at[2], lag)}
      BY <1>4 DEF AfterGesture
    <3> HIDE DEF s2, sent
    <3> QED
      BY <1>1, <1>3, <2>2, <3>1, PressHold
  <2> QED
    BY <2>1, <2>2
<1>11. holding /\ HoldKept(r, finger) /\ ~sent => ~over /\ action = "power_hold"
  BY DEF PressOver
<1> HIDE DEF s2, sent, over, holding, action
<1>12. HoldInv'
  <2>1. ui'.holdAt # NoTime =>
          /\ pressedAction' = "power_hold" /\ ui'.holdAt \in Nat
          /\ watched' # NoTime /\ ui'.holdAt <= watched'
    BY <1>1, <1>7, <1>9, <1>10, <1>11
  <2>2. OnHold(finger') => heldFor' # NoTime
    BY <1>1, <1>5
  <2>3. lag' \in Nat /\ lag' <= FetchMax
    BY <1>1 DEF HoldInv
  <2> QED
    BY <1>1, <1>5, <2>1, <2>2, <2>3 DEF HoldInv
<1>13. Watched /\ HeldFor(HoldTime - FetchMax)
  <2> SUFFICES ASSUME queued = None, queued' # None
               PROVE  /\ Confirms /\ watched # NoTime /\ Elapsed(watched, HoldTime)
                      /\ heldFor # NoTime /\ heldFor >= HoldTime - FetchMax
    BY DEF Watched, HeldFor
  <2>1. sent
    BY <1>1 DEF Queue
  <2>2. /\ Confirms /\ watched # NoTime
        /\ s1.holdAt \in Nat /\ s1.holdAt <= watched /\ s1.holdAt - lag >= HoldTime
    BY <1>7, <1>8, <2>1 DEF Elapsed
  <2> QED
    BY <2>2, TimesAreNat DEF HoldInv, Elapsed
<1> QED
  BY <1>12, <1>13

LEMMA InputUpHold == ASSUME LoopInv, HoldInv, InputUp PROVE HoldInv'
<1> DEFINE s == IF pressedAction = "power_hold" /\ ui.screen = "power_confirm"
                THEN HoldEnded(ui, lag) ELSE ui
           g == Released(rec)[2]
<1>1. /\ ui' = AfterGesture(s, g)
      /\ finger = Up /\ finger' = finger /\ lag' = lag
      /\ heldFor' = NoTime /\ watched' = NoTime
  BY DEF InputUp
<1>2. Good(s)
  BY HoldEndedGood DEF LoopInv
<1>3. s.holdAt = NoTime
  <2>1. ui.holdAt # NoTime => pressedAction = "power_hold" /\ ui.screen = "power_confirm"
    BY DEF HoldInv, LoopInv, Good, Coherent
  <2>2. ui.screen = "power_confirm" => HoldEnded(ui, lag).holdAt = NoTime
    BY DEF HoldEnded, LoopInv, Good, Fields
  <2> QED
    BY <2>1, <2>2
<1> HIDE DEF s, g
<1>4. ui'.holdAt = NoTime
  BY <1>1, <1>2, <1>3, PressHold DEF AfterGesture
<1>5. ~OnHold(finger')
  BY <1>1 DEF OnHold
<1> QED
  BY <1>1, <1>4, <1>5 DEF HoldInv

LEMMA TickHold == ASSUME LoopInv, HoldInv, Tick PROVE HoldInv'
<1>1. /\ lag' = lag \/ (lag < FetchMax /\ lag' = lag + 1)
      /\ heldFor' = IF heldFor = NoTime THEN NoTime ELSE AtMost(heldFor + 1, HoldTime)
      /\ watched' = IF watched = NoTime THEN NoTime
                    ELSE AtMost(watched + 1, HoldTime + FetchMax)
      /\ finger' = finger /\ pressedAction' = pressedAction
  BY DEF Tick, Older, OldHold
<1>2. ui'.holdAt = IF ui.holdAt = NoTime THEN NoTime
                   ELSE AtMost(ui.holdAt + 1, HoldTime + FetchMax)
  BY DEF Tick, Older, OldHold, LoopInv, Good, Fields
<1>3. /\ lag' \in Nat /\ lag' <= FetchMax
      /\ heldFor' \in Nat \cup {NoTime} /\ (heldFor' # NoTime <=> heldFor # NoTime)
      /\ watched' \in Nat \cup {NoTime} /\ (watched' # NoTime <=> watched # NoTime)
      /\ ui'.holdAt \in Nat \cup {NoTime} /\ (ui'.holdAt # NoTime <=> ui.holdAt # NoTime)
  BY <1>1, <1>2, TimesAreNat DEF HoldInv, AtMost
<1>4. ui.holdAt # NoTime => pressedAction' = "power_hold" /\ ui'.holdAt <= watched'
  BY <1>1, <1>2, TimesAreNat DEF HoldInv, AtMost
<1>5. watched # NoTime => lag' <= watched' /\ watched' <= heldFor' + FetchMax
  BY <1>1, TimesAreNat DEF HoldInv, AtMost
<1>6. watched # NoTime => heldFor # NoTime
  BY DEF HoldInv
<1>7. ui.holdAt # NoTime => watched # NoTime
  BY DEF HoldInv
<1>8. OnHold(finger') => heldFor' # NoTime
  BY <1>1, <1>3 DEF HoldInv
<1> QED
  BY <1>1, <1>3, <1>4, <1>5, <1>6, <1>7, <1>8 DEF HoldInv

LEMMA FingerHold == ASSUME HoldInv, Finger PROVE HoldInv'
<1>1. /\ heldFor' = IF heldFor = NoTime /\ OnHold(finger') THEN 0 ELSE heldFor
      /\ UNCHANGED <<ui, lag, pressedAction, watched>>
  BY DEF Finger, vars, loop, press
<1>2. heldFor' \in Nat \cup {NoTime} /\ (OnHold(finger') => heldFor' # NoTime)
  BY <1>1, TimesAreNat DEF HoldInv
<1>3. watched # NoTime => heldFor' = heldFor
  BY <1>1 DEF HoldInv
<1> QED
  BY <1>1, <1>2, <1>3 DEF HoldInv

LEMMA StepHold ==
  LoopInv /\ HoldInv /\ [DisplayNext]_displayVars =>
    HoldInv' /\ [Watched]_displayVars /\ [HeldFor(HoldTime - FetchMax)]_displayVars
<1> SUFFICES ASSUME LoopInv, HoldInv, [DisplayNext]_displayVars
             PROVE  HoldInv' /\ [Watched]_displayVars
                             /\ [HeldFor(HoldTime - FetchMax)]_displayVars
  OBVIOUS
<1>1. ASSUME queued' \in {queued, None} PROVE Watched /\ HeldFor(HoldTime - FetchMax)
  BY <1>1 DEF Watched, HeldFor
\* a step that neither looks at the finger nor moves it, nor brings a hold nearer to its end
<1>2. ASSUME UNCHANGED <<finger, heldFor, watched, pressedAction>>, lag' \in {lag, 0},
             ui'.holdAt \in {ui.holdAt, NoTime}
      PROVE  HoldInv'
  <2>1. lag' \in Nat /\ lag' <= lag
    BY <1>2 DEF HoldInv
  <2> QED
    BY <1>2, <2>1, TimesAreNat DEF HoldInv
<1>3. CASE Fetched
  <2>1. PICK L : ui' = DataRefreshed(ui, L)
    BY <1>3 DEF Fetched, AfterAnswer
  <2>2. ui'.holdAt = ui.holdAt
    BY <2>1, DataRefreshedPlain DEF LoopInv, Good, Plain
  <2>3. UNCHANGED <<lag, queued, finger, heldFor, watched, pressedAction>>
    BY <1>3 DEF Fetched, touch, press
  <2> QED
    BY <1>1, <1>2, <2>2, <2>3
<1>4. CASE Inactivity
  <2>1. PICK menuOver, detailOver :
          ui' = IF finger # Up THEN ui ELSE InactivityTick(ui, menuOver, detailOver)
    BY <1>4 DEF Inactivity
  <2>2. ui'.holdAt \in {ui.holdAt, NoTime}
    BY <2>1 DEF InactivityTick, ToSystem, LoopInv, Good, Fields
  <2>3. UNCHANGED <<lag, queued, finger, heldFor, watched, pressedAction>>
    BY <1>4 DEF Inactivity, touch, press
  <2> QED
    BY <1>1, <1>2, <2>2, <2>3
<1>5. CASE Render
  <2>1. ui' = AutoRotateTick(ui, nodes, RotationDue, lag)
    BY <1>5 DEF Render
  <2>2. ui'.holdAt = ui.holdAt
    BY <2>1, StepNodePlain DEF AutoRotateTick, LoopInv, Good, Plain
  <2>3. UNCHANGED <<lag, queued, finger, heldFor, watched, pressedAction>>
    BY <1>5 DEF Render, touch, press
  <2> QED
    BY <1>1, <1>2, <2>2, <2>3
<1>6. CASE RequestIsAccepted \/ RequestIsFailed
  <2>1. \/ ui' = RequestAccepted(ui, 0)
        \/ \E e \in PowerRequestError : ui' = RequestFailed(ui, e, 0)
    BY <1>6 DEF RequestIsAccepted, RequestIsFailed, Answered
  <2>2. ui'.holdAt = ui.holdAt
    BY <2>1 DEF RequestAccepted, RequestFailed, LoopInv, Good, Fields
  <2>3. queued' = None /\ UNCHANGED <<lag, finger, heldFor, watched, pressedAction>>
    BY <1>6 DEF RequestIsAccepted, RequestIsFailed, Answered, Unqueued, touch, press
  <2> QED
    BY <1>1, <1>2, <2>2, <2>3
<1>7. CASE Wake
  <2>1. lag' = 0 /\ UNCHANGED <<ui, queued, finger, heldFor, watched, pressedAction>>
    BY <1>7 DEF Wake, vars, touch, press
  <2> QED
    BY <1>1, <1>2, <2>1
<1>8. CASE InputDown
  BY <1>8, InputDownHold
<1>9. CASE InputUp
  <2>1. queued' = queued
    BY <1>9 DEF InputUp, Queue
  <2> QED
    BY <1>1, <1>9, <2>1, InputUpHold
<1>10. CASE Tick
  BY <1>1, <1>10, TickHold DEF Tick
<1>11. CASE Finger
  BY <1>1, <1>11, FingerHold DEF Finger, loop
<1>12. CASE UNCHANGED displayVars
  <2>1. UNCHANGED <<ui, lag, finger, heldFor, watched, pressedAction>>
    BY <1>12 DEF displayVars, vars, loop, touch, press
  <2> QED
    BY <1>2, <1>12, <2>1
<1> QED
  BY <1>3, <1>4, <1>5, <1>6, <1>7, <1>8, <1>9, <1>10, <1>11, <1>12 DEF DisplayNext, Step

LEMMA InitHold == DisplayInit => HoldInv
<1> SUFFICES ASSUME DisplayInit PROVE HoldInv
  OBVIOUS
<1>1. ui.holdAt = NoTime
  BY DEF DisplayInit, UiStart
<1>2. ~OnHold(finger)
  BY DEF DisplayInit, OnHold
<1> QED
  BY <1>1, <1>2, TimesAreNat DEF DisplayInit, HoldInv

\* Every request is made by a look that finds the finger on the button, and so has every
\* look for the hold time, by the clock of the loop; whatever the finger does between looks
\* and however long the loop waits.
THEOREM HoldsAreWatched == DisplaySpec => HoldIsWatched
<1>1. LoopInv /\ HoldInv /\ [DisplayNext]_displayVars => HoldInv' /\ [Watched]_displayVars
  BY StepHold
<1>2. DisplaySpec => [][Watched]_displayVars
  BY <1>1, InitHold, LoopInvariance, PTL DEF DisplaySpec
<1> QED
  BY <1>2 DEF HoldIsWatched, Watched

\* The wait for the hub is the only thing that makes a hold too short: without it, every
\* request has a full hold behind it.
THEOREM HoldsAreFullWithoutWaits ==
  ASSUME FetchMax = 0
  PROVE  DisplaySpec => HoldIsFull
<1>1. HoldTime - FetchMax = HoldTime
  BY TimesAreNat
<1>2. LoopInv /\ HoldInv /\ [DisplayNext]_displayVars => HoldInv' /\ [HeldFor(HoldTime)]_displayVars
  BY <1>1, StepHold
<1>3. DisplaySpec => [][HeldFor(HoldTime)]_displayVars
  BY <1>2, InitHold, LoopInvariance, PTL DEF DisplaySpec
<1> QED
  BY <1>3 DEF HoldIsFull, HeldFor

------------------------------------------------------------------------------
(* The selection in the loop *)

\* Sound (UiProofs) of the state in the loop, whose times are ages: the events come from
\* a recognizer that puts presses where nobody may have touched, and two in one look.
LoopSound == lag \in Nat /\ Sound(ui, nodes, Nat) /\ AList(nodes)

\* what RefreshKeepsSelection says of a step
SelectionKept == nodes' # nodes => SelectionFollows(ui, ui', nodes')

LEMMA InitLoopSound == DisplayInit => LoopSound
<1> SUFFICES ASSUME DisplayInit PROVE LoopSound
  OBVIOUS
<1> DEFINE m == [c \in Category |-> 0]
<1>1. m \in [Category -> Nat] /\ \A c \in Category : m[c] < ChartMetrics[c]
  <2>1. \A c \in Category : ChartMetrics[c] \in Nat \ {0}
    BY UiAssumption
  <2> QED
    BY <2>1
<1>2. "overview" \in Screen /\ "cpu" \in Category /\ 0 \in 0..(MenuPageCount - 1)
  BY DEF Screen, Category, MenuPageCount
<1>3. OldPause \in Nat
  BY DisplayAssumption DEF OldPause
<1> HIDE DEF m
<1>4. Typed(ui, Nat) /\ ui.selected = NoNode /\ ui.hint = 0 /\ ui.screen = "overview"
  BY <1>1, <1>2, <1>3 DEF DisplayInit, UiStart, Typed, StateType, m
<1> QED
  BY <1>4 DEF DisplayInit, LoopSound, Sound, Located, Fits, OnPage, AList

\* A step that leaves the list alone.
LEMMA SameListSound ==
  ASSUME LoopSound, nodes' = nodes, lag' \in Nat, Sound(ui', nodes, Nat)
  PROVE  LoopSound' /\ SelectionKept
<1>1. Sound(ui', nodes', Nat) /\ AList(nodes')
  BY DEF LoopSound
<1> QED
  BY <1>1 DEF LoopSound, SelectionKept, Sound, AList

LEMMA AfterGestureSound ==
  ASSUME LoopSound, NEW s, NEW g, Sound(s, nodes, Nat)
  PROVE  Sound(AfterGesture(s, g), nodes, Nat)
<1>1. lag \in Nat /\ AList(nodes)
  BY DEF LoopSound
<1> QED
  BY <1>1, ShortPressSound, LongPressSound DEF AfterGesture

LEMMA InputDownSound == ASSUME LoopSound, InputDown PROVE LoopSound' /\ SelectionKept
<1> DEFINE r == Touching(rec, finger)[1]
           g == Touching(rec, finger)[2]
           begins == rec.state = "idle" /\ r.state = "pressed"
           action == IF begins THEN VisibleAction(ui, nodes, finger[1], finger[2])
                     ELSE pressedAction
           s1 == IF begins /\ action = "power_hold" /\ ui.screen = "power_confirm"
                 THEN HoldStarted(ui, lag) ELSE ui
           holding == action = "power_hold" /\ s1.screen = "power_confirm"
           s2 == IF ~holding THEN s1
                 ELSE IF HoldKept(r, finger)
                 THEN HoldTick(s1, Elapsed(s1.holdAt, HoldTime), lag)
                 ELSE HoldEnded(s1, lag)
           sent == RequestsPower(s1, s2)
<1>1. ui' = (IF sent THEN s2 ELSE AfterGesture(s2, g)) /\ nodes' = nodes /\ lag' = lag
  BY DEF InputDown
<1>2. lag \in Nat /\ Sound(ui, nodes, Nat) /\ "timeout" \in PowerRequestError
  BY DEF LoopSound, PowerRequestError
<1>3. Sound(s1, nodes, Nat)
  BY <1>2, PowerEventsSound
<1> HIDE DEF r, g, s1
<1>4. Sound(s2, nodes, Nat)
  BY <1>2, <1>3, PowerEventsSound
<1> HIDE DEF s2
<1>5. Sound(ui', nodes, Nat)
  BY <1>1, <1>4, AfterGestureSound
<1> QED
  BY <1>1, <1>2, <1>5, SameListSound

LEMMA InputUpSound == ASSUME LoopSound, InputUp PROVE LoopSound' /\ SelectionKept
<1> DEFINE r == Released(rec)
           s == IF pressedAction = "power_hold" /\ ui.screen = "power_confirm"
                THEN HoldEnded(ui, lag) ELSE ui
<1>1. ui' = AfterGesture(s, r[2]) /\ nodes' = nodes /\ lag' = lag
  BY DEF InputUp
<1>2. lag \in Nat /\ Sound(ui, nodes, Nat) /\ "timeout" \in PowerRequestError
  BY DEF LoopSound, PowerRequestError
<1>3. Sound(s, nodes, Nat)
  BY <1>2, PowerEventsSound
<1> HIDE DEF s, r
<1>4. Sound(ui', nodes, Nat)
  BY <1>1, <1>3, AfterGestureSound
<1> QED
  BY <1>1, <1>2, <1>4, SameListSound

LEMMA TickSound == ASSUME LoopSound, Tick PROVE LoopSound' /\ SelectionKept
<1>1. /\ lag' \in {lag, lag + 1} /\ nodes' = nodes
      /\ ui' = [ui EXCEPT !.holdAt = IF @ = NoTime THEN NoTime ELSE Older(@, OldHold),
                          !.interactionAt = Older(@, OldInteraction),
                          !.pressedAt = Older(@, OldPause),
                          !.rotatedAt = Older(@, OldRotation)]
  BY DEF Tick
<1>2. \A n \in {OldHold, OldInteraction, OldPause, OldRotation} : n \in Nat
  BY DisplayAssumption DEF OldHold, OldInteraction, OldPause, OldRotation, Larger
<1>3. \A age \in Nat, n \in Nat : Older(age, n) \in Nat
  BY DEF Older, AtMost
<1>4. Typed(ui, Nat) /\ lag \in Nat
  BY DEF LoopSound, Sound
<1>5. /\ Typed(ui', Nat) /\ ui'.selected = ui.selected /\ ui'.hint = ui.hint
      /\ ui'.category = ui.category /\ ui'.nodesPage = ui.nodesPage /\ ui'.screen = ui.screen
  BY <1>1, <1>2, <1>3, <1>4 DEF Typed, StateType
<1>6. Sound(ui', nodes, Nat)
  BY <1>5, KeptSound DEF LoopSound
<1>7. lag' \in Nat
  BY <1>1, <1>4
<1> QED
  BY <1>1, <1>6, <1>7, SameListSound

LEMMA StepLoopSound ==
  ASSUME LoopSound, [DisplayNext]_displayVars PROVE LoopSound' /\ SelectionKept
<1>1. lag \in Nat /\ Sound(ui, nodes, Nat) /\ AList(nodes)
  BY DEF LoopSound
<1>2. CASE Fetched
  <2>1. PICK L \in Lists \cup {nodes} : nodes' = L /\ ui' = DataRefreshed(ui, L) /\ lag' = lag
    BY <1>2 DEF Fetched, AfterAnswer
  <2>2. AList(L)
    BY <1>1 DEF AList
  <2>3. Sound(ui', nodes', Nat) /\ SelectionKept
    BY <1>1, <2>1, <2>2, DataRefreshedSound DEF Sound, SelectionKept
  <2> QED
    BY <1>1, <2>1, <2>2, <2>3 DEF LoopSound, Sound, AList
<1>3. CASE Inactivity
  <2>1. PICK menuOver, detailOver :
          ui' = IF finger # Up THEN ui ELSE InactivityTick(ui, menuOver, detailOver)
    BY <1>3 DEF Inactivity
  <2>2. Sound(ui', nodes, Nat)
    BY <1>1, <2>1, InactivityTickSound
  <2> QED
    BY <1>1, <1>3, <2>2, SameListSound DEF Inactivity
<1>4. CASE Render
  <2>1. ui' = AutoRotateTick(ui, nodes, RotationDue, lag)
    BY <1>4 DEF Render
  <2>2. Sound(ui', nodes, Nat)
    BY <1>1, <2>1, StepNodeSound DEF AutoRotateTick
  <2> QED
    BY <1>1, <1>4, <2>2, SameListSound DEF Render
<1>5. CASE RequestIsAccepted \/ RequestIsFailed
  <2>1. "timeout" \in PowerRequestError /\ 0 \in Nat
    BY DEF PowerRequestError
  <2>2. Sound(ui', nodes, Nat)
    BY <1>1, <1>5, <2>1, PowerEventsSound DEF RequestIsAccepted, RequestIsFailed, Answered
  <2> QED
    BY <1>1, <1>5, <2>2, SameListSound DEF RequestIsAccepted, RequestIsFailed, Answered
<1>6. CASE Wake \/ Finger \/ UNCHANGED displayVars
  <2>1. ui' = ui /\ nodes' = nodes /\ lag' \in {lag, 0}
    BY <1>6 DEF Wake, Finger, displayVars, vars, loop
  <2> QED
    BY <1>1, <2>1, SameListSound
<1> QED
  BY <1>2, <1>3, <1>4, <1>5, <1>6, InputDownSound, InputUpSound, TickSound
  DEF DisplayNext, Step

LEMMA LoopSoundness == DisplaySpec => []LoopSound
<1>1. LoopSound /\ [DisplayNext]_displayVars => LoopSound'
  BY StepLoopSound
<1> QED
  BY <1>1, InitLoopSound, PTL DEF DisplaySpec

\* In the loop too, whatever the finger does between two looks and however long the hub
\* takes, name and position of the selection name the same node.
THEOREM LoopSelectionAgrees == DisplaySpec => []SelectionAgrees
<1>1. LoopSound => SelectionAgrees
  BY SoundFits DEF LoopSound
<1> QED
  BY <1>1, LoopSoundness, PTL

\* No frame of the loop shows a category on a node that does not have it.
THEOREM LoopCategoryShown == DisplaySpec => []CategoryShown
<1>1. LoopSound => CategoryShown
  BY SoundFits DEF LoopSound
<1> QED
  BY <1>1, LoopSoundness, PTL

\* A finger finds every node on NODES, after any answers of the hub.
THEOREM LoopNodesReachable == DisplaySpec => []NodesReachable
<1>1. LoopSound => NodesReachable
  BY SoundFits DEF LoopSound
<1> QED
  BY <1>1, LoopSoundness, PTL

\* An answer of the hub takes no node from under the finger: the selection goes with
\* the node, not with its place.
THEOREM LoopKeepsTheSelection == DisplaySpec => RefreshKeepsSelection
<1>1. LoopSound /\ [DisplayNext]_displayVars => LoopSound' /\ [SelectionKept]_vars
  BY StepLoopSound
<1>2. DisplaySpec => [][SelectionKept]_vars
  BY <1>1, InitLoopSound, PTL DEF DisplaySpec
<1> QED
  BY <1>2 DEF RefreshKeepsSelection, SelectionKept

------------------------------------------------------------------------------
(* The reducer of the refinement: its operators are those of the loop          *)
(*                                                                            *)
(* Reducer is Ui with other times and points; what depends on neither is the  *)
(* same operator in both.                                                     *)

\* The names and numbers of the reducer.
LEMMA SameNames ==
  /\ Reducer!None = None /\ Reducer!NoAction = NoAction /\ Reducer!Hint = Hint
  /\ Reducer!Category = Category /\ Reducer!MenuPageCount = MenuPageCount
  /\ Reducer!NodesPageSize = NodesPageSize /\ Reducer!RowOf = RowOf
  /\ Reducer!PendingOf = PendingOf /\ Reducer!PowerRequestError = PowerRequestError
  BY DEF Reducer!None, None, Reducer!NoAction, NoAction, Reducer!Hint, Hint, Reducer!Category,
     Category, Reducer!MenuPageCount, MenuPageCount, Reducer!NodesPageSize, NodesPageSize,
     Reducer!RowOf, RowOf, Reducer!PendingOf, PendingOf, Reducer!PowerRequestError,
     PowerRequestError

\* The tables of what a touch means, and the pages of the menu.
LEMMA SameTables ==
  /\ Reducer!Footer = Footer /\ Reducer!ValuesGraph = ValuesGraph
  /\ Reducer!GraphFooter = GraphFooter /\ Reducer!MenuFooter = MenuFooter
  /\ \A page : Reducer!MenuTiles(page) = MenuTiles(page)
  /\ Reducer!NodesFooter = NodesFooter /\ Reducer!NodesRows = NodesRows
  /\ Reducer!System = System /\ Reducer!PowerConfirm = PowerConfirm
  /\ Reducer!PowerError = PowerError
  BY DEF Reducer!Footer, Footer, Reducer!ValuesGraph, ValuesGraph, Reducer!GraphFooter,
     GraphFooter, Reducer!MenuFooter, MenuFooter, Reducer!MenuTiles, MenuTiles,
     Reducer!NodesFooter, NodesFooter, Reducer!NodesRows, NodesRows, Reducer!System, System,
     Reducer!PowerConfirm, PowerConfirm, Reducer!PowerError, PowerError

\* The pages of the menu and of the node screen.
LEMMA SamePages ==
  /\ \A table, x, y : Reducer!At(table, x, y) = At(table, x, y)
  /\ \A i, n, d : Reducer!Move(i, n, d) = Move(i, n, d)
  /\ \A page : Reducer!NormalizeMenuPage(page) = NormalizeMenuPage(page)
  /\ \A page, n : Reducer!NormalizeNodesPage(page, n) = NormalizeNodesPage(page, n)
  /\ \A n : Reducer!NodesPageCount(n) = NodesPageCount(n)
  /\ \A page, n : Reducer!VisibleRows(page, n) = VisibleRows(page, n)
  /\ \A c : Reducer!MenuPageFor(c) = MenuPageFor(c)
<1>1. \A table, x, y : Reducer!At(table, x, y) = At(table, x, y)
  BY DEF Reducer!At, At, Reducer!Inside, Inside, Reducer!NoAction, NoAction
<1> QED
  BY <1>1, SameNames DEF Reducer!Move, Move, Reducer!NormalizeMenuPage, NormalizeMenuPage,
     Reducer!NormalizeNodesPage, NormalizeNodesPage, Reducer!NodesPageCount, NodesPageCount,
     Reducer!Normalize, Normalize, Reducer!AtMost, AtMost, Reducer!VisibleRows, VisibleRows,
     Reducer!MenuPageFor, MenuPageFor

\* What a point of the panel means.
LEMMA SameActionsAt ==
  /\ \A page, x, y : Reducer!MenuActionAt(page, x, y) = MenuActionAt(page, x, y)
  /\ \A page, n, x, y : Reducer!NodesActionAt(page, n, x, y) = NodesActionAt(page, n, x, y)
  BY SameNames, SameTables, SamePages
  DEF Reducer!MenuActionAt, MenuActionAt, Reducer!NodesActionAt, NodesActionAt

\* Where a node is in a list, and which one is selected.
LEMMA SameSelection ==
  /\ \A L, i : Reducer!NodeAt(L, i) = NodeAt(L, i)
  /\ \A L : Reducer!Ids(L) = Ids(L)
  /\ \A L, id : Reducer!IndexOf(L, id) = IndexOf(L, id)
  /\ \A L, id, n : Reducer!SelectedIndex(L, id, n) = SelectedIndex(L, id, n)
  /\ \A s, L : Reducer!SelectedNode(s, L) = SelectedNode(s, L)
  /\ \A L, id : Reducer!Rank(L, id) = Rank(L, id)
  /\ \A L, n : Reducer!OrderedId(L, n) = OrderedId(L, n)
  BY DEF Reducer!NodeAt, NodeAt, Reducer!Ids, Ids, Reducer!IndexOf, IndexOf,
     Reducer!SelectedIndex, SelectedIndex, Reducer!SelectedNode, SelectedNode,
     Reducer!Rank, Rank, Reducer!OrderedId, OrderedId, Reducer!Cardinality, Cardinality,
     Reducer!AtMost, AtMost

\* Which category a node shows.
LEMMA SameCategories ==
  /\ \A c : Reducer!CanOpenGraph(c) = CanOpenGraph(c)
  /\ \A s, node : Reducer!CategoryId(s, node) = CategoryId(s, node)
  BY DEF Reducer!CanOpenGraph, CanOpenGraph, Reducer!CategoryId, CategoryId,
     Reducer!DefaultCategory, DefaultCategory, Reducer!CategoryOrder, CategoryOrder

\* What a point means on the screen that is shown.
LEMMA SameVisible ==
  ASSUME NEW s, NEW L, NEW x, NEW y
  PROVE  Reducer!VisibleAction(s, L, x, y) = VisibleAction(s, L, x, y)
<1>1. Reducer!MenuAction(s, L, x, y) = MenuAction(s, L, x, y)
  BY SameNames, SameActionsAt, SameSelection DEF Reducer!MenuAction, MenuAction
<1>2. Reducer!SystemAction(x, y) = SystemAction(x, y)
  BY SameNames, SameTables, SamePages DEF Reducer!SystemAction, SystemAction
<1>3. Reducer!ConfirmAction(s, x, y) = ConfirmAction(s, x, y)
  BY SameNames, SameTables, SamePages DEF Reducer!ConfirmAction, ConfirmAction
<1>4. Reducer!PlainAction(s, L, x, y) = PlainAction(s, L, x, y)
  BY SameNames, SameTables, SamePages, SameSelection, SameCategories
  DEF Reducer!PlainAction, PlainAction
<1> QED
  BY <1>1, <1>2, <1>3, <1>4, SameNames, SameTables, SamePages, SameActionsAt, SameSelection,
     SameCategories
  DEF Reducer!VisibleAction, VisibleAction

\* The selection of another node.
LEMMA SameSelectNode ==
  ASSUME NEW s, NEW L, NEW i, NEW at
  PROVE  Reducer!SelectNode(s, L, i, at) = SelectNode(s, L, i, at)
<1> DEFINE chosen == [s EXCEPT !.selected = NodeAt(L, i).id, !.hint = i, !.rotatedAt = at]
           c == CategoryId(chosen, NodeAt(L, i))
<1>1. /\ Reducer!NodeAt(L, i) = NodeAt(L, i)
      /\ Reducer!SelectedNode(s, L) = SelectedNode(s, L)
      /\ \A node, t : Reducer!CategoryId(t, node) = CategoryId(t, node)
      /\ Reducer!CanOpenGraph(c) = CanOpenGraph(c)
      /\ Reducer!MenuPageFor(c) = MenuPageFor(c)
      /\ \A page : Reducer!NormalizeMenuPage(page) = NormalizeMenuPage(page)
  BY SamePages, SameSelection, SameCategories
<1> QED
  BY <1>1 DEF Reducer!SelectNode, SelectNode

\* The steps that presses are made of.
LEMMA SameSteps ==
  /\ \A s, L, d, at : Reducer!StepNode(s, L, d, at) = StepNode(s, L, d, at)
  /\ \A s, node, d : Reducer!StepMetric(s, node, d) = StepMetric(s, node, d)
  /\ \A s, node : Reducer!OpenMainMenu(s, node) = OpenMainMenu(s, node)
  /\ \A s, L : Reducer!OpenValues(s, L) = OpenValues(s, L)
  /\ \A s, L : Reducer!OpenNodes(s, L) = OpenNodes(s, L)
  /\ \A s : Reducer!ToSystem(s) = ToSystem(s)
  /\ \A s, at : Reducer!Touched(s, at) = Touched(s, at)
  /\ \A L, page, row : Reducer!RowNode(L, page, row) = RowNode(L, page, row)
  /\ \A action : Reducer!StepOf(action) = StepOf(action)
<1>1. \A s, L, d, at : Reducer!StepNode(s, L, d, at) = StepNode(s, L, d, at)
  BY SamePages, SameSelection, SameSelectNode DEF Reducer!StepNode, StepNode
<1>2. \A s, node, d : Reducer!StepMetric(s, node, d) = StepMetric(s, node, d)
  BY SamePages, SameCategories DEF Reducer!StepMetric, StepMetric
<1>3. \A s, node : Reducer!OpenMainMenu(s, node) = OpenMainMenu(s, node)
  BY SamePages, SameCategories DEF Reducer!OpenMainMenu, OpenMainMenu
<1>4. \A s, L : Reducer!OpenValues(s, L) = OpenValues(s, L)
  BY SameSelection, SameCategories DEF Reducer!OpenValues, OpenValues
<1>5. \A s, L : Reducer!OpenNodes(s, L) = OpenNodes(s, L)
  BY SameNames, SameSelection DEF Reducer!OpenNodes, OpenNodes
<1>6. \A s : Reducer!ToSystem(s) = ToSystem(s)
  BY SameNames DEF Reducer!ToSystem, ToSystem
<1>7. \A L, page, row : Reducer!RowNode(L, page, row) = RowNode(L, page, row)
  BY SameNames, SamePages, SameSelection DEF Reducer!RowNode, RowNode
<1> QED
  BY <1>1, <1>2, <1>3, <1>4, <1>5, <1>6, <1>7
  DEF Reducer!Touched, Touched, Reducer!StepOf, StepOf

\* What a press does on each screen.
LEMMA SamePresses ==
  ASSUME NEW t, NEW L, NEW action, NEW at
  PROVE  /\ Reducer!OverviewPress(t, L, action, at) = OverviewPress(t, L, action, at)
         /\ Reducer!MenuPress(t, L, action, at) = MenuPress(t, L, action, at)
         /\ Reducer!DetailPress(t, L, action, at) = DetailPress(t, L, action, at)
         /\ Reducer!NodesPress(t, L, action, at) = NodesPress(t, L, action, at)
         /\ Reducer!SystemPress(t, action) = SystemPress(t, action)
<1>1. Reducer!OverviewPress(t, L, action, at) = OverviewPress(t, L, action, at)
  BY SameSteps DEF Reducer!OverviewPress, OverviewPress
<1>2. Reducer!MenuPress(t, L, action, at) = MenuPress(t, L, action, at)
  BY SameNames, SamePages, SameSteps DEF Reducer!MenuPress, MenuPress
<1>3. Reducer!DetailPress(t, L, action, at) = DetailPress(t, L, action, at)
  BY SameSelection, SameSteps DEF Reducer!DetailPress, DetailPress
<1>4. Reducer!NodesPress(t, L, action, at) = NodesPress(t, L, action, at)
  BY SameNames, SamePages, SameSelection, SameSteps, SameSelectNode
  DEF Reducer!NodesPress, NodesPress
<1>5. Reducer!SystemPress(t, action) = SystemPress(t, action)
  BY SameNames DEF Reducer!SystemPress, SystemPress
<1> QED
  BY <1>1, <1>2, <1>3, <1>4, <1>5

\* Each event but the answer of the hub.
LEMMA SameEvents ==
  ASSUME NEW s, NEW L, NEW x, NEW y, NEW at, NEW e, NEW b, NEW c
  PROVE  /\ Reducer!ShortPress(s, L, x, y, at) = ShortPress(s, L, x, y, at)
         /\ Reducer!LongPress(s, L, x, y, at) = LongPress(s, L, x, y, at)
         /\ Reducer!RequestAccepted(s, at) = RequestAccepted(s, at)
         /\ Reducer!RequestFailed(s, e, at) = RequestFailed(s, e, at)
         /\ Reducer!HoldStarted(s, at) = HoldStarted(s, at)
         /\ Reducer!HoldTick(s, b, at) = HoldTick(s, b, at)
         /\ Reducer!HoldEnded(s, at) = HoldEnded(s, at)
         /\ Reducer!InactivityTick(s, b, c) = InactivityTick(s, b, c)
         /\ Reducer!AutoRotateTick(s, L, b, at) = AutoRotateTick(s, L, b, at)
<1>1. \A long : Reducer!PressIgnored(s, long, x, y) = PressIgnored(s, long, x, y)
  BY SameNames, SameTables, SamePages DEF Reducer!PressIgnored, PressIgnored
<1>2. Reducer!Pressed(s, L, x, y, at) = Pressed(s, L, x, y, at)
  BY SameVisible, SamePresses, SameSteps DEF Reducer!Pressed, Pressed
<1>3. Reducer!ShortPress(s, L, x, y, at) = ShortPress(s, L, x, y, at)
  BY <1>1, <1>2 DEF Reducer!ShortPress, ShortPress
<1>4. Reducer!LongPress(s, L, x, y, at) = LongPress(s, L, x, y, at)
  BY <1>1, SameVisible, SameSelection, SameSteps DEF Reducer!LongPress, LongPress
<1>5. /\ Reducer!RequestAccepted(s, at) = RequestAccepted(s, at)
      /\ Reducer!RequestFailed(s, e, at) = RequestFailed(s, e, at)
  BY SameNames DEF Reducer!RequestAccepted, RequestAccepted, Reducer!RequestFailed,
     RequestFailed, Reducer!AwaitsResult, AwaitsResult
<1>6. /\ Reducer!HoldStarted(s, at) = HoldStarted(s, at)
      /\ Reducer!HoldTick(s, b, at) = HoldTick(s, b, at)
      /\ Reducer!HoldEnded(s, at) = HoldEnded(s, at)
  BY SameNames DEF Reducer!HoldStarted, HoldStarted, Reducer!HoldTick, HoldTick,
     Reducer!HoldEnded, HoldEnded, Reducer!Confirming, Confirming
<1>7. Reducer!InactivityTick(s, b, c) = InactivityTick(s, b, c)
  BY SameSteps DEF Reducer!InactivityTick, InactivityTick
<1>8. Reducer!AutoRotateTick(s, L, b, at) = AutoRotateTick(s, L, b, at)
  BY SameSteps DEF Reducer!AutoRotateTick, AutoRotateTick, Reducer!AutoRotates, AutoRotates
<1> QED
  BY <1>3, <1>4, <1>5, <1>6, <1>7, <1>8

\* The answer of the hub.
LEMMA SameRefresh ==
  ASSUME NEW s, NEW L
  PROVE  Reducer!DataRefreshed(s, L) = DataRefreshed(s, L)
<1>1. \A t : Reducer!NoSelection(t) = NoSelection(t)
  BY DEF Reducer!NoSelection, NoSelection
<1>2. \A t, node : Reducer!FollowCategory(t, node) = FollowCategory(t, node)
  BY SameNames, SamePages, SameCategories, SameSteps DEF Reducer!FollowCategory, FollowCategory
<1>3. Reducer!RefreshNodesScreen(s, L) = RefreshNodesScreen(s, L)
  BY <1>1, SamePages, SameSelection DEF Reducer!RefreshNodesScreen, RefreshNodesScreen
<1>4. Reducer!RefreshOtherScreen(s, L) = RefreshOtherScreen(s, L)
  BY <1>1, <1>2, SameSelection DEF Reducer!RefreshOtherScreen, RefreshOtherScreen
<1> QED
  BY <1>3, <1>4 DEF Reducer!DataRefreshed, DataRefreshed

------------------------------------------------------------------------------
(* Forgetting times and taking an event can be swapped: no event reads a time,  *)
(* except whether there is a hold                                              *)

\* Forgetting the times keeps everything else.
LEMMA TimelessFields ==
  ASSUME NEW s, DOMAIN s = Fields
  PROVE  /\ DOMAIN Timeless(s) = Fields
         /\ Timeless(s).screen = s.screen /\ Timeless(s).selected = s.selected
         /\ Timeless(s).hint = s.hint /\ Timeless(s).category = s.category
         /\ Timeless(s).metrics = s.metrics /\ Timeless(s).menuPage = s.menuPage
         /\ Timeless(s).nodesPage = s.nodesPage /\ Timeless(s).pending = s.pending
         /\ Timeless(s).status = s.status /\ Timeless(s).error = s.error
         /\ Timeless(s).holdAt = IF s.holdAt = NoTime THEN NoTime ELSE 0
         /\ \A node : CategoryId(Timeless(s), node) = CategoryId(s, node)
         /\ \A L : SelectedNode(Timeless(s), L) = SelectedNode(s, L)
  BY DEF Timeless, Fields, CategoryId, SelectedNode

\* The steps that presses are made of.
LEMMA TimelessSteps ==
  ASSUME NEW s, DOMAIN s = Fields, NEW at, NEW node, NEW L, NEW d
  PROVE  /\ Timeless(Touched(s, at)) = Touched(Timeless(s), 0)
         /\ Timeless(ToSystem(s)) = ToSystem(Timeless(s))
         /\ Timeless(OpenMainMenu(s, node)) = OpenMainMenu(Timeless(s), node)
         /\ Timeless(OpenValues(s, L)) = OpenValues(Timeless(s), L)
         /\ Timeless(OpenNodes(s, L)) = OpenNodes(Timeless(s), L)
         /\ Timeless(StepMetric(s, node, d)) = StepMetric(Timeless(s), node, d)
<1>1. Timeless(Touched(s, at)) = Touched(Timeless(s), 0)
  BY DEF Timeless, Touched, Fields
<1>2. Timeless(ToSystem(s)) = ToSystem(Timeless(s))
  BY DEF Timeless, ToSystem, Fields
<1>3. Timeless(OpenMainMenu(s, node)) = OpenMainMenu(Timeless(s), node)
  BY ZenonT(60) DEF OpenMainMenu, CategoryId, Timeless, Fields
<1>4. Timeless(OpenValues(s, L)) = OpenValues(Timeless(s), L)
  <2> DEFINE Put(t, id, i, c) ==
               [t EXCEPT !.selected = id, !.hint = i, !.category = c, !.screen = "values"]
             To(t, i) == Put(t, NodeAt(L, i).id, i, CategoryId(t, NodeAt(L, i)))
  <2>1. \A t : OpenValues(t, L) = To(t, SelectedIndex(L, t.selected, t.hint))
    BY DEF OpenValues
  <2>2. ASSUME NEW id, NEW i, NEW c
        PROVE  Timeless(Put(s, id, i, c)) = Put(Timeless(s), id, i, c)
    BY DEF Timeless, Fields
  <2> HIDE DEF Put
  <2> QED
    BY <2>1, <2>2, TimelessFields
<1>5. Timeless(OpenNodes(s, L)) = OpenNodes(Timeless(s), L)
  BY ZenonT(60) DEF OpenNodes, Timeless, Fields
<1>6. Timeless(StepMetric(s, node, d)) = StepMetric(Timeless(s), node, d)
  BY ZenonT(60) DEF StepMetric, CategoryId, Timeless, Fields
<1> QED
  BY <1>1, <1>2, <1>3, <1>4, <1>5, <1>6

\* The selection of another node.
LEMMA TimelessSelect ==
  ASSUME NEW s, NEW L, NEW i, NEW at, DOMAIN s = Fields
  PROVE  /\ Timeless(SelectNode(s, L, i, at)) = SelectNode(Timeless(s), L, i, 0)
         /\ DOMAIN SelectNode(s, L, i, at) = Fields
<1> DEFINE Chosen(t, m) == [t EXCEPT !.selected = NodeAt(L, i).id, !.hint = i, !.rotatedAt = m]
           Page(screen, page, c, before) ==
             IF screen # "main_menu" THEN page
             ELSE IF c # before THEN MenuPageFor(c) ELSE NormalizeMenuPage(page)
           Shown(screen, c) == IF screen = "graph" /\ ~CanOpenGraph(c) THEN "values" ELSE screen
           Put(t, c, page, screen) ==
             [t EXCEPT !.category = c, !.menuPage = page, !.screen = screen]
           Follow(t, screen, c, before) ==
             Put(t, c, Page(screen, t.menuPage, c, before), Shown(t.screen, c))
           Made(t, m) ==
             IF t.screen \notin {"main_menu", "values", "graph"} THEN Chosen(t, m)
             ELSE Follow(Chosen(t, m), t.screen, CategoryId(Chosen(t, m), NodeAt(L, i)),
                         CategoryId(t, SelectedNode(t, L)))
<1>1. DOMAIN Chosen(s, at) = Fields
  OBVIOUS
<1>2. Timeless(Chosen(s, at)) = Chosen(Timeless(s), 0)
  <2> DEFINE id == NodeAt(L, i).id
  <2> HIDE DEF id
  <2> QED BY DEF Timeless, Fields
<1>3. ASSUME NEW t, DOMAIN t = Fields, NEW m PROVE SelectNode(t, L, i, m) = Made(t, m)
  BY <1>3 DEF SelectNode, Fields
<1>4. ASSUME NEW t, DOMAIN t = Fields, NEW c, NEW page, NEW screen
      PROVE  /\ Timeless(Put(t, c, page, screen)) = Put(Timeless(t), c, page, screen)
             /\ DOMAIN Put(t, c, page, screen) = Fields
  BY <1>4 DEF Timeless, Fields
<1> HIDE DEF Chosen, Page, Shown, Put
<1>5. Timeless(Made(s, at)) = Made(Timeless(s), 0) /\ DOMAIN Made(s, at) = Fields
  BY <1>1, <1>2, <1>4, TimelessFields
<1> QED
  BY <1>3, <1>5, TimelessFields

\* The next or previous node.
LEMMA TimelessStep ==
  ASSUME NEW s, NEW L, NEW d, NEW at, DOMAIN s = Fields
  PROVE  Timeless(StepNode(s, L, d, at)) = StepNode(Timeless(s), L, d, 0)
  BY TimelessSelect, TimelessFields DEF StepNode

\* The category after another node is selected.
LEMMA TimelessFollow ==
  ASSUME NEW s, NEW node, DOMAIN s = Fields
  PROVE  Timeless(FollowCategory(s, node)) = FollowCategory(Timeless(s), node)
<1> DEFINE Show(t, screen) == [t EXCEPT !.screen = screen]
           Turn(t, page) == [t EXCEPT !.menuPage = page]
           Made(t) ==
             CASE t.screen = "main_menu"
                    -> IF t.category \in node.cats THEN Turn(t, NormalizeMenuPage(t.menuPage))
                       ELSE OpenMainMenu(t, node)
               [] t.screen \in {"values", "graph"} /\ t.category \notin node.cats
                    -> Show(t, "overview")
               [] t.screen = "graph" /\ t.category \in node.cats /\ ~CanOpenGraph(t.category)
                    -> Show(t, "values")
               [] OTHER -> t
<1>1. ASSUME NEW t PROVE FollowCategory(t, node) = Made(t)
  BY DEF FollowCategory
<1>2. ASSUME NEW v
      PROVE  /\ Timeless(Show(s, v)) = Show(Timeless(s), v)
             /\ Timeless(Turn(s, v)) = Turn(Timeless(s), v)
  BY DEF Timeless, Fields
<1>3. Timeless(OpenMainMenu(s, node)) = OpenMainMenu(Timeless(s), node)
  BY TimelessSteps
<1>4. /\ Timeless(s).screen = s.screen /\ Timeless(s).category = s.category
      /\ Timeless(s).menuPage = s.menuPage
  BY TimelessFields
<1> HIDE DEF Show, Turn
<1>5. Timeless(Made(s)) = Made(Timeless(s))
  BY <1>2, <1>3, <1>4
<1> QED
  BY <1>1, <1>5

\* An answer of the hub.
LEMMA TimelessRefresh ==
  ASSUME NEW s, NEW L, DOMAIN s = Fields
  PROVE  Timeless(DataRefreshed(s, L)) = DataRefreshed(Timeless(s), L)
<1>1. Timeless(RefreshNodesScreen(s, L)) = RefreshNodesScreen(Timeless(s), L)
  <2>1. CASE L = <<>>
    BY ZenonT(60), <2>1 DEF RefreshNodesScreen, NoSelection, Timeless, Fields
  <2>2. CASE L # <<>>
    <3> DEFINE Put(t, id, page) ==
                 [t EXCEPT !.selected = id, !.hint = IndexOf(L, id), !.nodesPage = page]
               Id(selected) == IF selected \in Ids(L) THEN selected ELSE OrderedId(L, 0)
               Page(selected, page) ==
                 IF selected \in Ids(L) THEN NormalizeNodesPage(page, Len(L)) ELSE 0
    <3>1. ASSUME NEW t
          PROVE  RefreshNodesScreen(t, L) = Put(t, Id(t.selected), Page(t.selected, t.nodesPage))
      BY <2>2 DEF RefreshNodesScreen
    <3>2. ASSUME NEW id, NEW page PROVE Timeless(Put(s, id, page)) = Put(Timeless(s), id, page)
      BY DEF Timeless, Fields
    <3> HIDE DEF Put, Id, Page
    <3> QED
      BY <3>1, <3>2, TimelessFields
  <2> QED
    BY <2>1, <2>2
<1>2. Timeless(RefreshOtherScreen(s, L)) = RefreshOtherScreen(Timeless(s), L)
  <2>1. CASE L = <<>>
    <3> DEFINE Put(t, screen) == [NoSelection(t) EXCEPT !.screen = screen]
               Shown(screen) ==
                 IF screen \in {"main_menu", "values", "graph"} THEN "overview" ELSE screen
    <3>1. ASSUME NEW t PROVE RefreshOtherScreen(t, L) = Put(t, Shown(NoSelection(t).screen))
      BY <2>1 DEF RefreshOtherScreen
    <3>2. ASSUME NEW t, DOMAIN t = Fields PROVE NoSelection(t).screen = t.screen
      BY <3>2 DEF NoSelection, Fields
    <3>3. ASSUME NEW v PROVE Timeless(Put(s, v)) = Put(Timeless(s), v)
      BY DEF NoSelection, Timeless, Fields
    <3> HIDE DEF Put, Shown
    <3> QED
      BY <3>1, <3>2, <3>3, TimelessFields
  <2>2. CASE L # <<>>
    <3> DEFINE Chosen(t, i) == [t EXCEPT !.selected = NodeAt(L, i).id, !.hint = i]
    <3>1. ASSUME NEW t
          PROVE  RefreshOtherScreen(t, L) =
                   FollowCategory(Chosen(t, SelectedIndex(L, t.selected, t.hint)),
                                  NodeAt(L, SelectedIndex(L, t.selected, t.hint)))
      BY <2>2 DEF RefreshOtherScreen
    <3>2. ASSUME NEW i
          PROVE  DOMAIN Chosen(s, i) = Fields /\ Timeless(Chosen(s, i)) = Chosen(Timeless(s), i)
      <4> DEFINE id == NodeAt(L, i).id
      <4> HIDE DEF id
      <4> QED BY DEF Timeless, Fields
    <3> HIDE DEF Chosen
    <3> QED
      BY <3>1, <3>2, TimelessFollow, TimelessFields
  <2> QED
    BY <2>1, <2>2
<1> QED
  BY <1>1, <1>2, TimelessFields DEF DataRefreshed

\* What a point means.
LEMMA TimelessVisible ==
  ASSUME NEW s, NEW L, NEW x, NEW y, DOMAIN s = Fields
  PROVE  VisibleAction(Timeless(s), L, x, y) = VisibleAction(s, L, x, y)
  BY TimelessFields DEF VisibleAction, MenuAction, ConfirmAction, PlainAction

\* A press on each screen.
LEMMA TimelessPresses ==
  ASSUME NEW s, NEW L, NEW action, NEW at, DOMAIN s = Fields
  PROVE  /\ Timeless(OverviewPress(s, L, action, at)) = OverviewPress(Timeless(s), L, action, 0)
         /\ Timeless(MenuPress(s, L, action, at)) = MenuPress(Timeless(s), L, action, 0)
         /\ Timeless(DetailPress(s, L, action, at)) = DetailPress(Timeless(s), L, action, 0)
         /\ Timeless(NodesPress(s, L, action, at)) = NodesPress(Timeless(s), L, action, 0)
         /\ Timeless(SystemPress(s, action)) = SystemPress(Timeless(s), action)
<1> DEFINE Show(t, screen) == [t EXCEPT !.screen = screen]
           TurnMenu(t, page) == [t EXCEPT !.menuPage = page]
           TurnNodes(t, page) == [t EXCEPT !.nodesPage = page]
           Back(t, page) == [t EXCEPT !.screen = "main_menu", !.menuPage = page]
           Open(t, c) == [t EXCEPT !.category = c, !.screen = "values"]
           Ask(t, pending) == [t EXCEPT !.screen = "power_confirm", !.pending = pending,
                                        !.holdAt = NoTime, !.status = None, !.error = None]
<1>1. ASSUME NEW t, DOMAIN t = Fields, NEW v
      PROVE  /\ Timeless(Show(t, v)) = Show(Timeless(t), v)
             /\ Timeless(TurnMenu(t, v)) = TurnMenu(Timeless(t), v)
             /\ Timeless(TurnNodes(t, v)) = TurnNodes(Timeless(t), v)
             /\ Timeless(Back(t, v)) = Back(Timeless(t), v)
             /\ Timeless(Open(t, v)) = Open(Timeless(t), v)
             /\ Timeless(Ask(t, v)) = Ask(Timeless(t), v)
  BY ZenonT(60), <1>1 DEF Timeless, Fields
<1> HIDE DEF Show, TurnMenu, TurnNodes, Back, Open, Ask
<1>2. Timeless(OverviewPress(s, L, action, at)) = OverviewPress(Timeless(s), L, action, 0)
  BY TimelessStep, TimelessSteps DEF OverviewPress
<1>3. Timeless(MenuPress(s, L, action, at)) = MenuPress(Timeless(s), L, action, 0)
  <2> DEFINE Made(t, m) ==
        CASE action \in {"previous", "next"}      -> StepNode(t, L, StepOf(action), m)
          [] action \in {"menu_previous_page", "menu_next_page"}
               -> TurnMenu(t, Move(NormalizeMenuPage(t.menuPage), MenuPageCount, StepOf(action)))
          [] action = "menu_back"                 -> Show(t, "overview")
          [] action = "nodes"                     -> OpenNodes(t, L)
          [] action = "system"                    -> Show(t, "system")
          [] action \in Category                  -> Open(t, action)
          [] OTHER                                -> t
  <2>1. ASSUME NEW t, NEW m PROVE MenuPress(t, L, action, m) = Made(t, m)
    BY DEF MenuPress, Show, TurnMenu, Open
  <2>2. Timeless(Made(s, at)) = Made(Timeless(s), 0)
    BY <1>1, TimelessStep, TimelessSteps, TimelessFields
  <2> QED
    BY <2>1, <2>2
<1>4. Timeless(DetailPress(s, L, action, at)) = DetailPress(Timeless(s), L, action, 0)
  <2> DEFINE Made(t, m) ==
        CASE action \in {"previous", "next"}      -> StepNode(t, L, StepOf(action), m)
          [] action \in {"graph_previous_metric", "graph_next_metric"}
               -> StepMetric(t, SelectedNode(t, L), StepOf(action))
          [] action = "graph_values"              -> Show(t, "values")
          [] action = "open_graph"                -> Show(t, "graph")
          [] action = "center"                    -> Show(t, "overview")
          [] OTHER                                -> t
  <2>1. ASSUME NEW t, NEW m PROVE DetailPress(t, L, action, m) = Made(t, m)
    BY DEF DetailPress, Show
  <2>2. Timeless(Made(s, at)) = Made(Timeless(s), 0)
    BY <1>1, TimelessStep, TimelessSteps, TimelessFields
  <2> QED
    BY <2>1, <2>2
<1>5. Timeless(NodesPress(s, L, action, at)) = NodesPress(Timeless(s), L, action, 0)
  <2> DEFINE Made(t, m) ==
        CASE action \in {"nodes_previous_page", "nodes_next_page"}
               -> TurnNodes(t, Move(NormalizeNodesPage(t.nodesPage, Len(L)),
                                    NodesPageCount(Len(L)), StepOf(action)))
          [] action = "nodes_back"                -> Back(t, 0)
          [] action \in DOMAIN RowOf
               -> Show(SelectNode(t, L, IndexOf(L, RowNode(L, t.nodesPage, action)), m),
                       "overview")
          [] OTHER                                -> t
  <2>1. ASSUME NEW t, NEW m PROVE NodesPress(t, L, action, m) = Made(t, m)
    BY DEF NodesPress, Show, TurnNodes, Back
  <2>2. Timeless(Made(s, at)) = Made(Timeless(s), 0)
    BY <1>1, TimelessSelect, TimelessFields
  <2> QED
    BY <2>1, <2>2
<1>6. Timeless(SystemPress(s, action)) = SystemPress(Timeless(s), action)
  <2> DEFINE Made(t) ==
        CASE action \in DOMAIN PendingOf -> Ask(t, PendingOf[action])
          [] action = "system_back"      -> Back(t, 1)
          [] OTHER                       -> t
  <2>1. ASSUME NEW t PROVE SystemPress(t, action) = Made(t)
    BY DEF SystemPress, Ask, Back
  <2>2. Timeless(Made(s)) = Made(Timeless(s))
    BY <1>1
  <2> QED
    BY <2>1, <2>2
<1> QED
  BY <1>2, <1>3, <1>4, <1>5, <1>6

\* A press that does nothing else records when it was.
LEMMA TimelessTouch ==
  ASSUME NEW s, NEW at, DOMAIN s = Fields
  PROVE  Timeless(Touched(s, at)) = Timeless(s)
  BY DEF Timeless, Touched, Fields

\* A short and a long press.
LEMMA TimelessPress ==
  ASSUME NEW s, NEW L, NEW x, NEW y, NEW at, DOMAIN s = Fields
  PROVE  /\ Timeless(ShortPress(s, L, x, y, at)) = ShortPress(Timeless(s), L, x, y, 0)
         /\ Timeless(LongPress(s, L, x, y, at)) = LongPress(Timeless(s), L, x, y, 0)
<1> DEFINE t == Touched(s, at)
           action == VisibleAction(s, L, x, y)
<1>1. DOMAIN t = Fields /\ Timeless(t) = Touched(Timeless(s), 0)
  BY TouchedPlain, TimelessSteps DEF Plain
<1>2. /\ Timeless(s).screen = s.screen /\ SelectedNode(Timeless(s), L) = SelectedNode(s, L)
      /\ VisibleAction(Timeless(s), L, x, y) = action
  BY TimelessFields, TimelessVisible
<1>3. \A long : PressIgnored(Timeless(s), long, x, y) = PressIgnored(s, long, x, y)
  BY <1>2 DEF PressIgnored
<1> HIDE DEF t, action
<1>4. /\ Timeless(ToSystem(t)) = ToSystem(Timeless(t))
      /\ \A node : Timeless(OpenMainMenu(t, node)) = OpenMainMenu(Timeless(t), node)
  BY <1>1, TimelessSteps
<1>5. Timeless(Pressed(s, L, x, y, at)) = Pressed(Timeless(s), L, x, y, 0)
  BY <1>1, <1>2, <1>4, TimelessPresses DEF Pressed, t, action
<1>6. Timeless(LongPress(s, L, x, y, at)) = LongPress(Timeless(s), L, x, y, 0)
  BY <1>1, <1>2, <1>3, <1>4 DEF LongPress, t, action
<1> QED
  BY <1>3, <1>5, <1>6 DEF ShortPress

\* A hold, which begins at a time and not at NoTime.
LEMMA TimelessHold ==
  ASSUME NEW s, NEW b, NEW at \in Nat, DOMAIN s = Fields
  PROVE  /\ Timeless(HoldStarted(s, at)) = HoldStarted(Timeless(s), 0)
         /\ Timeless(HoldTick(s, b, at)) = HoldTick(Timeless(s), b, 0)
         /\ Timeless(HoldEnded(s, at)) = HoldEnded(Timeless(s), 0)
<1>1. at # NoTime /\ 0 # NoTime
  BY TimesAreNat
<1> QED
  BY ZenonT(60), <1>1 DEF HoldStarted, HoldTick, HoldEnded, Confirming, Timeless, Fields

\* What becomes of a request.
LEMMA TimelessResult ==
  ASSUME NEW s, NEW e, NEW at, DOMAIN s = Fields
  PROVE  /\ Timeless(RequestAccepted(s, at)) = RequestAccepted(Timeless(s), 0)
         /\ Timeless(RequestFailed(s, e, at)) = RequestFailed(Timeless(s), e, 0)
  BY ZenonT(60) DEF RequestAccepted, RequestFailed, AwaitsResult, Timeless, Fields

\* The timeouts and the rotation.
LEMMA TimelessTicks ==
  ASSUME NEW s, NEW L, NEW a, NEW b, NEW at, DOMAIN s = Fields
  PROVE  /\ Timeless(InactivityTick(s, a, b)) = InactivityTick(Timeless(s), a, b)
         /\ Timeless(AutoRotateTick(s, L, a, at)) = AutoRotateTick(Timeless(s), L, a, 0)
<1>1. Timeless([s EXCEPT !.screen = "overview"]) = [Timeless(s) EXCEPT !.screen = "overview"]
  BY DEF Timeless, Fields
<1>2. Timeless(InactivityTick(s, a, b)) = InactivityTick(Timeless(s), a, b)
  BY <1>1, TimelessSteps, TimelessFields DEF InactivityTick
<1>3. Timeless(AutoRotateTick(s, L, a, at)) = AutoRotateTick(Timeless(s), L, a, 0)
  BY TimelessStep, TimelessFields DEF AutoRotateTick, AutoRotates
<1> QED
  BY <1>2, <1>3

------------------------------------------------------------------------------
(* The points of a press *)

\* what comes before a place when values are put in order, equal ones by their place
Before(xs, i) == {j \in DOMAIN xs : xs[j] < xs[i] \/ (xs[j] = xs[i] /\ j < i)}

\* What comes before the earlier of two comes before the later.
LEMMA BeforeGrows ==
  ASSUME NEW xs \in Seq(Int), NEW i \in DOMAIN xs, NEW j \in DOMAIN xs, i \in Before(xs, j)
  PROVE  Before(xs, i) \subseteq Before(xs, j) \ {i}
<1>1. \A k \in DOMAIN xs : xs[k] \in Int /\ k \in Int
  OBVIOUS
<1> QED
  BY <1>1 DEF Before

\* There is a k-th smallest: the places before each value count all of 0..n-1, so one
\* place has k-1 of them before it, and its value is what Kth chooses.
LEMMA KthFound ==
  ASSUME NEW xs \in Seq(Int), NEW k \in 1..Len(xs)
  PROVE  \E i \in DOMAIN xs : Kth(xs, k) = xs[i]
<1> DEFINE D == DOMAIN xs
           T == 0..(Len(xs) - 1)
           f == [i \in D |-> Cardinality(Before(xs, i))]
<1>1. /\ Len(xs) \in Nat /\ D = 1..Len(xs)
      /\ \A i \in D : xs[i] \in Int /\ i \in Int
  OBVIOUS
<1>2. IsFiniteSet(D) /\ Cardinality(D) = Len(xs)
  <2>1. Len(xs) \in Nat /\ D = 1..Len(xs)
    BY <1>1
  <2> HIDE DEF D, T, f
  <2> QED
    BY <2>1, UpTo
<1>3. ASSUME NEW i \in D
      PROVE  /\ Before(xs, i) \subseteq D \ {i}
             /\ IsFiniteSet(Before(xs, i)) /\ Cardinality(Before(xs, i)) \in T
  <2>1. Before(xs, i) \subseteq D \ {i}
    BY <1>1 DEF Before
  <2>2. IsFiniteSet(D \ {i}) /\ Cardinality(D \ {i}) = Len(xs) - 1
    BY <1>2, FS_RemoveElement
  <2>3. IsFiniteSet(Before(xs, i)) /\ Cardinality(Before(xs, i)) <= Len(xs) - 1
    BY <2>1, <2>2, FS_Subset
  <2>4. Cardinality(Before(xs, i)) \in Nat
    BY <2>3, FS_CardinalityType
  <2> QED
    BY <1>1, <2>1, <2>3, <2>4
<1>4. ASSUME NEW i \in D, NEW j \in D, i \in Before(xs, j) PROVE f[i] # f[j]
  <2>1. Before(xs, i) \subseteq Before(xs, j) /\ Before(xs, i) # Before(xs, j)
    BY <1>4, BeforeGrows
  <2>2. Cardinality(Before(xs, i)) # Cardinality(Before(xs, j))
    BY <1>3, <2>1, FS_Subset
  <2> QED
    BY <2>2
<1>5. \A i, j \in D : f[i] = f[j] => i = j
  <2> SUFFICES ASSUME NEW i \in D, NEW j \in D, i # j PROVE f[i] # f[j]
    OBVIOUS
  <2>1. i \in Before(xs, j) \/ j \in Before(xs, i)
    BY <1>1 DEF Before
  <2> QED
    BY <1>4, <2>1
<1>6. \E i \in D : f[i] = k - 1
  <2>1. f \in [D -> T]
    BY <1>3
  <2>2. f \in Injection(D, T)
    <3> HIDE DEF f, T, D
    <3> QED BY <1>5, <2>1 DEF Injection, IsInjective
  <2>3. IsFiniteSet(T) /\ Cardinality(T) = Cardinality(D)
    <3>1. 0 \in Int /\ Len(xs) - 1 \in Int
      BY <1>1
    <3>2. /\ IsFiniteSet(0..(Len(xs) - 1))
          /\ Cardinality(0..(Len(xs) - 1)) =
               IF 0 > Len(xs) - 1 THEN 0 ELSE (Len(xs) - 1) - 0 + 1
      BY <3>1, FS_Interval
    <3> QED BY <1>1, <1>2, <3>2
  <2>4. k - 1 \in T
    BY <1>1
  <2> HIDE DEF f, T, D
  <2>5. f \in Surjection(D, T)
    BY <1>2, <2>2, <2>3, FS_Injection
  <2> QED
    BY <2>4, <2>5 DEF Surjection
<1>7. PICK i \in D : Cardinality(Before(xs, i)) = k - 1
  BY <1>6
<1> DEFINE less == {j \in D : xs[j] < xs[i]}
           upTo == {j \in D : xs[j] <= xs[i]}
<1>8. /\ IsFiniteSet(less) /\ Cardinality(less) \in Nat
      /\ IsFiniteSet(upTo) /\ Cardinality(upTo) \in Nat
  <2>1. less \subseteq D /\ upTo \subseteq D
    OBVIOUS
  <2> HIDE DEF less, upTo, D
  <2> QED
    BY <1>2, <2>1, FS_Subset, FS_CardinalityType
<1>9. Cardinality(less) < k
  <2>1. less \subseteq Before(xs, i)
    BY DEF Before
  <2>2. Cardinality(less) <= Cardinality(Before(xs, i))
    <3> HIDE DEF less
    <3> QED BY <1>3, <2>1, FS_Subset
  <2> HIDE DEF less
  <2> QED
    BY <1>1, <1>7, <1>8, <2>2
<1>10. k <= Cardinality(upTo)
  <2>1. Before(xs, i) \cup {i} \subseteq upTo
    BY <1>1 DEF Before
  <2>2. Cardinality(Before(xs, i) \cup {i}) = k /\ IsFiniteSet(Before(xs, i) \cup {i})
    <3>1. i \notin Before(xs, i) /\ IsFiniteSet(Before(xs, i))
      BY <1>3
    <3>2. Cardinality(Before(xs, i) \cup {i}) = Cardinality(Before(xs, i)) + 1
      BY <3>1, FS_AddElement
    <3>3. IsFiniteSet(Before(xs, i) \cup {i})
      BY <3>1, FS_AddElement
    <3> QED BY <1>1, <1>7, <3>2, <3>3
  <2> HIDE DEF upTo
  <2> QED
    BY <1>8, <2>1, <2>2, FS_Subset
<1> DEFINE V == {xs[j] : j \in DOMAIN xs}
           Is(v) == /\ Cardinality({j \in DOMAIN xs : xs[j] < v}) < k
                    /\ k <= Cardinality({j \in DOMAIN xs : xs[j] <= v})
<1>11. xs[i] \in V /\ Is(xs[i])
  BY <1>9, <1>10
<1>12. Kth(xs, k) = CHOOSE v \in V : Is(v)
  BY DEF Kth
<1> HIDE DEF Is
<1>13. Kth(xs, k) \in V
  BY <1>11, <1>12
<1> QED
  BY <1>13

\* A press is reported half way between points the finger was at.
LEMMA PositionFound ==
  ASSUME NEW points \in Seq(Points), points # <<>>
  PROVE  Position(points) \in Between
<1> DEFINE n == Len(points)
           xs == [i \in DOMAIN points |-> points[i][1]]
           ys == [i \in DOMAIN points |-> points[i][2]]
           low == (n + 1) \div 2
           high == n \div 2 + 1
<1>1. /\ n \in Nat \ {0} /\ DOMAIN points = 1..n
      /\ \A i \in 1..n : points[i] \in Points /\ points[i][1] \in Int /\ points[i][2] \in Int
  <2>1. \A i \in DOMAIN points : points[i] \in Points
    OBVIOUS
  <2>2. \A p \in Points : p[1] \in Int /\ p[2] \in Int
    BY UiAssumption
  <2> QED
    BY <2>1, <2>2
<1>2. xs \in Seq(Int) /\ Len(xs) = n /\ ys \in Seq(Int) /\ Len(ys) = n
  BY <1>1
<1>3. low \in 1..n /\ high \in 1..n
  BY <1>1
<1>4. /\ DOMAIN xs = 1..n /\ DOMAIN ys = 1..n
      /\ \A i \in 1..n : xs[i] = points[i][1] /\ ys[i] = points[i][2]
  BY <1>1
<1>5. Position(points) = <<Median(xs), Median(ys)>>
  BY DEF Position
<1> HIDE DEF n, xs, ys, low, high
<1>6. ASSUME NEW zs \in Seq(Int), Len(zs) = n, NEW k \in 1..n
      PROVE  \E i \in 1..n : Kth(zs, k) = zs[i]
  <2>1. DOMAIN zs = 1..n
    BY <1>6
  <2> QED
    BY <1>6, <2>1, KthFound
<1>7. /\ \E p \in 1..n : Kth(xs, low) = xs[p]
      /\ \E q \in 1..n : Kth(xs, high) = xs[q]
      /\ \E r \in 1..n : Kth(ys, low) = ys[r]
      /\ \E s \in 1..n : Kth(ys, high) = ys[s]
  BY <1>2, <1>3, <1>6
<1>8. PICK p \in 1..n, q \in 1..n, r \in 1..n, s \in 1..n :
        /\ Kth(xs, low) = xs[p] /\ Kth(xs, high) = xs[q]
        /\ Kth(ys, low) = ys[r] /\ Kth(ys, high) = ys[s]
  BY <1>7
<1>9. /\ Median(xs) = HalfOf(points[p][1] + points[q][1])
      /\ Median(ys) = HalfOf(points[r][2] + points[s][2])
  BY <1>2, <1>4, <1>8 DEF Median, low, high
<1> QED
  BY <1>1, <1>5, <1>9 DEF Between

------------------------------------------------------------------------------
(* A step of the loop is an event of the reducer, or none *)

\* what the mapping needs to know of times and of the points of a press
MapInv ==
  /\ lag \in Nat
  /\ ui.holdAt \in Nat \cup {NoTime}
  /\ finger \in Points \cup {Up}
  /\ rec.points \in Seq(Points)
  /\ rec.state \in {"pressed", "long_emitted"} => rec.points # <<>>

\* t is the present state, or what an event of the reducer makes of it, but for its times
Reduces(t) ==
  \/ Timeless(t) = Timeless(ui)
  \/ \E p \in Between :
       Timeless(t) \in {ShortPress(Timeless(ui), nodes, p[1], p[2], 0),
                        LongPress(Timeless(ui), nodes, p[1], p[2], 0)}
  \/ \E complete \in BOOLEAN :
       Timeless(t) \in {HoldStarted(Timeless(ui), 0), HoldTick(Timeless(ui), complete, 0),
                        HoldEnded(Timeless(ui), 0)}
  \/ Timeless(t) = RequestAccepted(Timeless(ui), 0)
  \/ \E e \in PowerRequestError : Timeless(t) = RequestFailed(Timeless(ui), e, 0)
  \/ \E a, b \in BOOLEAN : Timeless(t) = InactivityTick(Timeless(ui), a, b)
  \/ Timeless(t) = AutoRotateTick(Timeless(ui), nodes, TRUE, 0)

\* The mapping of a step is a step of the reducer's specification, or a stutter.
LEMMA ReducesIsStep ==
  ASSUME Reduces(ui'), UNCHANGED <<nodes, enabled>>
  PROVE  [Reducer!UiNext]_(Reducer!vars)
<1>1. CASE Timeless(ui') = Timeless(ui)
  BY <1>1 DEF Reducer!vars
<1>2. CASE \E p \in Between :
             Timeless(ui') = ShortPress(Timeless(ui), nodes, p[1], p[2], 0)
  BY <1>2, SameEvents DEF Reducer!UiNext, Reducer!PressShort
<1>3. CASE \E p \in Between :
             Timeless(ui') = LongPress(Timeless(ui), nodes, p[1], p[2], 0)
  BY <1>3, SameEvents DEF Reducer!UiNext, Reducer!PressLong
<1>4. CASE \E complete \in BOOLEAN :
             Timeless(ui') \in {HoldStarted(Timeless(ui), 0),
                               HoldTick(Timeless(ui), complete, 0),
                               HoldEnded(Timeless(ui), 0)}
  BY <1>4, SameEvents DEF Reducer!UiNext, Reducer!HoldEvent
<1>5. CASE \/ Timeless(ui') = RequestAccepted(Timeless(ui), 0)
           \/ \E e \in PowerRequestError : Timeless(ui') = RequestFailed(Timeless(ui), e, 0)
  BY <1>5, SameEvents, SameNames DEF Reducer!UiNext, Reducer!RequestResult
<1>6. CASE \E a, b \in BOOLEAN : Timeless(ui') = InactivityTick(Timeless(ui), a, b)
  BY <1>6, SameEvents DEF Reducer!UiNext, Reducer!Inactive
<1>7. CASE Timeless(ui') = AutoRotateTick(Timeless(ui), nodes, TRUE, 0)
  BY <1>7, SameEvents DEF Reducer!UiNext, Reducer!Rotate
<1> QED
  BY <1>1, <1>2, <1>3, <1>4, <1>5, <1>6, <1>7 DEF Reduces

\* A press is followed through points the finger has been at.
LEMMA TouchingPoints ==
  ASSUME NEW r, NEW p \in Points, RecOK(r), r.points \in Seq(Points)
  PROVE  LET s == Touching(r, p)[1]
             g == Touching(r, p)[2]
         IN  /\ s.points \in Seq(Points)
             /\ s.state \in {"pressed", "long_emitted"} => s.points # <<>>
             /\ g.kind = "long" => g.at \in Between
<1>1. CASE r.state \in {"pressed", "long_emitted"}
  <2> DEFINE points == Kept(Append(r.points, p))
             at == Position(points)
             s == [r EXCEPT !.points = points]
             over == [s EXCEPT !.state = "wait_release"]
             emitted == [s EXCEPT !.state = "long_emitted"]
             long == [kind |-> "long", at |-> at]
  <2>1. points \in Seq(Points) /\ points # <<>>
    <3> DEFINE all == Append(r.points, p)
    <3>1. all \in Seq(Points) /\ Len(all) \in Nat /\ Len(all) > 0
      OBVIOUS
    <3>2. PointsKept \in Nat /\ PointsKept > 0
      BY DisplayAssumption
    <3> HIDE DEF all
    <3>3. Len(all) > PointsKept => Tail(all) \in Seq(Points) /\ Tail(all) # <<>>
      <4> SUFFICES ASSUME Len(all) > PointsKept
                   PROVE  Tail(all) \in Seq(Points) /\ Tail(all) # <<>>
        OBVIOUS
      <4> DEFINE rest == Tail(all)
      <4>1. Len(all) \in Nat /\ Len(all) > 1
        BY <3>1, <3>2
      <4>2. rest \in Seq(Points) /\ Len(rest) = Len(all) - 1
        BY <3>1, <4>1
      <4>3. Len(rest) > 0
        BY <4>1, <4>2
      <4>4. rest # <<>>
        <5> HIDE DEF rest
        <5> QED BY <4>2, <4>3
      <4> QED
        BY <4>2, <4>4
    <3>4. all # <<>>
      BY <3>1
    <3>5. Kept(all) = IF Len(all) > PointsKept THEN Tail(all) ELSE all
      BY DEF Kept
    <3>6. points = Kept(all)
      BY DEF all
    <3> HIDE DEF points
    <3> QED
      BY <3>1, <3>3, <3>4, <3>5, <3>6
  <2> HIDE DEF points
  <2>2. at \in Between
    BY <2>1, PositionFound
  <2>3. s.points = points /\ over.points = points /\ emitted.points = points
    BY DEF RecOK, RecFields
  <2>4. Continue(r, p) \in {<<over, NoGesture>>, <<emitted, long>>, <<s, NoGesture>>}
    BY DEF Continue, points
  <2>5. long.at = at /\ NoGesture.kind = "none"
    BY DEF NoGesture
  <2>6. Touching(r, p) = Continue(r, p)
    BY <1>1 DEF Touching
  <2> HIDE DEF s, at, over, emitted, long
  <2>7. /\ Touching(r, p)[1].points = points
        /\ Touching(r, p)[2] \in {long, NoGesture}
    BY <2>3, <2>4, <2>6
  <2> QED
    BY <2>1, <2>2, <2>5, <2>7
<1>2. CASE r.state \notin {"pressed", "long_emitted"}
  <2> DEFINE s == [r EXCEPT !.state = "pressed", !.startedAt = lag, !.origin = p,
                            !.points = <<p>>]
  <2>1. Touching(r, p) \in {<<s, NoGesture>>, <<r, NoGesture>>}
    BY <1>2 DEF Touching
  <2>2. s.points = <<p>> /\ NoGesture.kind = "none"
    BY DEF RecOK, RecFields, NoGesture
  <2>3. <<p>> \in Seq(Points) /\ <<p>> # <<>>
    OBVIOUS
  <2> HIDE DEF s
  <2>4. /\ Touching(r, p)[1] \in {s, r} /\ Touching(r, p)[2] = NoGesture
    BY <2>1
  <2> QED
    BY <1>2, <2>2, <2>3, <2>4
<1> QED
  BY <1>1, <1>2

\* A hold that begins or goes on has an age.
LEMMA HoldAtNat ==
  ASSUME NEW s, NEW b, Good(s), s.holdAt \in Nat \cup {NoTime}, lag \in Nat
  PROVE  /\ HoldStarted(s, lag).holdAt \in Nat \cup {NoTime}
         /\ HoldTick(s, b, lag).holdAt \in Nat \cup {NoTime}
         /\ HoldEnded(s, lag).holdAt \in Nat \cup {NoTime}
  BY DEF HoldStarted, HoldTick, HoldEnded, Good, Fields

\* A gesture gives a hold no other age.
LEMMA GestureHoldAt ==
  ASSUME NEW s, NEW g, Good(s), s.holdAt \in Nat \cup {NoTime}
  PROVE  AfterGesture(s, g).holdAt \in Nat \cup {NoTime}
  BY PressHold DEF AfterGesture

\* The press of a release is where the finger was.
LEMMA GesturesPlace ==
  ASSUME LoopInv, MapInv
  PROVE  /\ Released(rec)[1].points \in Seq(Points)
         /\ Released(rec)[1].state \notin {"pressed", "long_emitted"}
         /\ Released(rec)[2].kind = "short" => Released(rec)[2].at \in Between
         /\ Released(rec)[2].kind \in {"none", "short"}
<1> DEFINE at == Position(rec.points)
           short == [kind |-> "short", at |-> at]
<1>1. Released(rec) = <<IF rec.state = "idle" THEN rec ELSE Idle(lag),
                        IF ShortOn(rec) THEN short ELSE NoGesture>>
  BY DEF Released
<1>2. Idle(lag).points = <<>> /\ Idle(lag).state = "idle" /\ <<>> \in Seq(Points)
  BY DEF Idle
<1>3. ShortOn(rec) => at \in Between
  BY PositionFound DEF MapInv, ShortOn
<1>4. short.kind = "short" /\ short.at = at /\ NoGesture.kind = "none"
  BY DEF NoGesture
<1> HIDE DEF at, short
<1>5. /\ Released(rec)[1] = IF rec.state = "idle" THEN rec ELSE Idle(lag)
      /\ Released(rec)[2] = IF ShortOn(rec) THEN short ELSE NoGesture
  BY <1>1
<1>6. /\ Released(rec)[1].points \in Seq(Points)
      /\ Released(rec)[1].state \notin {"pressed", "long_emitted"}
  BY <1>2, <1>5 DEF MapInv
<1> QED
  BY <1>3, <1>4, <1>5, <1>6

\* A press that is consumed is no longer followed.
LEMMA ConsumedPoints ==
  ASSUME NEW r, RecOK(r)
  PROVE  /\ Consumed(r).points = r.points
         /\ Consumed(r).state \notin {"pressed", "long_emitted"}
  BY DEF Consumed, RecOK, RecFields

\* A look at the panel with a finger on it is at most one event: where a hold and a
\* gesture come together, one of them changes nothing but times.
LEMMA InputDownMap == ASSUME LoopInv, MapInv, InputDown PROVE MapInv' /\ Reduces(ui')
<1> DEFINE r == Touching(rec, finger)[1]
           g == Touching(rec, finger)[2]
           begins == rec.state = "idle" /\ r.state = "pressed"
           action == IF begins THEN VisibleAction(ui, nodes, finger[1], finger[2])
                     ELSE pressedAction
           s1 == IF begins /\ action = "power_hold" /\ ui.screen = "power_confirm"
                 THEN HoldStarted(ui, lag) ELSE ui
           holding == action = "power_hold" /\ s1.screen = "power_confirm"
           complete == Elapsed(s1.holdAt, HoldTime)
           s2 == IF ~holding THEN s1
                 ELSE IF HoldKept(r, finger) THEN HoldTick(s1, complete, lag)
                 ELSE HoldEnded(s1, lag)
           sent == RequestsPower(s1, s2)
<1>1. /\ pc = "input" /\ finger # Up
      /\ ui' = IF sent THEN s2 ELSE AfterGesture(s2, g)
      /\ rec' = IF sent THEN Consumed(r) ELSE r
      /\ UNCHANGED <<lag, finger>>
  BY DEF InputDown, touch
<1>2. /\ RecOK(r) /\ r.points \in Seq(Points)
      /\ r.state \in {"pressed", "long_emitted"} => r.points # <<>>
      /\ g.kind = "long" => g.at \in Between
  BY <1>1, TouchingPoints, TouchingStates DEF LoopInv, MapInv
<1>3. /\ g.kind \in {"none", "long"}
      /\ g.kind = "long" => rec.state = "pressed"
  BY TouchingGesture DEF LoopInv
<1>4. Good(ui) /\ DOMAIN ui = Fields /\ lag \in Nat /\ ui.holdAt \in Nat \cup {NoTime}
  BY DEF LoopInv, MapInv, Good
<1>5. Good(s1) /\ s1.screen = ui.screen /\ s1.holdAt \in Nat \cup {NoTime}
  <2>1. HoldStarted(ui, lag).screen = ui.screen
    BY <1>4 DEF HoldStarted, Fields
  <2> QED
    BY <1>4, <2>1, HoldStartedGood, HoldAtNat
<1> HIDE DEF s1
<1>6. Good(s2) /\ s2.holdAt \in Nat \cup {NoTime}
  BY <1>4, <1>5, HoldTickGood, HoldEndedGood, HoldAtNat
<1>7. MapInv'
  <2>1. ui'.holdAt \in Nat \cup {NoTime}
    <3> HIDE DEF s2, sent, g
    <3> QED BY <1>1, <1>6, GestureHoldAt
  <2>2. /\ rec'.points \in Seq(Points)
        /\ rec'.state \in {"pressed", "long_emitted"} => rec'.points # <<>>
    <3> HIDE DEF r, sent
    <3> QED BY <1>1, <1>2, ConsumedPoints
  <2> QED
    BY <1>1, <2>1, <2>2 DEF MapInv
\* A press that begins on the button starts a hold, and cannot complete it.
<1>8. ASSUME begins PROVE Reduces(ui')
  <2>1. g.kind = "none"
    BY <1>3, <1>8
  <2>2. ui' = s2
    <3> HIDE DEF s2, sent, g
    <3> QED BY <1>1, <2>1 DEF AfterGesture
  <2>3. holding => HoldKept(r, finger)
    <3> SUFFICES ASSUME holding PROVE HoldKept(r, finger)
      OBVIOUS
    <3>1. VisibleAction(ui, nodes, finger[1], finger[2]) = "power_hold"
      BY <1>8
    <3>2. OnHold(finger)
      BY <1>1, <1>5, <3>1, HoldIsTouched
    <3> QED
      BY <1>8, <3>2 DEF HoldKept, OnHold
  <2>4. s2 \in {s1, HoldTick(s1, complete, lag)}
    BY <2>3
  <2>5. CASE s1 = ui
    <3>1. complete \in BOOLEAN
      BY DEF Elapsed
    <3>2. Timeless(HoldTick(ui, complete, lag)) = HoldTick(Timeless(ui), complete, 0)
      BY <1>4, TimelessHold
    <3> HIDE DEF s2, complete
    <3> QED
      BY <2>2, <2>4, <2>5, <3>1, <3>2 DEF Reduces
  <2>6. CASE s1 # ui
    <3>1. s1 = HoldStarted(ui, lag)
      BY <2>6 DEF s1
    <3>2. s1.holdAt = lag
      BY <1>4, <2>6, <3>1 DEF HoldStarted, Fields
    <3>3. ~complete
      BY <1>4, <3>2, TimesAreNat DEF Elapsed
    <3>4. HoldTick(s1, complete, lag) = s1
      BY <3>3 DEF HoldTick
    <3>5. Timeless(HoldStarted(ui, lag)) = HoldStarted(Timeless(ui), 0)
      BY <1>4, TimelessHold
    <3> HIDE DEF s2, complete
    <3> QED
      BY <2>2, <2>4, <3>1, <3>4, <3>5 DEF Reduces
  <2> QED
    BY <2>5, <2>6
\* A press that goes on does so with a hold, or as a long press; a hold that ends with
\* the long press is all that is left of both.
<1>9. ASSUME ~begins PROVE Reduces(ui')
  <2>1. s1 = ui
    BY <1>9 DEF s1
  <2>2. \/ s2 = ui
        \/ s2 = HoldTick(ui, complete, lag) /\ holding /\ s2 # ui
        \/ s2 = HoldEnded(ui, lag) /\ holding /\ s2 # ui
    BY <2>1
  <2>3. CASE s2 = ui
    <3>1. ~sent
      BY <2>1, <2>3 DEF RequestsPower
    <3>2. ui' = AfterGesture(ui, g)
      BY <1>1, <2>3, <3>1
    <3>3. CASE g.kind = "none"
      <4> HIDE DEF g
      <4> QED BY <3>2, <3>3 DEF AfterGesture, Reduces
    <3>4. CASE g.kind = "long"
      <4> HIDE DEF g
      <4>1. g.at \in Between /\ ui' = LongPress(ui, nodes, g.at[1], g.at[2], lag)
        BY <1>2, <3>2, <3>4 DEF AfterGesture
      <4>2. Timeless(ui') = LongPress(Timeless(ui), nodes, g.at[1], g.at[2], 0)
        BY <1>4, <4>1, TimelessPress
      <4> QED
        BY <4>1, <4>2 DEF Reduces
    <3> QED
      BY <1>3, <3>3, <3>4
  <2>4. CASE s2 = HoldTick(ui, complete, lag) /\ holding /\ s2 # ui
    <3>1. s2.screen = "power_pending" /\ ui.screen = "power_confirm"
      BY <1>4, <2>1, <2>4 DEF HoldTick, Fields, Confirming
    <3>2. sent
      BY <2>1, <3>1 DEF RequestsPower
    <3>3. complete \in BOOLEAN
      BY DEF Elapsed
    <3>4. Timeless(HoldTick(ui, complete, lag)) = HoldTick(Timeless(ui), complete, 0)
      BY <1>4, TimelessHold
    <3> HIDE DEF s2, complete, sent
    <3> QED
      BY <1>1, <2>4, <3>2, <3>3, <3>4 DEF Reduces
  <2>5. CASE s2 = HoldEnded(ui, lag) /\ holding /\ s2 # ui
    <3>1. s2.screen = "power_confirm" /\ DOMAIN s2 = Fields
      BY <1>4, <2>1, <2>5 DEF HoldEnded, Fields
    <3>2. Timeless(s2) = HoldEnded(Timeless(ui), 0)
      BY <1>4, <2>5, TimelessHold
    <3>3. ~sent
      BY <3>1 DEF RequestsPower
    <3> HIDE DEF s2, sent, g
    <3>4. ui' \in {s2, Touched(s2, lag)}
      BY <1>1, <1>3, <3>1, <3>3 DEF AfterGesture, LongPress
    <3>5. Timeless(ui') = Timeless(s2)
      BY <3>1, <3>4, TimelessTouch
    <3> QED
      BY <3>2, <3>5 DEF Reduces
  <2> QED
    BY <2>2, <2>3, <2>4, <2>5
<1> QED
  BY <1>7, <1>8, <1>9

\* So is a look without one: the hold that ends leaves the press its meaning.
LEMMA InputUpMap == ASSUME LoopInv, MapInv, InputUp PROVE MapInv' /\ Reduces(ui')
<1> DEFINE r == Released(rec)
           g == r[2]
           s == IF pressedAction = "power_hold" /\ ui.screen = "power_confirm"
                THEN HoldEnded(ui, lag) ELSE ui
<1>1. ui' = AfterGesture(s, g) /\ rec' = r[1] /\ UNCHANGED <<lag, finger>>
  BY DEF InputUp, touch
<1>2. /\ r[1].points \in Seq(Points) /\ r[1].state \notin {"pressed", "long_emitted"}
      /\ g.kind = "short" => g.at \in Between
      /\ g.kind \in {"none", "short"}
  BY GesturesPlace
<1>3. Good(ui) /\ DOMAIN ui = Fields /\ lag \in Nat /\ ui.holdAt \in Nat \cup {NoTime}
  BY DEF LoopInv, MapInv, Good
<1>4. Good(s) /\ s.holdAt \in Nat \cup {NoTime}
  BY <1>3, HoldEndedGood, HoldAtNat
<1>5. MapInv'
  <2>1. ui'.holdAt \in Nat \cup {NoTime}
    <3> HIDE DEF s, g
    <3> QED BY <1>1, <1>4, GestureHoldAt
  <2> HIDE DEF r
  <2> QED
    BY <1>1, <1>2, <2>1 DEF MapInv
<1>6. s = ui \/ (s = HoldEnded(ui, lag) /\ s # ui)
  OBVIOUS
<1> HIDE DEF g
<1>7. ASSUME s = ui PROVE Reduces(ui')
  <2>1. CASE g.kind = "none"
    BY <1>1, <1>7, <2>1 DEF AfterGesture, Reduces
  <2>2. CASE g.kind = "short"
    <3> HIDE DEF s
    <3>1. g.at \in Between /\ ui' = ShortPress(ui, nodes, g.at[1], g.at[2], lag)
      BY <1>1, <1>2, <1>7, <2>2 DEF AfterGesture
    <3>2. Timeless(ui') = ShortPress(Timeless(ui), nodes, g.at[1], g.at[2], 0)
      BY <1>3, <3>1, TimelessPress
    <3> QED
      BY <3>1, <3>2 DEF Reduces
  <2> QED
    BY <1>2, <2>1, <2>2
<1>8. ASSUME s = HoldEnded(ui, lag), s # ui PROVE Reduces(ui')
  <2>1. /\ s.screen = "power_confirm" /\ ui.screen = "power_confirm"
        /\ s.pending = ui.pending /\ DOMAIN s = Fields
        /\ s = [ui EXCEPT !.holdAt = NoTime, !.interactionAt = lag]
    BY <1>3, <1>8 DEF HoldEnded, Fields
  <2>2. Timeless(s) = HoldEnded(Timeless(ui), 0)
    BY <1>3, <1>8, TimelessHold
  <2>3. ASSUME NEW at \in Nat
        PROVE  Timeless(ToSystem(Touched(s, at))) = Timeless(ToSystem(Touched(ui, at)))
    <3> HIDE DEF s
    <3> QED BY ZenonT(60), <1>3, <2>1 DEF Timeless, ToSystem, Touched, Fields
  <2> HIDE DEF s
  <2>4. CASE g.kind = "none"
    BY <1>1, <2>2, <2>4 DEF AfterGesture, Reduces
  <2>5. CASE g.kind = "short"
    <3> DEFINE action == VisibleAction(s, nodes, g.at[1], g.at[2])
    <3>1. g.at \in Between /\ ui' = ShortPress(s, nodes, g.at[1], g.at[2], lag)
      BY <1>1, <1>2, <2>5 DEF AfterGesture
    <3>2. VisibleAction(ui, nodes, g.at[1], g.at[2]) = action
      BY <2>1 DEF VisibleAction, ConfirmAction
    <3>3. ui' = IF action = "power_cancel" THEN ToSystem(Touched(s, lag)) ELSE Touched(s, lag)
      BY <2>1, <3>1 DEF ShortPress, PressIgnored, Pressed
    <3>4. CASE action = "power_cancel"
      <4>1. ShortPress(ui, nodes, g.at[1], g.at[2], lag) = ToSystem(Touched(ui, lag))
        BY <2>1, <3>2, <3>4 DEF ShortPress, PressIgnored, Pressed
      <4>2. Timeless(ui') = Timeless(ShortPress(ui, nodes, g.at[1], g.at[2], lag))
        BY <1>3, <2>3, <3>3, <3>4, <4>1
      <4>3. Timeless(ui') = ShortPress(Timeless(ui), nodes, g.at[1], g.at[2], 0)
        BY <1>3, <4>2, TimelessPress
      <4> QED
        BY <3>1, <4>3 DEF Reduces
    <3>5. CASE action # "power_cancel"
      <4>1. Timeless(ui') = Timeless(s)
        BY <2>1, <3>3, <3>5, TimelessTouch
      <4> QED
        BY <2>2, <4>1 DEF Reduces
    <3> QED
      BY <3>4, <3>5
  <2> QED
    BY <1>2, <2>4, <2>5
<1> QED
  BY <1>5, <1>6, <1>7, <1>8

------------------------------------------------------------------------------
(* Each step of the loop *)

\* What stays as it is of what the mapping knows: the points of the press, and the rest
LEMMA MapNext ==
  ASSUME MapInv, ui'.holdAt \in {ui.holdAt, NoTime}, UNCHANGED rec,
         lag' \in Nat, finger' \in Points \cup {Up}
  PROVE  MapInv'
  BY DEF MapInv

\* The display starts as the reducer does.
LEMMA InitMap == DisplayInit => MapInv /\ Reducer!UiInit
<1> SUFFICES ASSUME DisplayInit PROVE MapInv /\ Reducer!UiInit
  OBVIOUS
<1>1. /\ ui = [UiStart(0) EXCEPT !.pressedAt = OldPause]
      /\ nodes = <<>> /\ enabled \in BOOLEAN /\ lag = 0 /\ finger = Up
      /\ rec = Idle(OldRelease)
  BY DEF DisplayInit
<1>2. MapInv
  BY <1>1 DEF MapInv, UiStart, Idle
<1>3. Timeless(ui) = UiStart(0)
  <2> DEFINE s == UiStart(0)
  <2>1. /\ s = [f \in Fields |-> s[f]]
        /\ s.holdAt = NoTime /\ s.interactionAt = 0 /\ s.pressedAt = 0 /\ s.rotatedAt = 0
    BY DEF UiStart, Fields
  <2> HIDE DEF s
  <2>2. Timeless([s EXCEPT !.pressedAt = OldPause]) = s
    BY <2>1 DEF Timeless, Fields
  <2> QED
    BY <1>1, <2>2 DEF s
<1>4. Reducer!UiStart(0) = UiStart(0)
  BY SameNames DEF Reducer!UiStart, UiStart
<1> QED
  BY <1>1, <1>2, <1>3, <1>4 DEF Reducer!UiInit

\* The answer of the hub is the reducer's.
LEMMA FetchedMap ==
  ASSUME LoopInv, MapInv, Fetched
  PROVE  MapInv' /\ [Reducer!UiNext]_(Reducer!vars)
<1>1. PICK L \in Lists \cup {nodes} : nodes' = L /\ ui' = DataRefreshed(ui, L)
  BY DEF Fetched, AfterAnswer
<1>2. UNCHANGED <<enabled, lag, finger, rec>>
  BY DEF Fetched, touch, press
<1>3. DOMAIN ui = Fields
  BY DEF LoopInv, Good
<1>4. ui'.holdAt = ui.holdAt
  BY <1>1, <1>3, DataRefreshedPlain DEF Plain
<1>5. Timeless(ui') = Reducer!DataRefreshed(Timeless(ui), L)
  BY <1>1, <1>3, TimelessRefresh, SameRefresh
<1>6. Reducer!Refresh
  BY <1>1, <1>2, <1>5 DEF Reducer!Refresh
<1>7. MapInv'
  BY <1>2, <1>4, MapNext DEF MapInv
<1> QED
  BY <1>6, <1>7 DEF Reducer!UiNext

\* So are the timeouts,
LEMMA InactivityMap == ASSUME LoopInv, MapInv, Inactivity PROVE MapInv' /\ Reduces(ui')
<1> DEFINE over(timeout) == timeout > 0 /\ Elapsed(ui.interactionAt, timeout)
           a == over(MenuTimeout)
           b == over(DetailTimeout)
<1>1. /\ ui' = IF finger # Up THEN ui ELSE InactivityTick(ui, a, b)
      /\ UNCHANGED <<lag, finger, rec>>
  BY DEF Inactivity, touch, press
<1>2. a \in BOOLEAN /\ b \in BOOLEAN
  OBVIOUS
<1>3. DOMAIN ui = Fields
  BY DEF LoopInv, Good
<1> HIDE DEF over, a, b
<1>4. ui'.holdAt \in {ui.holdAt, NoTime}
  BY <1>1, <1>3 DEF InactivityTick, ToSystem, Fields
<1>5. Timeless(InactivityTick(ui, a, b)) = InactivityTick(Timeless(ui), a, b)
  BY <1>3, TimelessTicks
<1>6. Reduces(ui')
  BY <1>1, <1>2, <1>5 DEF Reduces
<1>7. MapInv'
  BY <1>1, <1>4, MapNext DEF MapInv
<1> QED
  BY <1>6, <1>7

\* the rotation before a frame,
LEMMA RenderMap == ASSUME LoopInv, MapInv, Render PROVE MapInv' /\ Reduces(ui')
<1>1. /\ ui' = AutoRotateTick(ui, nodes, RotationDue, lag)
      /\ UNCHANGED <<lag, finger, rec>>
  BY DEF Render, touch, press
<1>2. ui' = ui \/ ui' = AutoRotateTick(ui, nodes, TRUE, lag)
  BY <1>1 DEF AutoRotateTick
<1>3. DOMAIN ui = Fields
  BY DEF LoopInv, Good
<1>4. ui'.holdAt = ui.holdAt
  BY <1>1, <1>3, StepNodePlain DEF AutoRotateTick, Plain
<1>5. Timeless(AutoRotateTick(ui, nodes, TRUE, lag))
        = AutoRotateTick(Timeless(ui), nodes, TRUE, 0)
  BY <1>3, TimelessTicks
<1>6. Reduces(ui')
  BY <1>2, <1>5 DEF Reduces
<1>7. MapInv'
  BY <1>1, <1>4, MapNext DEF MapInv
<1> QED
  BY <1>6, <1>7

\* and the answer of the helper.
LEMMA AnsweredMap ==
  ASSUME LoopInv, MapInv, RequestIsAccepted \/ RequestIsFailed
  PROVE  MapInv' /\ Reduces(ui')
<1>1. \/ ui' = RequestAccepted(ui, 0)
      \/ \E e \in PowerRequestError : ui' = RequestFailed(ui, e, 0)
  BY DEF RequestIsAccepted, RequestIsFailed, Answered
<1>2. UNCHANGED <<lag, finger, rec>>
  BY DEF RequestIsAccepted, RequestIsFailed, Answered, touch, press
<1>3. DOMAIN ui = Fields
  BY DEF LoopInv, Good
<1>4. ui'.holdAt = ui.holdAt
  BY <1>1, <1>3 DEF RequestAccepted, RequestFailed, Fields
<1>5. \/ Timeless(ui') = RequestAccepted(Timeless(ui), 0)
      \/ \E e \in PowerRequestError : Timeless(ui') = RequestFailed(Timeless(ui), e, 0)
  BY <1>1, <1>3, TimelessResult
<1>6. Reduces(ui')
  BY <1>5 DEF Reduces
<1>7. MapInv'
  BY <1>2, <1>4, MapNext DEF MapInv
<1> QED
  BY <1>6, <1>7

\* The passing of time is no event.
LEMMA TickMap == ASSUME LoopInv, MapInv, Tick PROVE MapInv' /\ Reduces(ui')
<1>1. /\ lag' \in {lag, lag + 1} /\ finger' = finger
      /\ \E started, released :
           rec' = [rec EXCEPT !.startedAt = started, !.releasedAt = released]
  BY DEF Tick
<1>2. PICK hold, i, p, o :
        /\ ui' = [ui EXCEPT !.holdAt = hold, !.interactionAt = i, !.pressedAt = p,
                            !.rotatedAt = o]
        /\ hold = IF ui.holdAt = NoTime THEN NoTime ELSE AtMost(ui.holdAt + 1, OldHold)
  BY DEF Tick, Older
<1>3. DOMAIN ui = Fields /\ RecOK(rec)
  BY DEF LoopInv, Good
<1>4. OldHold \in Nat
  BY TimesAreNat DEF OldHold
<1>5. hold \in Nat \cup {NoTime} /\ (hold = NoTime <=> ui.holdAt = NoTime)
  BY <1>2, <1>4, TimesAreNat DEF AtMost, MapInv
<1>6. ui'.holdAt = hold /\ Timeless(ui') = Timeless(ui)
  BY <1>2, <1>3, <1>5 DEF Timeless, Fields
<1>7. rec'.points = rec.points /\ rec'.state = rec.state
  BY <1>1, <1>3 DEF RecOK, RecFields
<1>8. MapInv'
  BY <1>1, <1>5, <1>6, <1>7 DEF MapInv
<1> QED
  BY <1>6, <1>8 DEF Reduces

\* Every step of the loop is a step of the reducer, or a stutter.
LEMMA StepMap ==
  LoopInv /\ MapInv /\ [DisplayNext]_displayVars =>
    MapInv' /\ [Reducer!UiNext]_(Reducer!vars)
<1> SUFFICES ASSUME LoopInv, MapInv, [DisplayNext]_displayVars
             PROVE  MapInv' /\ [Reducer!UiNext]_(Reducer!vars)
  OBVIOUS
<1>1. CASE Wake \/ Finger \/ UNCHANGED displayVars
  <2>1. /\ UNCHANGED <<ui, nodes, enabled, rec>>
        /\ lag' \in {lag, 0} /\ finger' \in {finger, Up} \cup Points
    BY <1>1 DEF Wake, Finger, displayVars, vars, loop, touch, press
  <2>2. MapInv'
    BY <2>1, MapNext DEF MapInv
  <2>3. Reduces(ui')
    BY <2>1 DEF Reduces
  <2> QED
    BY <2>1, <2>2, <2>3, ReducesIsStep
<1>2. CASE InputDown \/ InputUp
  <2>1. UNCHANGED <<nodes, enabled>>
    BY <1>2 DEF InputDown, InputUp
  <2> QED
    BY <1>2, <2>1, InputDownMap, InputUpMap, ReducesIsStep
<1>3. CASE Inactivity \/ Render
  <2>1. UNCHANGED <<nodes, enabled>>
    BY <1>3 DEF Inactivity, Render
  <2> QED
    BY <1>3, <2>1, InactivityMap, RenderMap, ReducesIsStep
<1>4. CASE RequestIsAccepted \/ RequestIsFailed
  <2>1. UNCHANGED <<nodes, enabled>>
    BY <1>4 DEF RequestIsAccepted, RequestIsFailed, Answered
  <2> QED
    BY <1>4, <2>1, AnsweredMap, ReducesIsStep
<1>5. CASE Tick
  <2>1. UNCHANGED <<nodes, enabled>>
    BY <1>5 DEF Tick
  <2> QED
    BY <1>5, <2>1, TickMap, ReducesIsStep
<1> QED
  BY <1>1, <1>2, <1>3, <1>4, <1>5, FetchedMap DEF DisplayNext, Step

\* The loop implements the reducer: whatever the finger, the hub, the helper and the
\* clock do, its state moves as an event of the reducer moves it, one event at a time.
THEOREM LoopImplementsReducer == DisplaySpec => RefinesReducer
<1>1. DisplayInit => MapInv /\ Reducer!UiInit
  BY InitMap
<1>2. LoopInv /\ MapInv /\ [DisplayNext]_displayVars =>
        MapInv' /\ [Reducer!UiNext]_(Reducer!vars)
  BY StepMap
<1> QED
  BY <1>1, <1>2, LoopInvariance, PTL DEF DisplaySpec, RefinesReducer, Reducer!UiSpec

------------------------------------------------------------------------------
(* The path of a power request in the loop *)

LEMMA TimelessGood ==
  ASSUME NEW s, Good(s)
  PROVE  Good(Timeless(s))
<1> DEFINE t == Timeless(s)
<1>1. /\ DOMAIN t = Fields /\ t.screen = s.screen /\ t.pending = s.pending
      /\ t.status = s.status /\ t.error = s.error
      /\ t.holdAt = IF s.holdAt = NoTime THEN NoTime ELSE 0
  BY DEF Timeless, Good, Fields
<1> HIDE DEF t
<1>2. Good(t)
  BY <1>1 DEF Good, Coherent
<1> QED
  BY <1>2 DEF t

LEMMA TimelessPath ==
  ASSUME NEW s, NEW t, DOMAIN s = Fields, DOMAIN t = Fields, OnPath(Timeless(s), Timeless(t))
  PROVE  OnPath(s, t)
<1>1. \A u : DOMAIN u = Fields =>
        /\ Timeless(u).screen = u.screen /\ Timeless(u).pending = u.pending
        /\ Timeless(u).status = u.status
        /\ Timeless(u).holdAt = IF u.holdAt = NoTime THEN NoTime ELSE 0
  BY DEF Timeless, Fields
<1> QED
  BY <1>1 DEF OnPath

LEMMA ReducedPath ==
  ASSUME NEW t, Good(ui), DOMAIN t = Fields, Reduces(t)
  PROVE  OnPath(ui, t)
<1> DEFINE s == Timeless(ui)
<1>1. Good(s) /\ OnPath(s, s)
  BY TimelessGood, PlainReflexive, PlainIsGood DEF Good
<1> HIDE DEF s
<1>2. OnPath(s, Timeless(t))
  BY <1>1, ShortPressGood, LongPressGood, HoldStartedGood, HoldTickGood, HoldEndedGood,
     RequestAcceptedGood, RequestFailedGood, InactivityTickGood, AutoRotateTickGood
  DEF Reduces, s
<1> QED
  BY <1>2, TimelessPath DEF Good, s

LEMMA StepPath ==
  LoopInv /\ MapInv /\ [DisplayNext]_displayVars => OnPath(ui, ui')
<1> SUFFICES ASSUME LoopInv, MapInv, [DisplayNext]_displayVars PROVE OnPath(ui, ui')
  OBVIOUS
<1>1. Good(ui) /\ DOMAIN ui' = Fields
  BY StepLoop DEF LoopInv, Good
<1>2. CASE Fetched
  <2>1. \E L : ui' = DataRefreshed(ui, L)
    BY <1>2 DEF Fetched, AfterAnswer
  <2> QED
    BY <1>1, <2>1, DataRefreshedPlain, PlainIsGood DEF Good
<1>3. CASE Wake \/ Finger \/ UNCHANGED displayVars
  <2>1. ui' = ui
    BY <1>3 DEF Wake, Finger, displayVars, vars, loop
  <2> QED
    BY <1>1, <2>1, PlainReflexive, PlainIsGood DEF Good
<1>4. CASE ~Fetched /\ ~(Wake \/ Finger \/ UNCHANGED displayVars)
  <2>1. Reduces(ui')
    BY <1>4, InputDownMap, InputUpMap, InactivityMap, RenderMap, AnsweredMap, TickMap
    DEF DisplayNext, Step
  <2> QED
    BY <1>1, <2>1, ReducedPath
<1> QED
  BY <1>2, <1>3, <1>4

\* What the loop keeps about a request is there on its screens and nowhere else, whenever
\* the hub, the helper or the finger interrupts it.
THEOREM LoopPowerCoherent == DisplaySpec => []PowerCoherent
<1>1. LoopInv => PowerCoherent
  BY DEF LoopInv, Good, Coherent, PowerCoherent
<1> QED
  BY <1>1, LoopInvariance, PTL

\* One look at the panel can end a hold and be a gesture, or begin a hold and look at its
\* progress: none of this makes a request without a confirmation and a hold that was under
\* way before, or ends one without its result.
THEOREM LoopPowerPath == DisplaySpec => PowerPath
<1> DEFINE Allowed ==
      /\ ui'.screen = "power_confirm" /\ ui.screen # "power_confirm" => ui.screen = "system"
      /\ ui'.screen = "power_pending" /\ ui.screen # "power_pending" =>
           ui.screen = "power_confirm" /\ ui.holdAt # NoTime
      /\ ui.screen = "power_pending" =>
           \/ ui'.screen = "power_pending"
           \/ ui'.screen = "power_error" /\ ui.status = "sending"
      /\ ui.pending # None /\ ui'.pending # None => ui'.pending = ui.pending
<1>1. DisplayInit => MapInv
  BY InitMap
<1>2. LoopInv /\ MapInv /\ [DisplayNext]_displayVars => MapInv' /\ [Allowed]_vars
  BY StepMap, StepPath DEF OnPath
<1> QED
  BY <1>1, <1>2, LoopInvariance, PTL DEF DisplaySpec, PowerPath
==============================================================================
