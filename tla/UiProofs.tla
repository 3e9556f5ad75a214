------------------------------- MODULE UiProofs -------------------------------
(***************************************************************************)
(* What the reducer keeps about a power request, a selection and a         *)
(* category, for every list of nodes, every point of the screen and every  *)
(* order of events.                                                        *)
(*                                                                         *)
(* The first half is about power requests.  Most events are plain: they do *)
(* not touch what is kept about a request and move neither to nor from a   *)
(* power screen.  The proof shows that of each, and looks at the others    *)
(* one by one.                                                             *)
(*                                                                         *)
(* The second half is about the selection.  Sound says of any state that   *)
(* it fits a list: the selection is a node of it, at the place the hint    *)
(* says, with the category that is shown, and the page of NODES is one of  *)
(* its pages.  An answer of the hub makes the state sound for the new      *)
(* list, whatever it was; every other event keeps it sound.                *)
(* Its last argument is the set times are taken from, which differs        *)
(* between this reducer and the loop that runs it.                         *)
(***************************************************************************)
EXTENDS Ui, NavigationProofs, FiniteSetTheorems, TLAPS

Fields == {"screen", "selected", "hint", "category", "metrics", "menuPage", "nodesPage",
           "pending", "holdAt", "status", "error", "interactionAt", "pressedAt",
           "rotatedAt"}

\* PowerCoherent of any state of the interface
Coherent(s) ==
  /\ s.pending # None <=> s.screen \in PowerScreen
  /\ s.status # None <=> s.screen = "power_pending"
  /\ s.error # None <=> s.screen = "power_error"
  /\ s.holdAt # NoTime => s.screen = "power_confirm"
  /\ s.screen \in PowerScreen => enabled

Plain(s, t) ==
  /\ DOMAIN t = Fields
  /\ t.pending = s.pending /\ t.holdAt = s.holdAt
  /\ t.status = s.status /\ t.error = s.error
  /\ t.screen # s.screen => s.screen \notin PowerScreen /\ t.screen \notin PowerScreen

Good(s) ==
  /\ DOMAIN s = Fields
  /\ s.pending \in PowerAction \cup {None}
  /\ Coherent(s)

\* the step that PowerPath allows
OnPath(s, t) ==
  /\ t.screen = "power_confirm" /\ s.screen # "power_confirm" => s.screen = "system"
  /\ t.screen = "power_pending" /\ s.screen # "power_pending" =>
       s.screen = "power_confirm" /\ s.holdAt # NoTime
  /\ s.screen = "power_pending" =>
       \/ t.screen = "power_pending"
       \/ t.screen = "power_error" /\ s.status = "sending"
  /\ s.pending # None /\ t.pending # None => t.pending = s.pending

LEMMA PlainTransitive ==
  ASSUME NEW s, NEW t, NEW u, Plain(s, t), Plain(t, u)
  PROVE  Plain(s, u)
  BY DEF Plain

LEMMA PlainReflexive ==
  ASSUME NEW s, DOMAIN s = Fields
  PROVE  Plain(s, s)
  BY DEF Plain

LEMMA PlainIsGood ==
  ASSUME NEW s, NEW t, Good(s), Plain(s, t)
  PROVE  Good(t) /\ OnPath(s, t)
  <1>1. Coherent(t)
    BY DEF Plain, Coherent, Good, PowerScreen
  <1> QED BY <1>1 DEF Good, OnPath, Plain, PowerScreen

------------------------------------------------------------------------------
(* The plain steps *)

LEMMA TouchedPlain ==
  ASSUME NEW s, NEW at, DOMAIN s = Fields
  PROVE  Plain(s, Touched(s, at)) /\ Touched(s, at).screen = s.screen
  BY DEF Plain, Touched, Fields

LEMMA OpenMainMenuPlain ==
  ASSUME NEW s, NEW node, DOMAIN s = Fields, s.screen \notin PowerScreen
  PROVE  Plain(s, OpenMainMenu(s, node))
  BY DEF Plain, OpenMainMenu, Fields, PowerScreen

LEMMA SelectNodePlain ==
  ASSUME NEW s, NEW L, NEW index, NEW at, DOMAIN s = Fields
  PROVE  Plain(s, SelectNode(s, L, index, at))
  <1> DEFINE chosen == [s EXCEPT !.selected = NodeAt(L, index).id, !.hint = index,
                                 !.rotatedAt = at]
             c == CategoryId(chosen, NodeAt(L, index))
             before == CategoryId(s, SelectedNode(s, L))
  <1>1. DOMAIN chosen = Fields /\ Plain(s, chosen) /\ chosen.screen = s.screen
    BY DEF Plain, Fields
  <1>2. CASE s.screen \notin {"main_menu", "values", "graph"}
    BY <1>1, <1>2 DEF SelectNode
  <1>3. CASE s.screen \in {"main_menu", "values", "graph"}
    <2> DEFINE t(page) == [chosen EXCEPT
          !.category = c, !.menuPage = page,
          !.screen = IF @ = "graph" /\ ~CanOpenGraph(c) THEN "values" ELSE @]
    <2>1. ASSUME NEW page PROVE Plain(chosen, t(page))
      BY <1>1, <1>3 DEF Plain, Fields, PowerScreen
    <2>2. SelectNode(s, L, index, at) =
            t(IF s.screen # "main_menu" THEN chosen.menuPage
              ELSE IF c # before THEN MenuPageFor(c) ELSE NormalizeMenuPage(chosen.menuPage))
      BY <1>3 DEF SelectNode
    <2>3. Plain(chosen, SelectNode(s, L, index, at))
      BY <2>1, <2>2 DEF Plain
    <2> QED BY <1>1, <2>3, PlainTransitive
  <1> QED BY <1>2, <1>3

LEMMA StepNodePlain ==
  ASSUME NEW s, NEW L, NEW delta, NEW at, DOMAIN s = Fields
  PROVE  Plain(s, StepNode(s, L, delta, at))
  BY SelectNodePlain, PlainReflexive DEF StepNode

LEMMA StepMetricPlain ==
  ASSUME NEW s, NEW node, NEW delta, DOMAIN s = Fields
  PROVE  Plain(s, StepMetric(s, node, delta))
  BY DEF Plain, StepMetric, Fields

LEMMA RefreshNodesPlain ==
  ASSUME NEW s, NEW L, DOMAIN s = Fields, s.screen = "nodes"
  PROVE  Plain(s, RefreshNodesScreen(s, L))
  BY DEF Plain, RefreshNodesScreen, NoSelection, Fields, PowerScreen

LEMMA FollowCategoryPlain ==
  ASSUME NEW t, NEW node, DOMAIN t = Fields
  PROVE  Plain(t, FollowCategory(t, node))
  <1>1. CASE t.screen = "main_menu"
    <2>1. Plain(t, OpenMainMenu(t, node))
      BY <1>1, OpenMainMenuPlain DEF PowerScreen
    <2>2. Plain(t, [t EXCEPT !.menuPage = NormalizeMenuPage(@)])
      BY DEF Plain, Fields
    <2> QED BY <1>1, <2>1, <2>2 DEF FollowCategory
  <1>2. CASE t.screen \in {"values", "graph"}
    <2>1. ASSUME NEW screen \in {"overview", "values"}
          PROVE  Plain(t, [t EXCEPT !.screen = screen])
      BY <1>2 DEF Plain, Fields, PowerScreen
    <2>2. Plain(t, t)
      BY PlainReflexive
    <2> QED BY <1>2, <2>1, <2>2 DEF FollowCategory
  <1>3. CASE t.screen \notin {"main_menu", "values", "graph"}
    BY <1>3, PlainReflexive DEF FollowCategory
  <1> QED BY <1>1, <1>2, <1>3

LEMMA RefreshOtherPlain ==
  ASSUME NEW s, NEW L, DOMAIN s = Fields
  PROVE  Plain(s, RefreshOtherScreen(s, L))
  <1> DEFINE index == SelectedIndex(L, s.selected, s.hint)
             chosen == [s EXCEPT !.selected = NodeAt(L, index).id, !.hint = index]
  <1>1. CASE L = <<>>
    BY <1>1 DEF RefreshOtherScreen, NoSelection, Plain, Fields, PowerScreen
  <1>2. CASE L # <<>>
    <2>1. Plain(s, chosen) /\ DOMAIN chosen = Fields
      BY DEF Plain, Fields
    <2>2. RefreshOtherScreen(s, L) = FollowCategory(chosen, NodeAt(L, index))
      BY <1>2 DEF RefreshOtherScreen
    <2> HIDE DEF chosen
    <2> QED BY <2>1, <2>2, FollowCategoryPlain, PlainTransitive
  <1> QED BY <1>1, <1>2

LEMMA DataRefreshedPlain ==
  ASSUME NEW s, NEW L, DOMAIN s = Fields
  PROVE  Plain(s, DataRefreshed(s, L))
  BY RefreshNodesPlain, RefreshOtherPlain DEF DataRefreshed

LEMMA OverviewPressPlain ==
  ASSUME NEW t, NEW L, NEW action, NEW at, DOMAIN t = Fields, t.screen = "overview"
  PROVE  Plain(t, OverviewPress(t, L, action, at))
  <1>1. Plain(t, OpenValues(t, L))
    BY DEF Plain, OpenValues, Fields, PowerScreen
  <1> QED BY <1>1, StepNodePlain, PlainReflexive DEF OverviewPress

LEMMA MenuPressPlain ==
  ASSUME NEW t, NEW L, NEW action, NEW at, DOMAIN t = Fields, t.screen = "main_menu"
  PROVE  Plain(t, MenuPress(t, L, action, at))
  <1>1. Plain(t, OpenNodes(t, L))
    BY DEF Plain, OpenNodes, Fields, PowerScreen
  <1>2. ASSUME NEW page PROVE Plain(t, [t EXCEPT !.menuPage = page])
    BY DEF Plain, Fields
  <1>3. ASSUME NEW screen \in {"overview", "system"}
        PROVE  Plain(t, [t EXCEPT !.screen = screen])
    BY DEF Plain, Fields, PowerScreen
  <1>4. Plain(t, [t EXCEPT !.category = action, !.screen = "values"])
    BY DEF Plain, Fields, PowerScreen
  <1> QED BY <1>1, <1>2, <1>3, <1>4, StepNodePlain, PlainReflexive DEF MenuPress

LEMMA DetailPressPlain ==
  ASSUME NEW t, NEW L, NEW action, NEW at, DOMAIN t = Fields,
         t.screen \in {"values", "graph"}
  PROVE  Plain(t, DetailPress(t, L, action, at))
  <1>1. ASSUME NEW screen \in {"overview", "values", "graph"}
        PROVE  Plain(t, [t EXCEPT !.screen = screen])
    BY DEF Plain, Fields, PowerScreen
  <1> QED BY <1>1, StepNodePlain, StepMetricPlain, PlainReflexive DEF DetailPress

LEMMA NodesPressPlain ==
  ASSUME NEW t, NEW L, NEW action, NEW at, DOMAIN t = Fields, t.screen = "nodes"
  PROVE  Plain(t, NodesPress(t, L, action, at))
  <1>1. ASSUME NEW page PROVE Plain(t, [t EXCEPT !.nodesPage = page])
    BY DEF Plain, Fields
  <1>2. Plain(t, [t EXCEPT !.screen = "main_menu", !.menuPage = 0])
    BY DEF Plain, Fields, PowerScreen
  <1>3. ASSUME NEW index
        PROVE  Plain(t, [SelectNode(t, L, index, at) EXCEPT !.screen = "overview"])
    <2>1. Plain(t, SelectNode(t, L, index, at))
      BY SelectNodePlain
    <2> QED BY <2>1 DEF Plain, Fields, PowerScreen
  <1> QED BY <1>1, <1>2, <1>3, PlainReflexive DEF NodesPress

------------------------------------------------------------------------------
(* The events about power *)

LEMMA RequestAcceptedGood ==
  ASSUME NEW s, NEW at, Good(s)
  PROVE  Good(RequestAccepted(s, at)) /\ OnPath(s, RequestAccepted(s, at))
  BY DEF Good, OnPath, Coherent, RequestAccepted, AwaitsResult, Fields, PowerScreen, None

LEMMA RequestFailedGood ==
  ASSUME NEW s, NEW e \in PowerRequestError, NEW at, Good(s)
  PROVE  Good(RequestFailed(s, e, at)) /\ OnPath(s, RequestFailed(s, e, at))
  BY DEF Good, OnPath, Coherent, RequestFailed, AwaitsResult, Fields, PowerScreen, None,
         PowerRequestError

LEMMA HoldStartedGood ==
  ASSUME NEW s, NEW at, Good(s)
  PROVE  Good(HoldStarted(s, at)) /\ OnPath(s, HoldStarted(s, at))
  BY DEF Good, OnPath, Coherent, HoldStarted, Confirming, Fields, PowerScreen, None

LEMMA HoldTickGood ==
  ASSUME NEW s, NEW complete, NEW at, Good(s)
  PROVE  Good(HoldTick(s, complete, at)) /\ OnPath(s, HoldTick(s, complete, at))
  BY DEF Good, OnPath, Coherent, HoldTick, Confirming, Fields, PowerScreen, None

LEMMA HoldEndedGood ==
  ASSUME NEW s, NEW at, Good(s)
  PROVE  Good(HoldEnded(s, at)) /\ OnPath(s, HoldEnded(s, at))
  BY DEF Good, OnPath, Coherent, HoldEnded, Fields, PowerScreen, None

\* Only a confirmation and an error are left this way.
LEMMA ToSystemGood ==
  ASSUME NEW s, Good(s), s.screen \in {"power_confirm", "power_error"}
  PROVE  Good(ToSystem(s)) /\ OnPath(s, ToSystem(s))
  BY DEF Good, OnPath, Coherent, ToSystem, Fields, PowerScreen, None

LEMMA SystemPressGood ==
  ASSUME NEW t, NEW action, Good(t), t.screen = "system",
         action \in DOMAIN PendingOf => enabled
  PROVE  Good(SystemPress(t, action)) /\ OnPath(t, SystemPress(t, action))
  <1>1. CASE action \in DOMAIN PendingOf
    <2> DEFINE u == [t EXCEPT !.screen = "power_confirm", !.pending = PendingOf[action],
                              !.holdAt = NoTime, !.status = None, !.error = None]
    <2>1. PendingOf[action] \in PowerAction
      BY <1>1 DEF PendingOf, PowerAction
    <2>2. Good(u) /\ OnPath(t, u)
      BY <1>1, <2>1 DEF Good, OnPath, Coherent, Fields, PowerScreen, PowerAction, None
    <2>3. action # "system_back"
      BY <1>1 DEF PendingOf
    <2>4. SystemPress(t, action) = u
      BY <1>1, <2>3 DEF SystemPress
    <2> HIDE DEF u
    <2> QED BY <2>2, <2>4
  <1>2. CASE action \notin DOMAIN PendingOf
    <2>1. Plain(t, [t EXCEPT !.screen = "main_menu", !.menuPage = 1])
      BY DEF Plain, Good, Fields, PowerScreen
    <2>2. Plain(t, t)
      BY PlainReflexive DEF Good
    <2> QED BY <1>2, <2>1, <2>2, PlainIsGood DEF SystemPress
  <1> QED BY <1>1, <1>2

------------------------------------------------------------------------------
(* Presses and ticks *)

LEMMA SystemActionEnabled ==
  ASSUME NEW s, NEW L, NEW x, NEW y, s.screen = "system",
         VisibleAction(s, L, x, y) \in DOMAIN PendingOf
  PROVE  enabled
  <1>1. VisibleAction(s, L, x, y) = SystemAction(x, y)
    BY DEF VisibleAction
  <1>2. CASE ~enabled
    <2>1. SystemAction(x, y) \in {NoAction, "system_back"}
      BY <1>2 DEF SystemAction
    <2> QED BY <1>1, <2>1 DEF PendingOf, NoAction
  <1> QED BY <1>2

LEMMA TouchedGood ==
  ASSUME NEW s, NEW at, Good(s)
  PROVE  /\ Good(Touched(s, at))
         /\ Touched(s, at).screen = s.screen
         /\ \A u : OnPath(Touched(s, at), u) => OnPath(s, u)
  BY DEF Good, OnPath, Coherent, Touched, Fields

LEMMA PressedGood ==
  ASSUME NEW s, NEW L, NEW x, NEW y, NEW at, Good(s), s.screen # "power_pending"
  PROVE  Good(Pressed(s, L, x, y, at)) /\ OnPath(s, Pressed(s, L, x, y, at))
  <1> DEFINE t == Touched(s, at)
             action == VisibleAction(s, L, x, y)
  <1>1. Good(t) /\ t.screen = s.screen /\ \A u : OnPath(t, u) => OnPath(s, u)
    BY TouchedGood
  <1>2. DOMAIN t = Fields
    BY <1>1 DEF Good
  <1> HIDE DEF t
  <1>3. CASE s.screen = "overview"
    BY <1>1, <1>2, <1>3, OverviewPressPlain, PlainIsGood DEF Pressed, t
  <1>4. CASE s.screen = "main_menu"
    BY <1>1, <1>2, <1>4, MenuPressPlain, PlainIsGood DEF Pressed, t
  <1>5. CASE s.screen \in {"values", "graph"}
    BY <1>1, <1>2, <1>5, DetailPressPlain, PlainIsGood DEF Pressed, t
  <1>6. CASE s.screen = "nodes"
    BY <1>1, <1>2, <1>6, NodesPressPlain, PlainIsGood DEF Pressed, t
  <1>7. CASE s.screen = "system"
    <2>1. action \in DOMAIN PendingOf => enabled
      BY <1>7, SystemActionEnabled
    <2>2. Good(SystemPress(t, action)) /\ OnPath(t, SystemPress(t, action))
      BY <1>1, <1>7, <2>1, SystemPressGood
    <2> QED BY <1>1, <1>7, <2>2 DEF Pressed, t
  <1>8. CASE s.screen \in {"power_confirm", "power_error"}
    <2>1. Good(ToSystem(t)) /\ OnPath(t, ToSystem(t))
      BY <1>1, <1>8, ToSystemGood
    <2>2. Good(t) /\ OnPath(t, t)
      BY <1>1, <1>2, PlainReflexive, PlainIsGood
    <2> QED BY <1>1, <1>8, <2>1, <2>2 DEF Pressed, t
  <1>9. CASE s.screen \notin {"overview", "main_menu", "values", "graph", "nodes", "system",
                              "power_confirm", "power_error"}
    <2>1. Good(t) /\ OnPath(t, t)
      BY <1>1, <1>2, PlainReflexive, PlainIsGood
    <2> QED BY <1>1, <1>9, <2>1 DEF Pressed, t
  <1> QED BY <1>3, <1>4, <1>5, <1>6, <1>7, <1>8, <1>9

LEMMA ShortPressGood ==
  ASSUME NEW s, NEW L, NEW x, NEW y, NEW at, Good(s)
  PROVE  Good(ShortPress(s, L, x, y, at)) /\ OnPath(s, ShortPress(s, L, x, y, at))
  <1>1. Good(s) /\ OnPath(s, s)
    BY PlainReflexive, PlainIsGood DEF Good
  <1>2. ~PressIgnored(s, FALSE, x, y) => s.screen # "power_pending"
    BY DEF PressIgnored
  <1> QED BY <1>1, <1>2, PressedGood DEF ShortPress

LEMMA LongPressGood ==
  ASSUME NEW s, NEW L, NEW x, NEW y, NEW at, Good(s)
  PROVE  Good(LongPress(s, L, x, y, at)) /\ OnPath(s, LongPress(s, L, x, y, at))
  <1> DEFINE t == Touched(s, at)
             node == SelectedNode(s, L)
  <1>1. Plain(s, s) /\ Plain(s, t) /\ DOMAIN t = Fields /\ t.screen = s.screen
    BY PlainReflexive, TouchedPlain DEF Good, Plain
  <1>2. CASE s.screen \in {"overview", "values", "graph"}
    <2>1. Plain(t, OpenMainMenu(t, node))
      BY <1>1, <1>2, OpenMainMenuPlain DEF PowerScreen
    <2>2. Plain(s, OpenMainMenu(t, node))
      BY <1>1, <2>1, PlainTransitive
    <2> QED BY <1>1, <2>2, PlainIsGood DEF LongPress
  <1>3. CASE s.screen \notin {"overview", "values", "graph"}
    BY <1>1, <1>3, PlainIsGood DEF LongPress
  <1> QED BY <1>2, <1>3

LEMMA InactivityTickGood ==
  ASSUME NEW s, NEW menuOver, NEW detailOver, Good(s)
  PROVE  /\ Good(InactivityTick(s, menuOver, detailOver))
         /\ OnPath(s, InactivityTick(s, menuOver, detailOver))
  <1>1. Good(s) /\ OnPath(s, s)
    BY PlainReflexive, PlainIsGood DEF Good
  <1>2. CASE s.screen \in {"power_confirm", "power_error"}
    BY <1>1, <1>2, ToSystemGood DEF InactivityTick
  <1>3. CASE s.screen \in {"main_menu", "nodes", "system", "values", "graph"}
    <2>1. Plain(s, [s EXCEPT !.screen = "overview"])
      BY <1>3 DEF Plain, Good, Fields, PowerScreen
    <2> QED BY <1>1, <1>3, <2>1, PlainIsGood DEF InactivityTick
  <1>4. CASE s.screen \notin {"power_confirm", "power_error", "main_menu", "nodes",
                              "system", "values", "graph"}
    BY <1>1, <1>4 DEF InactivityTick
  <1> QED BY <1>2, <1>3, <1>4

LEMMA AutoRotateTickGood ==
  ASSUME NEW s, NEW L, NEW due, NEW at, Good(s)
  PROVE  Good(AutoRotateTick(s, L, due, at)) /\ OnPath(s, AutoRotateTick(s, L, due, at))
  <1>1. Plain(s, s) /\ Plain(s, StepNode(s, L, 1, at))
    BY PlainReflexive, StepNodePlain DEF Good
  <1> QED BY <1>1, PlainIsGood DEF AutoRotateTick

------------------------------------------------------------------------------
(* The specification *)

LEMMA InitGood ==
  ASSUME UiInit
  PROVE  Good(ui)
  BY DEF UiInit, UiStart, Good, Coherent, Fields, PowerScreen, None, PowerAction

LEMMA StepGood ==
  ASSUME Good(ui), [UiNext]_vars
  PROVE  Good(ui)' /\ OnPath(ui, ui')
  <1> SUFFICES enabled' = enabled /\ Good(ui') /\ OnPath(ui, ui')
    BY DEF Good, Coherent
  <1>0. Good(ui) /\ OnPath(ui, ui)
    BY PlainReflexive, PlainIsGood DEF Good
  <1>1. CASE Refresh
    <2>1. PICK L \in Lists \cup {nodes} : ui' = DataRefreshed(ui, L)
      BY <1>1 DEF Refresh
    <2>2. Plain(ui, ui')
      BY <2>1, DataRefreshedPlain DEF Good
    <2> QED BY <1>1, <2>2, PlainIsGood DEF Refresh
  <1>2. CASE PressShort
    BY <1>2, ShortPressGood DEF PressShort
  <1>3. CASE PressLong
    BY <1>3, LongPressGood DEF PressLong
  <1>4. CASE HoldEvent
    BY <1>4, HoldStartedGood, HoldTickGood, HoldEndedGood DEF HoldEvent
  <1>5. CASE RequestResult
    BY <1>5, RequestAcceptedGood, RequestFailedGood DEF RequestResult
  <1>6. CASE Inactive
    BY <1>6, InactivityTickGood DEF Inactive
  <1>7. CASE Rotate
    BY <1>7, AutoRotateTickGood DEF Rotate
  <1>8. CASE UNCHANGED vars
    BY <1>0, <1>8 DEF vars
  <1> QED BY <1>1, <1>2, <1>3, <1>4, <1>5, <1>6, <1>7, <1>8 DEF UiNext

\* On every screen the state keeps exactly what that screen needs about a request.
THEOREM PowerStaysCoherent == UiSpec => []PowerCoherent
  <1>1. UiInit => Good(ui)
    BY InitGood
  <1>2. Good(ui) /\ [UiNext]_vars => Good(ui)'
    BY StepGood
  <1>3. Good(ui) => PowerCoherent
    BY DEF Good, Coherent, PowerCoherent
  <1> QED BY <1>1, <1>2, <1>3, PTL DEF UiSpec

\* No order of presses, holds, timeouts, answers of the hub and results of requests
\* leaves the path of a power request.
THEOREM PowerKeepsItsPath == UiSpec => PowerPath
  <1>1. UiInit => Good(ui)
    BY InitGood
  <1>2. Good(ui) /\ [UiNext]_vars => Good(ui)'
    BY StepGood
  <1> DEFINE Allowed ==
        /\ ui'.screen = "power_confirm" /\ ui.screen # "power_confirm" => ui.screen = "system"
        /\ ui'.screen = "power_pending" /\ ui.screen # "power_pending" =>
             ui.screen = "power_confirm" /\ ui.holdAt # NoTime
        /\ ui.screen = "power_pending" =>
             \/ ui'.screen = "power_pending"
             \/ ui'.screen = "power_error" /\ ui.status = "sending"
        /\ ui.pending # None /\ ui'.pending # None => ui'.pending = ui.pending
  <1>3. Good(ui) /\ [UiNext]_vars => [Allowed]_vars
    BY StepGood DEF OnPath
  <1> QED BY <1>1, <1>2, <1>3, PTL DEF UiSpec, PowerPath

------------------------------------------------------------------------------
(* Lists and the order of their names *)

\* The numbers up to n are n.
LEMMA UpTo ==
  ASSUME NEW n \in Nat
  PROVE  IsFiniteSet(1..n) /\ Cardinality(1..n) = n
  <1>1. 1 \in Int /\ n \in Int
    OBVIOUS
  <1>2. IsFiniteSet(1..n) /\ Cardinality(1..n) = IF 1 > n THEN 0 ELSE n - 1 + 1
    BY <1>1, FS_Interval
  <1> QED BY <1>2

AList(L) == L \in Lists \cup {<<>>}

LEMMA ListFacts ==
  ASSUME NEW L, AList(L)
  PROVE  /\ L \in Seq(NodeItem) /\ Len(L) \in Nat /\ DOMAIN L = 1..Len(L)
         /\ ((L = <<>>) <=> (Len(L) = 0))
         /\ \A i \in DOMAIN L : L[i] \in NodeItem /\ L[i].id \in NodeId /\ L[i].id \in Nat
         /\ \A i, j \in DOMAIN L : L[i].id = L[j].id => i = j
  <1>1. L \in Seq(NodeItem)
    <2>1. <<>> \in Seq(NodeItem)
      OBVIOUS
    <2> QED BY <2>1, UiAssumption DEF AList
  <1>2. \A i, j \in DOMAIN L : L[i].id = L[j].id => i = j
    <2>1. CASE L \in Lists
      BY <2>1, UiAssumption
    <2>2. CASE L = <<>>
      BY <2>2
    <2> QED BY <2>1, <2>2 DEF AList
  <1>3. Len(L) \in Nat /\ DOMAIN L = 1..Len(L)
    BY <1>1
  <1>4. (L = <<>>) <=> (Len(L) = 0)
    BY <1>1
  <1>5. \A i \in DOMAIN L : L[i] \in NodeItem
    BY <1>1
  <1>6. \A i \in DOMAIN L : L[i].id \in NodeId
    BY <1>5 DEF NodeItem
  <1>7. \A i \in DOMAIN L : L[i].id \in Nat
    BY <1>6, UiAssumption
  <1> QED BY <1>1, <1>2, <1>3, <1>4, <1>5, <1>6, <1>7

\* A node is found where it is.
LEMMA IndexFound ==
  ASSUME NEW L, AList(L), NEW i \in DOMAIN L
  PROVE  L[i].id \in Ids(L) /\ IndexOf(L, L[i].id) = i - 1
  <1>1. \A j \in DOMAIN L : L[j].id = L[i].id => j = i
    BY ListFacts
  <1>2. (CHOOSE j \in DOMAIN L : L[j].id = L[i].id) = i
    BY <1>1
  <1> QED BY <1>2 DEF Ids, IndexOf

\* The nodes before a name are some of the list, without the named one.
LEMMA RankBound ==
  ASSUME NEW L, AList(L), NEW i \in DOMAIN L
  PROVE  Rank(L, L[i].id) \in 0..(Len(L) - 1)
  <1> DEFINE before == {k \in DOMAIN L : L[k].id < L[i].id}
  <1>1. IsFiniteSet(DOMAIN L) /\ Cardinality(DOMAIN L) = Len(L)
    <2>1. Len(L) \in Nat /\ DOMAIN L = 1..Len(L)
      BY ListFacts
    <2> HIDE DEF before
    <2> QED BY <2>1, UpTo
  <1>2. before \subseteq DOMAIN L \ {i}
    BY ListFacts
  <1>3. IsFiniteSet(DOMAIN L \ {i}) /\ Cardinality(DOMAIN L \ {i}) = Len(L) - 1
    BY <1>1, FS_RemoveElement
  <1>4. IsFiniteSet(before) /\ Cardinality(before) <= Len(L) - 1
    BY <1>2, <1>3, FS_Subset
  <1>5. Cardinality(before) \in Nat
    BY <1>4, FS_CardinalityType
  <1> QED BY <1>4, <1>5, ListFacts DEF Rank

\* Of two nodes the one with the smaller name has the smaller rank.
LEMMA RankGrows ==
  ASSUME NEW L, AList(L), NEW i \in DOMAIN L, NEW j \in DOMAIN L, L[i].id < L[j].id
  PROVE  Rank(L, L[i].id) < Rank(L, L[j].id)
  <1> DEFINE a == {k \in DOMAIN L : L[k].id < L[i].id}
             b == {k \in DOMAIN L : L[k].id < L[j].id}
  <1>1. a \subseteq b /\ i \in b /\ i \notin a
    BY ListFacts
  <1>2. IsFiniteSet(DOMAIN L)
    <2>1. Len(L) \in Nat /\ DOMAIN L = 1..Len(L)
      BY ListFacts
    <2> HIDE DEF a, b
    <2> QED BY <2>1, UpTo
  <1>3. IsFiniteSet(b) /\ IsFiniteSet(a)
    <2>1. a \in SUBSET DOMAIN L /\ b \in SUBSET DOMAIN L
      OBVIOUS
    <2> HIDE DEF a, b
    <2> QED BY <1>2, <2>1, FS_Subset
  <1>4. Cardinality(a) <= Cardinality(b) /\ Cardinality(a) # Cardinality(b)
    <2>1. a \in SUBSET b /\ a # b
      BY <1>1
    <2> HIDE DEF a, b
    <2> QED BY <1>3, <2>1, FS_Subset
  <1>5. Cardinality(a) \in Nat /\ Cardinality(b) \in Nat
    BY <1>3, FS_CardinalityType
  <1> QED BY <1>4, <1>5 DEF Rank

\* Every rank up to the length of the list is that of exactly one node.
LEMMA RankFound ==
  ASSUME NEW L, AList(L), NEW rank \in 0..(Len(L) - 1)
  PROVE  /\ \E i \in DOMAIN L : Rank(L, L[i].id) = rank
         /\ \A i, j \in DOMAIN L : Rank(L, L[i].id) = Rank(L, L[j].id) => i = j
  <1> DEFINE f == [i \in DOMAIN L |-> Rank(L, L[i].id)]
             T == 0..(Len(L) - 1)
  <1>1. \A i, j \in DOMAIN L : Rank(L, L[i].id) = Rank(L, L[j].id) => i = j
    <2> SUFFICES ASSUME NEW i \in DOMAIN L, NEW j \in DOMAIN L, i # j
                 PROVE  Rank(L, L[i].id) # Rank(L, L[j].id)
      OBVIOUS
    <2>1. L[i].id # L[j].id /\ L[i].id \in Nat /\ L[j].id \in Nat
      BY ListFacts
    <2>2. /\ Rank(L, L[i].id) \in 0..(Len(L) - 1)
          /\ Rank(L, L[j].id) \in 0..(Len(L) - 1)
      BY RankBound
    <2>3. CASE L[i].id < L[j].id
      BY <2>2, <2>3, RankGrows, ListFacts
    <2>4. CASE L[j].id < L[i].id
      BY <2>2, <2>4, RankGrows, ListFacts
    <2> QED BY <2>1, <2>3, <2>4
  <1>2. f \in Injection(DOMAIN L, T)
    <2>1. f \in [DOMAIN L -> T]
      BY RankBound
    <2>2. \A i, j \in DOMAIN L : f[i] = f[j] => i = j
      BY <1>1
    <2> HIDE DEF f, T
    <2> QED BY <2>1, <2>2 DEF Injection, IsInjective
  <1>3. IsFiniteSet(T) /\ Cardinality(T) = Cardinality(DOMAIN L)
    <2>1. Len(L) \in Nat /\ DOMAIN L = 1..Len(L)
      BY ListFacts
    <2>2. IsFiniteSet(T) /\ Cardinality(T) = Len(L)
      <3>1. 0 \in Int /\ Len(L) - 1 \in Int
        BY <2>1
      <3>2. /\ IsFiniteSet(0..(Len(L) - 1))
            /\ Cardinality(0..(Len(L) - 1)) =
                 IF 0 > Len(L) - 1 THEN 0 ELSE (Len(L) - 1) - 0 + 1
        BY <3>1, FS_Interval
      <3> QED BY <2>1, <3>2
    <2>3. Cardinality(DOMAIN L) = Len(L)
      BY <2>1, UpTo
    <2> QED BY <2>2, <2>3
  <1>4. \E i \in DOMAIN L : f[i] = rank
    <2>1. rank \in T
      OBVIOUS
    <2> HIDE DEF f, T
    <2>2. f \in Surjection(DOMAIN L, T)
      BY <1>2, <1>3, FS_Injection
    <2> QED BY <2>1, <2>2 DEF Surjection
  <1> QED BY <1>1, <1>4

\* The node at a position of the ordered list is in the list, and has that rank.
LEMMA OrderedFound ==
  ASSUME NEW L, AList(L), NEW rank \in 0..(Len(L) - 1)
  PROVE  \E i \in DOMAIN L : OrderedId(L, rank) = L[i].id /\ Rank(L, L[i].id) = rank
  <1>1. \E id \in Ids(L) : Rank(L, id) = rank
    BY RankFound DEF Ids
  <1>2. OrderedId(L, rank) \in Ids(L) /\ Rank(L, OrderedId(L, rank)) = rank
    BY <1>1 DEF OrderedId
  <1> QED BY <1>2 DEF Ids

\* The first of the ordered list has no name before it.
LEMMA OrderedFirst ==
  ASSUME NEW L, AList(L), L # <<>>, NEW id \in Ids(L)
  PROVE  OrderedId(L, 0) <= id
  <1>1. 0 \in 0..(Len(L) - 1)
    BY ListFacts
  <1>2. PICK i \in DOMAIN L : OrderedId(L, 0) = L[i].id /\ Rank(L, L[i].id) = 0
    BY <1>1, OrderedFound
  <1>3. PICK j \in DOMAIN L : id = L[j].id
    BY DEF Ids
  <1>4. ~(L[j].id < L[i].id)
    <2>1. Rank(L, L[j].id) \in 0..(Len(L) - 1)
      BY RankBound
    <2>2. ~(Rank(L, L[j].id) < 0)
      BY <2>1
    <2> QED BY <1>2, <2>2, RankGrows
  <1>5. L[i].id \in Nat /\ L[j].id \in Nat
    BY ListFacts
  <1> QED BY <1>2, <1>3, <1>4, <1>5

------------------------------------------------------------------------------
(* The selected node and its category *)

\* M is the set the times are taken from
StateType(M) ==
  [screen : Screen, selected : NodeId \cup {NoNode}, hint : Nat,
   category : Category, metrics : [Category -> Nat],
   menuPage : 0..(MenuPageCount - 1), nodesPage : Nat,
   pending : PowerAction \cup {None}, holdAt : M \cup {NoTime},
   status : {None, "sending", "accepted"}, error : PowerRequestError \cup {None},
   interactionAt : M, pressedAt : M, rotatedAt : M]

Typed(s, M) == s \in StateType(M) /\ \A c \in Category : s.metrics[c] < ChartMetrics[c]

\* SelectionAgrees, CategoryShown and the page of NodesReachable of any state
Located(s, L) ==
  IF L = <<>> THEN s.selected = NoNode /\ s.hint = 0
  ELSE \E i \in DOMAIN L : s.selected = L[i].id /\ s.hint = i - 1

Fits(s, L) ==
  s.screen \in {"values", "graph"} =>
    \E i \in DOMAIN L : /\ s.selected = L[i].id /\ s.category \in L[i].cats
                        /\ s.screen = "graph" => CanOpenGraph(s.category)

OnPage(s, L) ==
  s.screen = "nodes" => L # <<>> /\ s.nodesPage \in 0..(NodesPageCount(Len(L)) - 1)

Sound(s, L, M) == Typed(s, M) /\ Located(s, L) /\ Fits(s, L) /\ OnPage(s, L)

\* A selection always ends on a node of the list, the named one if it is there.
LEMMA SelectedIndexFound ==
  ASSUME NEW L, AList(L), L # <<>>, NEW id, NEW fallback \in Nat
  PROVE  \E i \in DOMAIN L : /\ SelectedIndex(L, id, fallback) = i - 1
                             /\ NodeAt(L, SelectedIndex(L, id, fallback)) = L[i]
                             /\ id \in Ids(L) => L[i].id = id
  <1>1. Len(L) \in Nat \ {0} /\ DOMAIN L = 1..Len(L)
    BY ListFacts
  <1>2. CASE id \in Ids(L)
    <2>1. PICK i \in DOMAIN L : L[i].id = id
      BY <1>2 DEF Ids
    <2>2. SelectedIndex(L, id, fallback) = i - 1
      BY <1>2, <2>1, IndexFound DEF SelectedIndex
    <2>3. NodeAt(L, i - 1) = L[i]
      BY <1>1, i - 1 + 1 = i DEF NodeAt
    <2> QED BY <2>1, <2>2, <2>3
  <1>3. CASE id \notin Ids(L)
    <2> DEFINE k == AtMost(fallback, Len(L) - 1)
    <2>1. k + 1 \in DOMAIN L /\ (k + 1) - 1 = k
      BY <1>1 DEF AtMost
    <2>2. SelectedIndex(L, id, fallback) = k /\ NodeAt(L, k) = L[k + 1]
      BY <1>3 DEF SelectedIndex, NodeAt
    <2> HIDE DEF k
    <2> QED BY <1>3, <2>1, <2>2
  <1> QED BY <1>2, <1>3

\* What is selected is where the hint says.
LEMMA SelectedFound ==
  ASSUME NEW L, AList(L), NEW s, NEW i \in DOMAIN L, s.selected = L[i].id
  PROVE  SelectedIndex(L, s.selected, s.hint) = i - 1 /\ SelectedNode(s, L) = L[i]
  <1>1. L[i].id \in Ids(L) /\ IndexOf(L, L[i].id) = i - 1
    BY IndexFound
  <1>2. SelectedIndex(L, s.selected, s.hint) = i - 1
    BY <1>1 DEF SelectedIndex
  <1>3. (i - 1) + 1 = i
    BY ListFacts
  <1> QED BY <1>2, <1>3 DEF SelectedNode, NodeAt

\* The category shown is one the node has, the current one if it has it.
LEMMA CategoryFits ==
  ASSUME NEW s, NEW node \in NodeItem
  PROVE  /\ CategoryId(s, node) \in node.cats /\ CategoryId(s, node) \in Category
         /\ s.category \in node.cats => CategoryId(s, node) = s.category
  <1>1. node.cats \subseteq Category /\ "health" \in node.cats
    BY DEF NodeItem
  <1> DEFINE First(i) == /\ CategoryOrder[i] \in node.cats
                         /\ \A j \in 1..(i - 1) : CategoryOrder[j] \notin node.cats
  <1>2. DOMAIN CategoryOrder = 1..6 /\ CategoryOrder[6] = "health"
    BY DEF CategoryOrder
  <1>3. \E i \in 1..6 : First(i)
    <2> DEFINE has(i) == CategoryOrder[i] \in node.cats
    <2>1. has(6)
      BY <1>1, <1>2
    <2>2. CASE has(1)
      <3>1. \A j \in 1..(1 - 1) : FALSE
        OBVIOUS
      <3> QED BY <2>1, <2>2, <3>1
    <2>3. CASE ~has(1) /\ has(2)
      <3>1. \A j \in 1..(2 - 1) : j = 1
        OBVIOUS
      <3> QED BY <2>1, <2>3, <3>1
    <2>4. CASE ~has(1) /\ ~has(2) /\ has(3)
      <3>1. \A j \in 1..(3 - 1) : j = 1 \/ j = 2
        OBVIOUS
      <3> QED BY <2>1, <2>4, <3>1
    <2>5. CASE ~has(1) /\ ~has(2) /\ ~has(3) /\ has(4)
      <3>1. \A j \in 1..(4 - 1) : j = 1 \/ j = 2 \/ j = 3
        OBVIOUS
      <3> QED BY <2>1, <2>5, <3>1
    <2>6. CASE ~has(1) /\ ~has(2) /\ ~has(3) /\ ~has(4) /\ has(5)
      <3>1. \A j \in 1..(5 - 1) : j = 1 \/ j = 2 \/ j = 3 \/ j = 4
        OBVIOUS
      <3> QED BY <2>1, <2>6, <3>1
    <2>7. CASE ~has(1) /\ ~has(2) /\ ~has(3) /\ ~has(4) /\ ~has(5)
      <3>1. \A j \in 1..(6 - 1) : j = 1 \/ j = 2 \/ j = 3 \/ j = 4 \/ j = 5
        OBVIOUS
      <3> QED BY <2>1, <2>7, <3>1
    <2> QED BY <2>2, <2>3, <2>4, <2>5, <2>6, <2>7
  <1>4. DefaultCategory(node) \in node.cats
    BY <1>2, <1>3 DEF DefaultCategory
  <1> QED BY <1>1, <1>4 DEF CategoryId

------------------------------------------------------------------------------
(* The steps several events share *)

\* A step that leaves the selection alone is sound unless it shows a screen about it.
LEMMA KeptSound ==
  ASSUME NEW M, NEW s, NEW t, NEW L, Sound(s, L, M), Typed(t, M),
         t.selected = s.selected, t.hint = s.hint, t.category = s.category,
         t.nodesPage = s.nodesPage,
         t.screen = s.screen \/ t.screen \notin {"values", "graph", "nodes"}
  PROVE  Sound(t, L, M)
  BY DEF Sound, Located, Fits, OnPage

LEMMA TouchedSound ==
  ASSUME NEW M, NEW s, NEW L, NEW at \in M, Sound(s, L, M)
  PROVE  Sound(Touched(s, at), L, M)
  <1>1. /\ Typed(Touched(s, at), M) /\ Touched(s, at).screen = s.screen
        /\ Touched(s, at).selected = s.selected /\ Touched(s, at).hint = s.hint
        /\ Touched(s, at).category = s.category /\ Touched(s, at).nodesPage = s.nodesPage
    BY DEF Sound, Typed, StateType, Touched
  <1> QED BY <1>1, KeptSound

LEMMA OpenMainMenuSound ==
  ASSUME NEW M, NEW s, NEW L, NEW node \in NodeItem, Typed(s, M), Located(s, L)
  PROVE  Sound(OpenMainMenu(s, node), L, M)
  <1> DEFINE c == CategoryId(s, node)
             t == OpenMainMenu(s, node)
  <1>1. c \in Category /\ MenuPageFor(c) \in 0..(MenuPageCount - 1)
    BY CategoryFits DEF MenuPageFor, MenuPageCount
  <1>2. t = [s EXCEPT !.category = c, !.menuPage = MenuPageFor(c), !.screen = "main_menu"]
    BY DEF OpenMainMenu
  <1> HIDE DEF c, t
  <1>3. Typed(t, M) /\ t.selected = s.selected /\ t.hint = s.hint /\ t.screen = "main_menu"
    BY <1>1, <1>2 DEF Typed, StateType, Screen
  <1> QED BY <1>3 DEF Sound, Located, Fits, OnPage, t

LEMMA SelectNodeSound ==
  ASSUME NEW M, NEW s, NEW L, AList(L), NEW i \in DOMAIN L, NEW at \in M,
         Typed(s, M), OnPage(s, L)
  PROVE  /\ Sound(SelectNode(s, L, i - 1, at), L, M)
         /\ SelectNode(s, L, i - 1, at).screen \in {s.screen, "values"}
  <1> DEFINE chosen == [s EXCEPT !.selected = NodeAt(L, i - 1).id, !.hint = i - 1,
                                 !.rotatedAt = at]
             c == CategoryId(chosen, NodeAt(L, i - 1))
             before == CategoryId(s, SelectedNode(s, L))
             page == IF s.screen # "main_menu" THEN s.menuPage
                     ELSE IF c # before THEN MenuPageFor(c) ELSE NormalizeMenuPage(s.menuPage)
             screen == IF s.screen = "graph" /\ ~CanOpenGraph(c) THEN "values" ELSE s.screen
             t == SelectNode(s, L, i - 1, at)
  <1>1. /\ NodeAt(L, i - 1) = L[i] /\ L[i] \in NodeItem /\ L[i].id \in NodeId
        /\ i - 1 \in Nat /\ L # <<>>
    <2>1. DOMAIN L = 1..Len(L) /\ Len(L) \in Nat
      BY ListFacts
    <2>2. (i - 1) + 1 = i /\ i - 1 \in Nat
      BY <2>1
    <2> QED BY <2>2, ListFacts DEF NodeAt
  <1>2. Typed(chosen, M) /\ chosen.selected = L[i].id /\ chosen.hint = i - 1
        /\ chosen.screen = s.screen /\ chosen.nodesPage = s.nodesPage
        /\ chosen.menuPage = s.menuPage
    BY <1>1 DEF Typed, StateType
  <1>3. c \in L[i].cats /\ c \in Category
    BY <1>1, CategoryFits
  <1>4. page \in 0..(MenuPageCount - 1) /\ screen \in Screen
    BY DEF Typed, StateType, MenuPageFor, MenuPageCount, NormalizeMenuPage, Normalize,
           AtMost, Screen
  <1>5. CASE s.screen \notin {"main_menu", "values", "graph"}
    <2>1. t = chosen
      BY <1>5 DEF SelectNode
    <2> HIDE DEF t, chosen
    <2>2. Typed(t, M) /\ Located(t, L) /\ Fits(t, L) /\ OnPage(t, L)
      BY <1>1, <1>2, <1>5, <2>1 DEF Located, Fits, OnPage
    <2>3. t.screen = s.screen
      BY <1>2, <2>1
    <2> QED BY <2>2, <2>3 DEF Sound, t
  <1>6. CASE s.screen \in {"main_menu", "values", "graph"}
    <2>1. t = [chosen EXCEPT !.category = c, !.menuPage = page, !.screen = screen]
      BY <1>2, <1>6 DEF SelectNode
    <2> HIDE DEF t, chosen, c, page
    <2>2. /\ Typed(t, M) /\ t.selected = L[i].id /\ t.hint = i - 1 /\ t.category = c
          /\ t.screen = screen
      BY <1>2, <1>3, <1>4, <2>1 DEF Typed, StateType
    <2>3. Located(t, L) /\ Fits(t, L) /\ OnPage(t, L)
      BY <1>1, <1>3, <1>6, <2>2 DEF Located, Fits, OnPage
    <2> QED BY <2>2, <2>3 DEF Sound, t
  <1> QED BY <1>5, <1>6

LEMMA StepNodeSound ==
  ASSUME NEW M, NEW s, NEW L, AList(L), NEW delta \in Int, NEW at \in M, Sound(s, L, M)
  PROVE  Sound(StepNode(s, L, delta, at), L, M)
  <1> DEFINE index == Move(SelectedIndex(L, s.selected, s.hint), Len(L), delta)
  <1>1. CASE Len(L) > 1
    <2>1. Len(L) \in Nat /\ DOMAIN L = 1..Len(L) /\ L # <<>>
      BY <1>1, ListFacts
    <2>2. PICK i \in DOMAIN L : SelectedIndex(L, s.selected, s.hint) = i - 1
      BY <2>1, SelectedIndexFound DEF Sound, Typed, StateType
    <2>3. index + 1 \in DOMAIN L /\ (index + 1) - 1 = index
      BY <1>1, <2>1, <2>2 DEF Move
    <2>4. StepNode(s, L, delta, at) = SelectNode(s, L, index, at)
      BY <1>1 DEF StepNode
    <2> HIDE DEF index
    <2> QED BY <2>3, <2>4, SelectNodeSound DEF Sound
  <1>2. CASE ~(Len(L) > 1)
    BY <1>2 DEF StepNode
  <1> QED BY <1>1, <1>2

LEMMA StepMetricSound ==
  ASSUME NEW M, NEW s, NEW L, NEW node \in NodeItem, NEW delta \in Int, Sound(s, L, M)
  PROVE  Sound(StepMetric(s, node, delta), L, M)
  <1> DEFINE c == CategoryId(s, node)
             n == Move(s.metrics[c], ChartMetrics[c], delta)
             t == StepMetric(s, node, delta)
  <1>1. c \in Category
    BY CategoryFits
  <1>2. ChartMetrics[c] \in Nat \ {0} /\ s.metrics[c] \in Nat
    BY <1>1, UiAssumption DEF Sound, Typed, StateType
  <1>3. n \in Nat /\ n < ChartMetrics[c]
    BY <1>2 DEF Move
  <1>4. t = [s EXCEPT !.metrics = [s.metrics EXCEPT ![c] = n]]
    BY DEF StepMetric
  <1> HIDE DEF c, n, t
  <1>5. Typed(t, M) /\ t.selected = s.selected /\ t.hint = s.hint /\ t.category = s.category
        /\ t.nodesPage = s.nodesPage /\ t.screen = s.screen
    <2> DEFINE m == [s.metrics EXCEPT ![c] = n]
    <2>1. s \in StateType(M) /\ s.metrics \in [Category -> Nat]
          /\ \A d \in Category : s.metrics[d] < ChartMetrics[d]
      BY DEF Sound, Typed, StateType
    <2>2. m \in [Category -> Nat] /\ \A d \in Category : m[d] < ChartMetrics[d]
      BY <1>1, <1>3, <2>1
    <2>3. t = [s EXCEPT !.metrics = m]
      BY <1>4
    <2> HIDE DEF m
    <2>4. t \in StateType(M) /\ t.metrics = m
      BY <2>1, <2>2, <2>3 DEF StateType
    <2>5. /\ t.selected = s.selected /\ t.hint = s.hint /\ t.category = s.category
          /\ t.nodesPage = s.nodesPage /\ t.screen = s.screen
      BY <2>1, <2>3 DEF StateType
    <2> QED BY <2>2, <2>4, <2>5 DEF Typed
  <1> QED BY <1>5, KeptSound DEF t

------------------------------------------------------------------------------
(* An answer of the hub *)

LEMMA PagesFacts ==
  ASSUME NEW count \in Nat \ {0}
  PROVE  /\ NodesPageCount(count) \in Nat \ {0}
         /\ \A page \in Nat : NormalizeNodesPage(page, count) \in 0..(NodesPageCount(count) - 1)
         /\ \A page \in 0..(NodesPageCount(count) - 1) : NormalizeNodesPage(page, count) = page
  <1>1. NodesPageCount(count) \in Nat \ {0}
    BY DEF NodesPageCount, NodesPageSize
  <1> QED BY <1>1 DEF NormalizeNodesPage, Normalize, AtMost

LEMMA FollowCategorySound ==
  ASSUME NEW M, NEW t, NEW L, AList(L), NEW i \in DOMAIN L, Typed(t, M),
         t.selected = L[i].id, t.hint = i - 1, t.screen # "nodes"
  PROVE  Sound(FollowCategory(t, L[i]), L, M) /\ FollowCategory(t, L[i]).selected = t.selected
  <1> DEFINE node == L[i]
             u == FollowCategory(t, node)
  <1>1. node \in NodeItem /\ L # <<>>
    BY ListFacts
  <1>2. Located(t, L)
    BY <1>1 DEF Located
  <1>3. CASE t.screen = "main_menu" /\ t.category \notin node.cats
    <2>1. u = OpenMainMenu(t, node)
      BY <1>3 DEF FollowCategory
    <2>2. OpenMainMenu(t, node).selected = t.selected
      BY DEF OpenMainMenu, Typed, StateType
    <2> QED BY <1>1, <1>2, <2>1, <2>2, OpenMainMenuSound
  <1>4. CASE t.screen = "main_menu" /\ t.category \in node.cats
    <2>1. u = [t EXCEPT !.menuPage = NormalizeMenuPage(t.menuPage)]
      BY <1>4 DEF FollowCategory
    <2>2. NormalizeMenuPage(t.menuPage) \in 0..(MenuPageCount - 1)
      BY DEF Typed, StateType, MenuPageCount, NormalizeMenuPage, Normalize, AtMost
    <2> HIDE DEF u
    <2>3. Typed(u, M) /\ u.selected = t.selected /\ u.hint = t.hint /\ u.screen = "main_menu"
      BY <1>4, <2>1, <2>2 DEF Typed, StateType
    <2> QED BY <1>2, <2>3 DEF Sound, Located, Fits, OnPage, u
  <1>5. CASE t.screen \in {"values", "graph"}
    <2> DEFINE screen == IF t.category \notin node.cats THEN "overview"
                         ELSE IF t.screen = "graph" /\ ~CanOpenGraph(t.category) THEN "values"
                         ELSE t.screen
    <2>1. u = [t EXCEPT !.screen = screen]
      <3>1. t = [t EXCEPT !.screen = t.screen]
        BY DEF Typed, StateType
      <3> QED BY <1>5, <3>1 DEF FollowCategory
    <2>2. screen \in Screen
      BY <1>5 DEF Screen
    <2> HIDE DEF u
    <2>3. Typed(u, M) /\ u.selected = t.selected /\ u.hint = t.hint /\ u.category = t.category
          /\ u.screen = screen
      BY <2>1, <2>2 DEF Typed, StateType
    <2>4. Fits(u, L) /\ OnPage(u, L)
      BY <1>5, <2>3 DEF Fits, OnPage
    <2> QED BY <1>2, <2>3, <2>4 DEF Sound, Located, u
  <1>6. CASE t.screen \notin {"main_menu", "values", "graph"}
    <2>1. u = t
      BY <1>6 DEF FollowCategory
    <2>2. Fits(t, L) /\ OnPage(t, L)
      BY <1>6 DEF Fits, OnPage
    <2> QED BY <1>2, <2>1, <2>2 DEF Sound
  <1> QED BY <1>3, <1>4, <1>5, <1>6

LEMMA RefreshNodesSound ==
  ASSUME NEW M, NEW s, NEW L, AList(L), Typed(s, M), s.screen = "nodes"
  PROVE  /\ Sound(RefreshNodesScreen(s, L), L, M)
         /\ SelectionFollows(s, RefreshNodesScreen(s, L), L)
  <1> DEFINE t == RefreshNodesScreen(s, L)
  <1>1. CASE L = <<>>
    <2>1. t = [s EXCEPT !.selected = NoNode, !.hint = 0, !.nodesPage = 0, !.screen = "overview"]
      BY <1>1 DEF RefreshNodesScreen, NoSelection
    <2> HIDE DEF t
    <2>2. Typed(t, M) /\ t.selected = NoNode /\ t.hint = 0 /\ t.screen = "overview"
      BY <2>1 DEF Typed, StateType, Screen
    <2>3. Ids(L) = {}
      BY <1>1 DEF Ids
    <2> QED BY <1>1, <2>2, <2>3 DEF Sound, Located, Fits, OnPage, SelectionFollows, t
  <1>2. CASE L # <<>>
    <2>1. Len(L) \in Nat \ {0}
      BY <1>2, ListFacts
    <2> DEFINE kept == s.selected \in Ids(L)
               id == IF kept THEN s.selected ELSE OrderedId(L, 0)
               page == IF kept THEN NormalizeNodesPage(s.nodesPage, Len(L)) ELSE 0
    <2>2. PICK i \in DOMAIN L : id = L[i].id
      <3>1. CASE kept
        BY <3>1 DEF Ids
      <3>2. CASE ~kept
        <4>1. 0 \in 0..(Len(L) - 1)
          BY <2>1
        <4> QED BY <3>2, <4>1, OrderedFound
      <3> QED BY <3>1, <3>2
    <2>3. id \in NodeId /\ IndexOf(L, id) = i - 1 /\ i - 1 \in Nat
      <3>1. i - 1 \in Nat
        BY ListFacts
      <3> QED BY <2>2, <3>1, ListFacts, IndexFound
    <2>4. page \in 0..(NodesPageCount(Len(L)) - 1) /\ page \in Nat
      <3>1. /\ NodesPageCount(Len(L)) \in Nat \ {0} /\ s.nodesPage \in Nat
            /\ NormalizeNodesPage(s.nodesPage, Len(L)) \in 0..(NodesPageCount(Len(L)) - 1)
        BY <2>1, PagesFacts DEF Typed, StateType
      <3> QED BY <3>1
    <2>5. t = [s EXCEPT !.selected = id, !.hint = IndexOf(L, id), !.nodesPage = page]
      BY <1>2 DEF RefreshNodesScreen
    <2>6. kept => id = s.selected
      OBVIOUS
    <2>7. ~kept => page = 0 /\ \A other \in Ids(L) : id <= other
      BY <1>2, OrderedFirst
    <2>8. kept => page = s.nodesPage \/ (page < s.nodesPage /\ page = NodesPageCount(Len(L)) - 1)
      <3>1. NodesPageCount(Len(L)) \in Nat \ {0} /\ s.nodesPage \in Nat
        BY <2>1, PagesFacts DEF Typed, StateType
      <3>2. kept => page = NormalizeNodesPage(s.nodesPage, Len(L))
        OBVIOUS
      <3> HIDE DEF page
      <3> QED BY <3>1, <3>2 DEF NormalizeNodesPage, Normalize, AtMost
    <2> HIDE DEF t, id, page
    <2>9. /\ Typed(t, M) /\ t.selected = id /\ t.hint = i - 1 /\ t.nodesPage = page
          /\ t.screen = "nodes"
      BY <2>3, <2>4, <2>5 DEF Typed, StateType
    <2>10. SelectionFollows(s, t, L)
      <3>1. s.selected \in Ids(L) => t.selected = s.selected
        BY <2>6, <2>9
      <3> QED BY <2>7, <2>8, <2>9, <3>1 DEF SelectionFollows
    <2> QED BY <1>2, <2>2, <2>4, <2>9, <2>10 DEF Sound, Located, Fits, OnPage, t
  <1> QED BY <1>1, <1>2

LEMMA RefreshOtherSound ==
  ASSUME NEW M, NEW s, NEW L, AList(L), Typed(s, M), s.screen # "nodes"
  PROVE  /\ Sound(RefreshOtherScreen(s, L), L, M)
         /\ s.selected \in Ids(L) => RefreshOtherScreen(s, L).selected = s.selected
  <1> DEFINE t == RefreshOtherScreen(s, L)
  <1>1. CASE L = <<>>
    <2> DEFINE screen == IF s.screen \in {"main_menu", "values", "graph"} THEN "overview"
                         ELSE s.screen
    <2>1. t = [s EXCEPT !.selected = NoNode, !.hint = 0, !.screen = screen]
      BY <1>1 DEF RefreshOtherScreen, NoSelection, Typed, StateType
    <2>2. screen \in Screen
      BY DEF Screen, Typed, StateType
    <2>3. screen \notin {"values", "graph", "nodes"}
      OBVIOUS
    <2> HIDE DEF t, screen
    <2>4. Typed(t, M) /\ t.selected = NoNode /\ t.hint = 0 /\ t.screen = screen
      BY <2>1, <2>2 DEF Typed, StateType
    <2>5. Ids(L) = {}
      BY <1>1 DEF Ids
    <2> QED BY <1>1, <2>3, <2>4, <2>5 DEF Sound, Located, Fits, OnPage, t
  <1>2. CASE L # <<>>
    <2> DEFINE index == SelectedIndex(L, s.selected, s.hint)
               chosen == [s EXCEPT !.selected = NodeAt(L, index).id, !.hint = index]
    <2>1. PICK i \in DOMAIN L : /\ index = i - 1 /\ NodeAt(L, index) = L[i]
                                /\ s.selected \in Ids(L) => L[i].id = s.selected
      BY <1>2, SelectedIndexFound DEF Typed, StateType
    <2>2. i - 1 \in Nat /\ L[i].id \in NodeId
      BY ListFacts
    <2> HIDE DEF index
    <2>3. /\ Typed(chosen, M) /\ chosen.selected = L[i].id /\ chosen.hint = i - 1
          /\ chosen.screen = s.screen
      BY <2>1, <2>2 DEF Typed, StateType
    <2>4. t = FollowCategory(chosen, L[i])
      BY <1>2, <2>1 DEF RefreshOtherScreen, index
    <2> HIDE DEF t, chosen
    <2> QED BY <2>1, <2>3, <2>4, FollowCategorySound DEF t
  <1> QED BY <1>1, <1>2

\* Whatever was selected, in whatever list, an answer leaves the state sound.
LEMMA DataRefreshedSound ==
  ASSUME NEW M, NEW s, NEW L, AList(L), Typed(s, M)
  PROVE  /\ Sound(DataRefreshed(s, L), L, M)
         /\ SelectionFollows(s, DataRefreshed(s, L), L)
  BY RefreshNodesSound, RefreshOtherSound DEF DataRefreshed, SelectionFollows

------------------------------------------------------------------------------
(* Presses *)

LEMMA StepOfIsOne == ASSUME NEW action PROVE StepOf(action) \in Int
  BY DEF StepOf

\* A screen about the category the selected node has.
LEMMA ScreenOfNodeSound ==
  ASSUME NEW M, NEW t, NEW L, AList(L), NEW i \in DOMAIN L, Typed(t, M),
         t.selected = L[i].id, t.hint = i - 1, t.screen \in {"values", "graph"},
         t.category \in L[i].cats, t.screen = "graph" => CanOpenGraph(t.category)
  PROVE  Sound(t, L, M)
  <1>1. L # <<>>
    BY ListFacts
  <1> QED BY <1>1 DEF Sound, Located, Fits, OnPage

LEMMA OverviewPressSound ==
  ASSUME NEW M, NEW t, NEW L, AList(L), NEW action, NEW at \in M,
         Sound(t, L, M), t.screen = "overview"
  PROVE  Sound(OverviewPress(t, L, action, at), L, M)
  <1> DEFINE index == SelectedIndex(L, t.selected, t.hint)
             u == OpenValues(t, L)
  <1>1. CASE action \in {"previous", "next"}
    BY <1>1, StepNodeSound, StepOfIsOne DEF OverviewPress
  <1>2. CASE action = "center" /\ L # <<>>
    <2>1. PICK i \in DOMAIN L : index = i - 1 /\ NodeAt(L, index) = L[i]
      BY <1>2, SelectedIndexFound DEF Sound, Typed, StateType
    <2>2. i - 1 \in Nat /\ L[i].id \in NodeId /\ L[i] \in NodeItem
      BY ListFacts
    <2> DEFINE c == CategoryId(t, L[i])
    <2>3. c \in L[i].cats /\ c \in Category
      BY <2>2, CategoryFits
    <2>4. u = [t EXCEPT !.selected = L[i].id, !.hint = i - 1, !.category = c,
                        !.screen = "values"]
      BY <2>1 DEF OpenValues
    <2> HIDE DEF u, c
    <2>5. /\ Typed(u, M) /\ u.selected = L[i].id /\ u.hint = i - 1 /\ u.category = c
          /\ u.screen = "values"
      BY <2>2, <2>3, <2>4 DEF Sound, Typed, StateType, Screen
    <2>6. Sound(u, L, M)
      BY <2>3, <2>5, ScreenOfNodeSound
    <2> QED BY <1>2, <2>6 DEF OverviewPress, u
  <1>3. CASE action \notin {"previous", "next"} /\ ~(action = "center" /\ L # <<>>)
    BY <1>3 DEF OverviewPress
  <1> QED BY <1>1, <1>2, <1>3

LEMMA OpenNodesSound ==
  ASSUME NEW M, NEW t, NEW L, AList(L), L # <<>>, Typed(t, M)
  PROVE  Sound(OpenNodes(t, L), L, M)
  <1> DEFINE id == IF t.selected \in Ids(L) THEN t.selected ELSE OrderedId(L, 0)
             page == Rank(L, id) \div NodesPageSize
             u == OpenNodes(t, L)
  <1>1. Len(L) \in Nat \ {0}
    BY ListFacts
  <1>2. PICK i \in DOMAIN L : id = L[i].id
    <2>1. CASE t.selected \in Ids(L)
      BY <2>1 DEF Ids
    <2>2. CASE t.selected \notin Ids(L)
      <3>1. 0 \in 0..(Len(L) - 1)
        BY <1>1
      <3> QED BY <2>2, <3>1, OrderedFound
    <2> QED BY <2>1, <2>2
  <1>3. id \in NodeId /\ IndexOf(L, id) = i - 1 /\ i - 1 \in Nat
    <2>1. i - 1 \in Nat
      BY ListFacts
    <2> QED BY <1>2, <2>1, ListFacts, IndexFound
  <1>4. page \in 0..(NodesPageCount(Len(L)) - 1) /\ page \in Nat
    <2>1. Rank(L, id) \in 0..(Len(L) - 1)
      BY <1>2, RankBound
    <2>2. /\ NodesPageCount(Len(L)) = (Len(L) + 2) \div 3
      BY <1>1 DEF NodesPageCount, NodesPageSize
    <2> HIDE DEF id
    <2> QED BY <1>1, <2>1, <2>2 DEF NodesPageSize
  <1>5. u = [t EXCEPT !.screen = "nodes", !.selected = id, !.hint = IndexOf(L, id),
                      !.nodesPage = page]
    BY DEF OpenNodes
  <1> HIDE DEF u, id, page
  <1>6. /\ Typed(u, M) /\ u.selected = id /\ u.hint = i - 1 /\ u.nodesPage = page
        /\ u.screen = "nodes"
    BY <1>3, <1>4, <1>5 DEF Typed, StateType, Screen
  <1> QED BY <1>2, <1>4, <1>6 DEF Sound, Located, Fits, OnPage, u

\* What a press on the menu can mean.
LEMMA MenuActionFits ==
  ASSUME NEW M, NEW s, NEW L, AList(L), NEW x, NEW y, Sound(s, L, M), s.screen = "main_menu"
  PROVE  LET action == VisibleAction(s, L, x, y) IN
         /\ action = "nodes" => L # <<>>
         /\ action \in Category =>
              \E i \in DOMAIN L : s.selected = L[i].id /\ s.hint = i - 1 /\ action \in L[i].cats
  <1> DEFINE action == VisibleAction(s, L, x, y)
  <1>1. CASE L = <<>>
    <2>1. action = At(Footer, x, y)
      BY <1>1 DEF VisibleAction, PlainAction
    <2>2. action \in {"previous", "center", "next", NoAction}
      BY <2>1 DEF At, Footer
    <2> HIDE DEF action
    <2>3. action # "nodes" /\ action \notin Category
      BY <2>2 DEF NoAction, Category
    <2> QED BY <2>3 DEF action
  <1>2. CASE L # <<>>
    <2>1. PICK i \in DOMAIN L : s.selected = L[i].id /\ s.hint = i - 1
      BY <1>2 DEF Sound, Located
    <2>2. SelectedNode(s, L) = L[i]
      BY <2>1, SelectedFound
    <2>3. action = MenuAction(s, L, x, y)
      BY <1>2 DEF VisibleAction
    <2>4. action \in Category => action \in L[i].cats
      BY <2>2, <2>3 DEF MenuAction, Hint, Category
    <2> QED BY <1>2, <2>1, <2>4
  <1> QED BY <1>1, <1>2

LEMMA MenuPressSound ==
  ASSUME NEW M, NEW t, NEW L, AList(L), NEW action, NEW at \in M,
         Sound(t, L, M), t.screen = "main_menu", action = "nodes" => L # <<>>,
         action \in Category =>
           \E i \in DOMAIN L : t.selected = L[i].id /\ t.hint = i - 1 /\ action \in L[i].cats
  PROVE  Sound(MenuPress(t, L, action, at), L, M)
  <1>1. CASE action \in {"previous", "next"}
    BY <1>1, StepNodeSound, StepOfIsOne DEF MenuPress, Category
  <1>2. CASE action \in {"menu_previous_page", "menu_next_page"}
    <2> DEFINE page == Move(NormalizeMenuPage(t.menuPage), MenuPageCount, StepOf(action))
               u == [t EXCEPT !.menuPage = page]
    <2>1. page \in 0..(MenuPageCount - 1)
      BY DEF Sound, Typed, StateType, Move, NormalizeMenuPage, Normalize, AtMost,
             MenuPageCount, StepOf
    <2>2. MenuPress(t, L, action, at) = u
      BY <1>2 DEF MenuPress, Category
    <2> HIDE DEF page
    <2>3. /\ Typed(u, M) /\ u.selected = t.selected /\ u.hint = t.hint
          /\ u.category = t.category /\ u.nodesPage = t.nodesPage /\ u.screen = t.screen
      BY <2>1 DEF Sound, Typed, StateType
    <2> HIDE DEF u
    <2> QED BY <2>2, <2>3, KeptSound
  <1>3. ASSUME NEW screen \in {"overview", "system"}
        PROVE  Sound([t EXCEPT !.screen = screen], L, M)
    <2> DEFINE u == [t EXCEPT !.screen = screen]
    <2>1. /\ Typed(u, M) /\ u.selected = t.selected /\ u.hint = t.hint
          /\ u.category = t.category /\ u.nodesPage = t.nodesPage /\ u.screen = screen
      BY <1>3 DEF Sound, Typed, StateType, Screen
    <2> HIDE DEF u
    <2>2. Sound(u, L, M)
      BY <1>3, <2>1, KeptSound
    <2> QED BY <2>2 DEF u
  <1>4. CASE action \in {"menu_back", "system"}
    BY <1>3, <1>4 DEF MenuPress, Category
  <1>5. CASE action = "nodes"
    BY <1>5, OpenNodesSound DEF MenuPress, Sound, Category
  <1>6. CASE action \in Category
    <2>1. PICK i \in DOMAIN L : t.selected = L[i].id /\ t.hint = i - 1 /\ action \in L[i].cats
      BY <1>6
    <2> DEFINE u == [t EXCEPT !.category = action, !.screen = "values"]
    <2>2. MenuPress(t, L, action, at) = u
      BY <1>6 DEF MenuPress, Category
    <2>3. /\ Typed(u, M) /\ u.selected = L[i].id /\ u.hint = i - 1 /\ u.category = action
          /\ u.screen = "values"
      BY <1>6, <2>1 DEF Sound, Typed, StateType, Screen
    <2> HIDE DEF u
    <2> QED BY <2>1, <2>2, <2>3, ScreenOfNodeSound
  <1>7. CASE action \notin {"previous", "next", "menu_previous_page", "menu_next_page",
                            "menu_back", "system", "nodes"} \cup Category
    BY <1>7 DEF MenuPress, Category
  <1> QED BY <1>1, <1>2, <1>4, <1>5, <1>6, <1>7

\* The graph of a category is opened only when it has one.
LEMMA DetailActionFits ==
  ASSUME NEW M, NEW s, NEW L, AList(L), NEW x, NEW y, Sound(s, L, M),
         s.screen \in {"values", "graph"},
         VisibleAction(s, L, x, y) = "open_graph"
  PROVE  CanOpenGraph(s.category)
  <1>1. PICK i \in DOMAIN L : s.selected = L[i].id /\ s.category \in L[i].cats
                              /\ (s.screen = "graph" => CanOpenGraph(s.category))
    BY DEF Sound, Fits
  <1>2. CASE s.screen = "graph"
    BY <1>1, <1>2
  <1>3. CASE s.screen = "values"
    <2>1. SelectedNode(s, L) = L[i] /\ CategoryId(s, L[i]) = s.category
      <3>1. L[i] \in NodeItem
        BY ListFacts
      <3> QED BY <1>1, <3>1, SelectedFound, CategoryFits
    <2>2. PlainAction(s, L, x, y) = "open_graph"
      BY <1>3 DEF VisibleAction
    <2>3. At(Footer, x, y) # "open_graph"
      BY DEF At, Footer, NoAction
    <2> QED BY <2>1, <2>2, <2>3 DEF PlainAction
  <1> QED BY <1>2, <1>3

LEMMA DetailPressSound ==
  ASSUME NEW M, NEW t, NEW L, AList(L), NEW action, NEW at \in M,
         Sound(t, L, M), t.screen \in {"values", "graph"},
         action = "open_graph" => CanOpenGraph(t.category)
  PROVE  Sound(DetailPress(t, L, action, at), L, M)
  <1>1. PICK i \in DOMAIN L : t.selected = L[i].id /\ t.category \in L[i].cats
    BY DEF Sound, Fits
  <1>2. CASE action \in {"previous", "next"}
    BY <1>2, StepNodeSound, StepOfIsOne DEF DetailPress
  <1>3. CASE action \in {"graph_previous_metric", "graph_next_metric"}
    <2>1. SelectedNode(t, L) \in NodeItem
      BY <1>1, SelectedFound, ListFacts
    <2> QED BY <1>3, <2>1, StepMetricSound, StepOfIsOne DEF DetailPress
  <1>4. ASSUME NEW screen \in {"overview", "values", "graph"},
               screen = "graph" => CanOpenGraph(t.category)
        PROVE  Sound([t EXCEPT !.screen = screen], L, M)
    <2> DEFINE u == [t EXCEPT !.screen = screen]
    <2>1. /\ Typed(u, M) /\ u.selected = t.selected /\ u.hint = t.hint
          /\ u.category = t.category /\ u.nodesPage = t.nodesPage /\ u.screen = screen
      BY DEF Sound, Typed, StateType, Screen
    <2> HIDE DEF u
    <2>2. Sound(u, L, M)
      <3>1. Located(u, L) /\ OnPage(u, L)
        BY <2>1, <1>4 DEF Sound, Located, OnPage
      <3>2. Fits(u, L)
        BY <1>1, <1>4, <2>1 DEF Fits
      <3> QED BY <2>1, <3>1, <3>2 DEF Sound
    <2> QED BY <2>2 DEF u
  <1>5. CASE action \in {"graph_values", "open_graph", "center"}
    BY <1>4, <1>5 DEF DetailPress
  <1>6. CASE action \notin {"previous", "next", "graph_previous_metric", "graph_next_metric",
                            "graph_values", "open_graph", "center"}
    BY <1>6 DEF DetailPress
  <1> QED BY <1>2, <1>3, <1>5, <1>6

\* A row that answers shows a node of the list.
LEMMA RowShown ==
  ASSUME NEW L, AList(L), L # <<>>, NEW page \in Nat, NEW row \in DOMAIN RowOf,
         RowOf[row] < VisibleRows(page, Len(L))
  PROVE  \E i \in DOMAIN L :
           /\ RowNode(L, page, row) = L[i].id
           /\ Rank(L, L[i].id) = NormalizeNodesPage(page, Len(L)) * NodesPageSize + RowOf[row]
  <1> DEFINE p == NormalizeNodesPage(page, Len(L))
             rank == p * NodesPageSize + RowOf[row]
  <1>1. Len(L) \in Nat \ {0} /\ RowOf[row] \in 0..2
    BY ListFacts DEF RowOf
  <1>2. p \in Nat
    <2>1. NodesPageCount(Len(L)) \in Nat \ {0}
      BY <1>1, PagesFacts
    <2>2. p \in 0..(NodesPageCount(Len(L)) - 1)
      BY <1>1, PagesFacts
    <2> QED BY <2>1, <2>2
  <1>3. rank \in 0..(Len(L) - 1)
    <2>1. RowOf[row] < AtMost(NodesPageSize, Len(L) - p * NodesPageSize)
      BY DEF VisibleRows
    <2> HIDE DEF p
    <2>2. RowOf[row] < Len(L) - p * 3
      BY <1>1, <1>2, <2>1 DEF AtMost, NodesPageSize
    <2> QED BY <1>1, <1>2, <2>2 DEF NodesPageSize
  <1>4. RowNode(L, page, row) = OrderedId(L, rank)
    BY DEF RowNode
  <1> HIDE DEF rank
  <1>5. \E i \in DOMAIN L : OrderedId(L, rank) = L[i].id /\ Rank(L, L[i].id) = rank
    BY <1>3, OrderedFound
  <1> QED BY <1>4, <1>5 DEF rank

LEMMA NodesActionFits ==
  ASSUME NEW M, NEW s, NEW L, AList(L), NEW x, NEW y, Sound(s, L, M), s.screen = "nodes",
         VisibleAction(s, L, x, y) \in DOMAIN RowOf
  PROVE  RowOf[VisibleAction(s, L, x, y)] < VisibleRows(s.nodesPage, Len(L))
  <1> DEFINE action == VisibleAction(s, L, x, y)
  <1>1. action = NodesActionAt(s.nodesPage, Len(L), x, y)
    BY DEF VisibleAction, Sound, OnPage
  <1>2. At(NodesFooter, x, y) \notin DOMAIN RowOf /\ NoAction \notin DOMAIN RowOf
    BY DEF At, NodesFooter, NoAction, RowOf
  <1> HIDE DEF action
  <1>3. action \in DOMAIN RowOf
    BY DEF action
  <1>4. RowOf[action] < VisibleRows(s.nodesPage, Len(L))
    BY <1>1, <1>2, <1>3 DEF NodesActionAt
  <1> QED BY <1>4 DEF action

LEMMA NodesPressSound ==
  ASSUME NEW M, NEW t, NEW L, AList(L), NEW action, NEW at \in M,
         Sound(t, L, M), t.screen = "nodes",
         action \in DOMAIN RowOf => RowOf[action] < VisibleRows(t.nodesPage, Len(L))
  PROVE  Sound(NodesPress(t, L, action, at), L, M)
  <1>1. Len(L) \in Nat \ {0} /\ L # <<>> /\ t.nodesPage \in Nat
    BY ListFacts DEF Sound, OnPage, Typed, StateType
  <1>2. CASE action \in {"nodes_previous_page", "nodes_next_page"}
    <2> DEFINE count == NodesPageCount(Len(L))
               p == NormalizeNodesPage(t.nodesPage, Len(L))
               page == Move(p, count, StepOf(action))
               u == [t EXCEPT !.nodesPage = page]
    <2>1. count \in Nat \ {0} /\ p \in 0..(count - 1)
      BY <1>1, PagesFacts
    <2>2. page \in 0..(count - 1) /\ page \in Nat
      <3> HIDE DEF count, p
      <3> QED BY <2>1, StepOfIsOne DEF Move
    <2>3. NodesPress(t, L, action, at) = u
      BY <1>2 DEF NodesPress, RowOf
    <2> HIDE DEF page
    <2>4. /\ Typed(u, M) /\ u.selected = t.selected /\ u.hint = t.hint
          /\ u.nodesPage = page /\ u.screen = t.screen
      BY <2>2 DEF Sound, Typed, StateType
    <2> HIDE DEF u
    <2>5. Sound(u, L, M)
      BY <1>1, <2>2, <2>4 DEF Sound, Located, Fits, OnPage
    <2> QED BY <2>3, <2>5
  <1>3. CASE action = "nodes_back"
    <2> DEFINE u == [t EXCEPT !.screen = "main_menu", !.menuPage = 0]
    <2>1. NodesPress(t, L, action, at) = u
      BY <1>3 DEF NodesPress, RowOf
    <2>2. /\ Typed(u, M) /\ u.selected = t.selected /\ u.hint = t.hint
          /\ u.category = t.category /\ u.nodesPage = t.nodesPage /\ u.screen = "main_menu"
      <3>1. 0 \in 0..(MenuPageCount - 1) /\ "main_menu" \in Screen
        BY DEF MenuPageCount, Screen
      <3>2. Typed(t, M)
        BY DEF Sound
      <3> QED BY <3>1, <3>2 DEF Typed, StateType
    <2> HIDE DEF u
    <2> QED BY <2>1, <2>2, KeptSound
  <1>4. CASE action \in DOMAIN RowOf
    <2> DEFINE index == IndexOf(L, RowNode(L, t.nodesPage, action))
               v == SelectNode(t, L, index, at)
               u == [v EXCEPT !.screen = "overview"]
    <2>1. PICK i \in DOMAIN L : RowNode(L, t.nodesPage, action) = L[i].id
      BY <1>1, <1>4, RowShown
    <2>2. index = i - 1
      BY <2>1, IndexFound
    <2>3. Sound(v, L, M)
      BY <2>2, SelectNodeSound DEF Sound
    <2>4. NodesPress(t, L, action, at) = u
      BY <1>4 DEF NodesPress, RowOf
    <2> HIDE DEF v
    <2>5. /\ Typed(u, M) /\ u.selected = v.selected /\ u.hint = v.hint
          /\ u.category = v.category /\ u.nodesPage = v.nodesPage /\ u.screen = "overview"
      <3>1. "overview" \in Screen /\ Typed(v, M)
        BY <2>3 DEF Screen, Sound
      <3> QED BY <3>1 DEF Typed, StateType
    <2> HIDE DEF u
    <2> QED BY <2>3, <2>4, <2>5, KeptSound
  <1>5. CASE action \notin {"nodes_previous_page", "nodes_next_page", "nodes_back"}
                             \cup DOMAIN RowOf
    BY <1>5 DEF NodesPress
  <1> QED BY <1>2, <1>3, <1>4, <1>5

\* A press that shows no other screen about the selection.
LEMMA SystemPressSound ==
  ASSUME NEW M, NEW t, NEW L, NEW action, Sound(t, L, M), t.screen = "system"
  PROVE  Sound(SystemPress(t, action), L, M)
  <1>1. Typed(t, M)
    BY DEF Sound
  <1>2. CASE action \in DOMAIN PendingOf
    <2> DEFINE u == [t EXCEPT !.screen = "power_confirm", !.pending = PendingOf[action],
                              !.holdAt = NoTime, !.status = None, !.error = None]
    <2>1. SystemPress(t, action) = u
      BY <1>2 DEF SystemPress, PendingOf
    <2>2. PendingOf[action] \in PowerAction /\ "power_confirm" \in Screen
      BY <1>2 DEF PendingOf, PowerAction, Screen
    <2>3. /\ Typed(u, M) /\ u.selected = t.selected /\ u.hint = t.hint
          /\ u.category = t.category /\ u.nodesPage = t.nodesPage
          /\ u.screen = "power_confirm"
      BY <1>1, <2>2 DEF Typed, StateType
    <2> HIDE DEF u
    <2> QED BY <2>1, <2>3, KeptSound
  <1>3. CASE action = "system_back"
    <2> DEFINE u == [t EXCEPT !.screen = "main_menu", !.menuPage = 1]
    <2>1. SystemPress(t, action) = u
      BY <1>3 DEF SystemPress, PendingOf
    <2>2. 1 \in 0..(MenuPageCount - 1) /\ "main_menu" \in Screen
      BY DEF MenuPageCount, Screen
    <2>3. /\ Typed(u, M) /\ u.selected = t.selected /\ u.hint = t.hint
          /\ u.category = t.category /\ u.nodesPage = t.nodesPage /\ u.screen = "main_menu"
      BY <1>1, <2>2 DEF Typed, StateType
    <2> HIDE DEF u
    <2> QED BY <2>1, <2>3, KeptSound
  <1>4. CASE action \notin DOMAIN PendingOf \cup {"system_back"}
    BY <1>4 DEF SystemPress
  <1> QED BY <1>2, <1>3, <1>4

LEMMA ToSystemSound ==
  ASSUME NEW M, NEW s, NEW L, Sound(s, L, M)
  PROVE  Sound(ToSystem(s), L, M)
  <1> DEFINE u == ToSystem(s)
  <1>1. Typed(s, M) /\ "system" \in Screen
    BY DEF Sound, Screen
  <1>2. /\ Typed(u, M) /\ u.selected = s.selected /\ u.hint = s.hint
        /\ u.category = s.category /\ u.nodesPage = s.nodesPage /\ u.screen = "system"
    BY <1>1 DEF ToSystem, Typed, StateType
  <1> HIDE DEF u
  <1>3. Sound(u, L, M)
    BY <1>2, KeptSound
  <1> QED BY <1>3 DEF u

LEMMA PressedSound ==
  ASSUME NEW M, NEW s, NEW L, AList(L), NEW x, NEW y, NEW at \in M, Sound(s, L, M)
  PROVE  Sound(Pressed(s, L, x, y, at), L, M)
  <1> DEFINE t == Touched(s, at)
             action == VisibleAction(s, L, x, y)
  <1>1. Sound(t, L, M) /\ t.screen = s.screen /\ t.selected = s.selected /\ t.hint = s.hint
        /\ t.category = s.category /\ t.nodesPage = s.nodesPage
    <2>1. Sound(t, L, M)
      BY TouchedSound
    <2> QED BY <2>1 DEF Sound, Typed, StateType, Touched
  <1> HIDE DEF t
  <1>2. CASE s.screen = "overview"
    BY <1>1, <1>2, OverviewPressSound DEF Pressed, t
  <1>3. CASE s.screen = "main_menu"
    <2>1. /\ action = "nodes" => L # <<>>
          /\ action \in Category =>
               \E i \in DOMAIN L : t.selected = L[i].id /\ t.hint = i - 1 /\ action \in L[i].cats
      BY <1>1, <1>3, MenuActionFits
    <2>2. Pressed(s, L, x, y, at) = MenuPress(t, L, action, at)
      BY <1>3 DEF Pressed, t
    <2> HIDE DEF action
    <2> QED BY <1>1, <1>3, <2>1, <2>2, MenuPressSound
  <1>4. CASE s.screen \in {"values", "graph"}
    <2>1. action = "open_graph" => CanOpenGraph(t.category)
      BY <1>1, <1>4, DetailActionFits
    <2>2. Pressed(s, L, x, y, at) = DetailPress(t, L, action, at)
      BY <1>4 DEF Pressed, t
    <2> HIDE DEF action
    <2> QED BY <1>1, <1>4, <2>1, <2>2, DetailPressSound
  <1>5. CASE s.screen = "nodes"
    <2>1. action \in DOMAIN RowOf => RowOf[action] < VisibleRows(t.nodesPage, Len(L))
      BY <1>1, <1>5, NodesActionFits
    <2>2. Pressed(s, L, x, y, at) = NodesPress(t, L, action, at)
      BY <1>5 DEF Pressed, t
    <2> HIDE DEF action
    <2> QED BY <1>1, <1>5, <2>1, <2>2, NodesPressSound
  <1>6. CASE s.screen = "system"
    <2>1. Pressed(s, L, x, y, at) = SystemPress(t, action)
      BY <1>6 DEF Pressed, t
    <2> QED BY <1>1, <1>6, <2>1, SystemPressSound
  <1>7. CASE s.screen \notin {"overview", "main_menu", "values", "graph", "nodes", "system"}
    <2>1. Pressed(s, L, x, y, at) \in {t, ToSystem(t)}
      BY <1>7 DEF Pressed, t
    <2> QED BY <1>1, <2>1, ToSystemSound
  <1> QED BY <1>2, <1>3, <1>4, <1>5, <1>6, <1>7

LEMMA ShortPressSound ==
  ASSUME NEW M, NEW s, NEW L, AList(L), NEW x, NEW y, NEW at \in M, Sound(s, L, M)
  PROVE  Sound(ShortPress(s, L, x, y, at), L, M)
  BY PressedSound DEF ShortPress

LEMMA LongPressSound ==
  ASSUME NEW M, NEW s, NEW L, AList(L), NEW x, NEW y, NEW at \in M, Sound(s, L, M)
  PROVE  Sound(LongPress(s, L, x, y, at), L, M)
  <1> DEFINE t == Touched(s, at)
             node == SelectedNode(s, L)
  <1>1. Sound(t, L, M)
    BY TouchedSound
  <1>2. L # <<>> => node \in NodeItem
    <2> SUFFICES ASSUME L # <<>> PROVE node \in NodeItem
      OBVIOUS
    <2>1. PICK i \in DOMAIN L : s.selected = L[i].id
      BY DEF Sound, Located
    <2> QED BY <2>1, SelectedFound, ListFacts
  <1>3. L # <<>> => Sound(OpenMainMenu(t, node), L, M)
    BY <1>1, <1>2, OpenMainMenuSound DEF Sound
  <1>4. /\ LongPress(s, L, x, y, at) \in {s, t, OpenMainMenu(t, node)}
        /\ LongPress(s, L, x, y, at) \in {s, t} \/ L # <<>>
    BY DEF LongPress
  <1> HIDE DEF t, node
  <1> QED BY <1>1, <1>3, <1>4

------------------------------------------------------------------------------
(* Power events and ticks *)

LEMMA PowerEventsSound ==
  ASSUME NEW M, NEW s, NEW L, NEW at \in M, NEW e \in PowerRequestError, NEW complete,
         Sound(s, L, M)
  PROVE  /\ Sound(HoldStarted(s, at), L, M) /\ Sound(HoldTick(s, complete, at), L, M)
         /\ Sound(HoldEnded(s, at), L, M)
         /\ Sound(RequestAccepted(s, at), L, M) /\ Sound(RequestFailed(s, e, at), L, M)
  <1> DEFINE Near(t) ==
        /\ Typed(t, M) /\ t.selected = s.selected /\ t.hint = s.hint
        /\ t.category = s.category /\ t.nodesPage = s.nodesPage
        /\ t.screen \in {s.screen, "power_pending", "power_error"}
  <1>1. \A t : Near(t) => Sound(t, L, M)
    BY KeptSound
  <1>2. Typed(s, M) /\ "power_pending" \in Screen /\ "power_error" \in Screen
    BY DEF Sound, Screen
  <1>3. Near(HoldStarted(s, at))
    BY <1>2 DEF HoldStarted, Typed, StateType
  <1>4. Near(HoldTick(s, complete, at))
    BY <1>2 DEF HoldTick, Typed, StateType
  <1>5. Near(HoldEnded(s, at))
    BY <1>2 DEF HoldEnded, Typed, StateType
  <1>6. Near(RequestAccepted(s, at))
    BY <1>2 DEF RequestAccepted, Typed, StateType
  <1>7. Near(RequestFailed(s, e, at))
    BY <1>2 DEF RequestFailed, Typed, StateType
  <1> HIDE DEF Near
  <1> QED BY <1>1, <1>3, <1>4, <1>5, <1>6, <1>7

LEMMA InactivityTickSound ==
  ASSUME NEW M, NEW s, NEW L, NEW menuOver, NEW detailOver, Sound(s, L, M)
  PROVE  Sound(InactivityTick(s, menuOver, detailOver), L, M)
  <1> DEFINE u == [s EXCEPT !.screen = "overview"]
  <1>1. Typed(s, M) /\ "overview" \in Screen
    BY DEF Sound, Screen
  <1>2. /\ Typed(u, M) /\ u.selected = s.selected /\ u.hint = s.hint
        /\ u.category = s.category /\ u.nodesPage = s.nodesPage /\ u.screen = "overview"
    BY <1>1 DEF Typed, StateType
  <1>3. InactivityTick(s, menuOver, detailOver) \in {s, u, ToSystem(s)}
    BY DEF InactivityTick
  <1> HIDE DEF u
  <1>4. Sound(u, L, M)
    BY <1>2, KeptSound
  <1> QED BY <1>3, <1>4, ToSystemSound

------------------------------------------------------------------------------
(* Every step *)

LEMMA InitSound == UiInit => Sound(ui, nodes, Moments) /\ AList(nodes) /\ enabled \in BOOLEAN
  <1> SUFFICES ASSUME UiInit
               PROVE  Sound(ui, nodes, Moments) /\ AList(nodes) /\ enabled \in BOOLEAN
    OBVIOUS
  <1>1. PICK at \in Moments : ui = UiStart(at)
    BY DEF UiInit
  <1> DEFINE m == [c \in Category |-> 0]
  <1>2. m \in [Category -> Nat] /\ \A c \in Category : m[c] < ChartMetrics[c]
    <2>1. \A c \in Category : ChartMetrics[c] \in Nat \ {0}
      BY UiAssumption
    <2> QED BY <2>1
  <1>3. "overview" \in Screen /\ "cpu" \in Category /\ 0 \in 0..(MenuPageCount - 1)
    BY DEF Screen, Category, MenuPageCount
  <1> HIDE DEF m
  <1>4. /\ Typed(ui, Moments) /\ ui.selected = NoNode /\ ui.hint = 0 /\ ui.screen = "overview"
    BY <1>1, <1>2, <1>3 DEF UiStart, Typed, StateType, m
  <1> QED BY <1>4 DEF UiInit, Sound, Located, Fits, OnPage, AList

Reduced == Sound(ui, nodes, Moments) /\ AList(nodes) /\ enabled \in BOOLEAN

LEMMA StepSound ==
  ASSUME Reduced, [UiNext]_vars
  PROVE  /\ Reduced'
         /\ nodes' # nodes => SelectionFollows(ui, ui', nodes')
  <1> USE DEF Reduced
  <1>1. CASE Refresh
    <2>1. PICK L \in Lists \cup {nodes} : nodes' = L /\ ui' = DataRefreshed(ui, L)
      BY <1>1 DEF Refresh
    <2>2. AList(L)
      BY DEF AList
    <2>3. /\ Sound(ui', nodes', Moments)
          /\ SelectionFollows(ui, ui', nodes')
      BY <2>1, <2>2, DataRefreshedSound DEF Sound
    <2> QED BY <1>1, <2>1, <2>2, <2>3 DEF Refresh, Sound, AList
  <1>2. ASSUME UNCHANGED <<nodes, enabled>>, Sound(ui', nodes, Moments) PROVE
          Reduced' /\ (nodes' # nodes => SelectionFollows(ui, ui', nodes'))
    <2>1. nodes' = nodes /\ enabled' = enabled
      BY <1>2
    <2>2. Sound(ui', nodes', Moments)
      BY <1>2, <2>1
    <2>3. AList(nodes')
      BY <2>1
    <2> QED BY <2>1, <2>2, <2>3 DEF AList, Sound
  <1>3. CASE PressShort
    BY <1>2, <1>3, ShortPressSound DEF PressShort
  <1>4. CASE PressLong
    BY <1>2, <1>4, LongPressSound DEF PressLong
  <1>5. "timeout" \in PowerRequestError
    BY DEF PowerRequestError
  <1>6. CASE HoldEvent
    BY <1>2, <1>5, <1>6, PowerEventsSound DEF HoldEvent
  <1>7. CASE RequestResult
    BY <1>2, <1>5, <1>7, PowerEventsSound DEF RequestResult
  <1>8. CASE Inactive
    BY <1>2, <1>8, InactivityTickSound DEF Inactive
  <1>9. CASE Rotate
    <2>1. PICK at \in Moments : ui' = AutoRotateTick(ui, nodes, TRUE, at)
      BY <1>9 DEF Rotate
    <2>2. Sound(ui', nodes, Moments)
      BY <2>1, StepNodeSound DEF AutoRotateTick
    <2> QED BY <1>2, <1>9, <2>2 DEF Rotate
  <1>10. CASE UNCHANGED vars
    BY <1>2, <1>10 DEF vars
  <1> QED BY <1>1, <1>3, <1>4, <1>6, <1>7, <1>8, <1>9, <1>10 DEF UiNext

\* Every node of a list is in exactly one visible row of one page.
LEMMA NodeHasOneRow ==
  ASSUME NEW L, AList(L), L # <<>>, NEW id \in Ids(L)
  PROVE  Cardinality({pr \in (0..(NodesPageCount(Len(L)) - 1)) \X DOMAIN RowOf :
                        /\ RowOf[pr[2]] < VisibleRows(pr[1], Len(L))
                        /\ RowNode(L, pr[1], pr[2]) = id}) = 1
  <1> DEFINE count == Len(L)
             Pages == 0..(NodesPageCount(count) - 1)
             Shows(p, r) == RowOf[r] < VisibleRows(p, count) /\ RowNode(L, p, r) = id
             S == {pr \in Pages \X DOMAIN RowOf : Shows(pr[1], pr[2])}
  <1>1. count \in Nat \ {0}
    BY ListFacts
  <1>2. PICK i \in DOMAIN L : id = L[i].id
    BY DEF Ids
  <1> DEFINE rank == Rank(L, id)
             page == rank \div NodesPageSize
  <1>3. rank \in 0..(count - 1)
    BY <1>2, RankBound
  <1>4. \A r \in DOMAIN RowOf : RowOf[r] \in 0..(NodesPageSize - 1)
    BY DEF RowOf, NodesPageSize
  <1>5. \A r, q \in DOMAIN RowOf : RowOf[r] = RowOf[q] => r = q
    BY DEF RowOf
  <1>6. rank % NodesPageSize \in 0..(NodesPageSize - 1)
    BY <1>3 DEF NodesPageSize
  <1>7. PICK row \in DOMAIN RowOf : RowOf[row] = rank % NodesPageSize
    <2>1. rank % NodesPageSize \in 0..2
      BY <1>6 DEF NodesPageSize
    <2>2. \A k \in 0..2 : \E r \in DOMAIN RowOf : RowOf[r] = k
      BY DEF RowOf
    <2> QED BY <2>1, <2>2
  <1>8. page \in Pages /\ RowOf[row] < VisibleRows(page, count)
    <2>1. 0 \in 0..(NodesPageCount(count) - 1) /\ 0 \in 0..(NodesPageSize - 1)
      BY <1>1, PagesFacts DEF NodesPageSize
    <2> HIDE DEF rank, count
    <2> QED BY <1>1, <1>3, <1>7, <2>1, PagesPartition
  <1>9. NodesPageCount(count) \in Nat \ {0} /\ \A p \in Pages : NormalizeNodesPage(p, count) = p
    BY <1>1, PagesFacts
  <1>10. Shows(page, row)
    <2>1. page * NodesPageSize + RowOf[row] = rank
      BY <1>3, <1>7 DEF NodesPageSize
    <2>2. NormalizeNodesPage(page, count) = page
      BY <1>8, <1>9
    <2>3. RowNode(L, page, row) = OrderedId(L, rank)
      BY <2>1, <2>2 DEF RowNode
    <2>4. PICK j \in DOMAIN L : OrderedId(L, rank) = L[j].id /\ Rank(L, L[j].id) = rank
      BY <1>3, OrderedFound
    <2>5. j = i
      BY <1>2, <1>3, <2>4, RankFound
    <2> QED BY <1>2, <1>8, <2>3, <2>4, <2>5
  <1>11. \A p \in Pages, r \in DOMAIN RowOf : Shows(p, r) => p = page /\ r = row
    <2> SUFFICES ASSUME NEW p \in Pages, NEW r \in DOMAIN RowOf, Shows(p, r)
                 PROVE  p = page /\ r = row
      OBVIOUS
    <2>1. p \in Nat
      BY <1>9
    <2>2. PICK j \in DOMAIN L : /\ RowNode(L, p, r) = L[j].id
                                /\ Rank(L, L[j].id) = NormalizeNodesPage(p, count) * NodesPageSize + RowOf[r]
      BY <2>1, RowShown
    <2>3. rank = p * NodesPageSize + RowOf[r]
      BY <1>9, <2>2
    <2>4. RowOf[r] \in 0..(NodesPageSize - 1)
      BY <1>4
    <2> HIDE DEF rank, count, Shows
    <2>5. p = page /\ RowOf[r] = rank % NodesPageSize
      BY <1>1, <1>3, <2>3, <2>4, PagesPartition
    <2>6. r = row
      BY <1>5, <1>7, <2>5
    <2> QED BY <2>5, <2>6
  <1> HIDE DEF Shows, Pages, page
  <1>12. S = {<<page, row>>}
    BY <1>8, <1>10, <1>11
  <1>13. Cardinality(S) = 1
    BY <1>12, FS_Singleton
  <1> QED BY <1>13 DEF Shows, Pages

\* What is sound fits the list: the selection, the category and the page.
LEMMA SoundFits ==
  ASSUME NEW M, Sound(ui, nodes, M), AList(nodes)
  PROVE  SelectionAgrees /\ CategoryShown /\ NodesReachable
  <1>1. SelectionAgrees
    BY IndexFound DEF Sound, Located, SelectionAgrees
  <1>2. CategoryShown
    <2> SUFFICES ASSUME ui.screen \in {"values", "graph"}
                 PROVE  /\ nodes # <<>>
                        /\ ui.category \in SelectedNode(ui, nodes).cats
                        /\ ui.screen = "graph" => CanOpenGraph(ui.category)
      BY DEF CategoryShown
    <2>1. PICK i \in DOMAIN nodes : /\ ui.selected = nodes[i].id /\ ui.category \in nodes[i].cats
                                    /\ ui.screen = "graph" => CanOpenGraph(ui.category)
      BY DEF Sound, Fits
    <2>2. SelectedNode(ui, nodes) = nodes[i]
      BY <2>1, SelectedFound
    <2>3. nodes # <<>>
      BY <2>1, ListFacts
    <2> QED BY <2>1, <2>2, <2>3
  <1>3. NodesReachable
    <2> SUFFICES ASSUME ui.screen = "nodes"
                 PROVE  ui.nodesPage < NodesPageCount(Len(nodes)) /\ nodes # <<>>
      BY NodeHasOneRow DEF NodesReachable
    <2>1. nodes # <<>> /\ ui.nodesPage \in 0..(NodesPageCount(Len(nodes)) - 1)
      BY DEF Sound, OnPage
    <2>2. NodesPageCount(Len(nodes)) \in Nat \ {0}
      <3>1. Len(nodes) \in Nat \ {0}
        BY <2>1, ListFacts
      <3> QED BY <3>1, PagesFacts
    <2> QED BY <2>1, <2>2
  <1> QED BY <1>1, <1>2, <1>3

LEMMA ReducedInvariance == UiSpec => []Reduced
  <1>1. Reduced /\ [UiNext]_vars => Reduced'
    BY StepSound
  <1>2. UiInit => Reduced
    BY InitSound DEF Reduced
  <1> QED BY <1>1, <1>2, PTL DEF UiSpec

\* Every field keeps its type and its range, and what points into the list, the
\* selection and the page of NODES, points into the list of now.
THEOREM UiTypeCorrect == UiSpec => []UiTypeOK
  <1>1. Reduced => UiTypeOK
    <2> SUFFICES ASSUME Reduced PROVE UiTypeOK
      OBVIOUS
    <2>1. Len(nodes) \in Nat /\ DOMAIN nodes = 1..Len(nodes)
      BY ListFacts DEF Reduced
    <2>2. ui.selected \in Ids(nodes) \cup {NoNode}
      BY DEF Reduced, Sound, Located, Ids
    <2>3. ui.hint = 0 \/ ui.hint < Len(nodes)
      BY <2>1 DEF Reduced, Sound, Located
    <2>4. ui.screen = "nodes" => ui.nodesPage < NodesPageCount(Len(nodes))
      BY SoundFits DEF Reduced, NodesReachable
    <2> QED BY <2>2, <2>3, <2>4 DEF Reduced, Sound, Typed, StateType, UiTypeOK, AList
  <1> QED BY <1>1, ReducedInvariance, PTL

\* Name and position of the selection name the same node, after any lists.
THEOREM SelectionStaysRight == UiSpec => []SelectionAgrees
  <1>1. Reduced => SelectionAgrees
    BY SoundFits DEF Reduced
  <1> QED BY <1>1, ReducedInvariance, PTL

\* No sample, rotation or press shows a category on a node that does not have it.
THEOREM CategoryStaysShown == UiSpec => []CategoryShown
  <1>1. Reduced => CategoryShown
    BY SoundFits DEF Reduced
  <1> QED BY <1>1, ReducedInvariance, PTL

\* Every node can be chosen on NODES, however long the list and in whatever order.
THEOREM NodesStayReachable == UiSpec => []NodesReachable
  <1>1. Reduced => NodesReachable
    BY SoundFits DEF Reduced
  <1> QED BY <1>1, ReducedInvariance, PTL

\* An answer that still has the selected node keeps it selected.
THEOREM RefreshKeepsTheSelection == UiSpec => RefreshKeepsSelection
  <1> DEFINE Kept == nodes' # nodes => SelectionFollows(ui, ui', nodes')
  <1>1. Reduced /\ [UiNext]_vars => Reduced' /\ [Kept]_vars
    BY StepSound
  <1>2. UiInit => Reduced
    BY InitSound DEF Reduced
  <1> QED BY <1>1, <1>2, PTL DEF UiSpec, RefreshKeepsSelection
==============================================================================
