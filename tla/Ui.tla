---------------------------------- MODULE Ui ----------------------------------
(***************************************************************************)
(* The reducer of the display, reduce_ui() of display/ui_state.py: what    *)
(* each event makes of the state of the user interface.  One operator per  *)
(* event maps a state to the next one; the specification lets the events   *)
(* come in any order, with any data and any verdict of the clock.          *)
(*                                                                         *)
(* Times are opaque here: an event carries its moment `at', and whether an *)
(* interval is over is a parameter of the events that ask.  Module Display *)
(* says what they are.  A category remembers its chart metric by number,   *)
(* the first one until another is chosen.                                  *)
(***************************************************************************)
EXTENDS Navigation, Sequences, FiniteSets

CONSTANTS
  NodeId,       \* node identifiers, ordered as the program orders their names
  NoNode,       \* no node selected
  NoTime,       \* no hold in progress
  Moments,      \* the moments an event may carry
  ChartMetrics, \* the number of chart metrics of each category
  Lists,        \* the node lists the hub may answer with
  Points        \* the points of the screen a press may be reported at

Category == {"cpu", "memory", "gpu", "storage", "network", "health"}
Screen == {"overview", "main_menu", "values", "graph", "nodes", "system",
           "power_confirm", "power_pending", "power_error"}
PowerAction == {"reboot", "poweroff"}
PowerRequestError ==
  {"helper_unavailable", "permission_denied", "timeout", "protocol_error", "io_error"}
None == "none"

\* A node of a list: its identifier and the categories available on it.
NodeItem == [id : NodeId, cats : {c \in SUBSET Category : "health" \in c}]

ASSUME UiAssumption ==
  /\ NodeId \subseteq Nat
  /\ NoNode \notin Nat
  /\ NoTime \notin Moments
  /\ ChartMetrics \in [Category -> Nat \ {0}]
  /\ Lists \subseteq Seq(NodeItem)
  /\ \A L \in Lists : \A i, j \in DOMAIN L : L[i].id = L[j].id => i = j
  /\ Points \subseteq Int \X Int

VARIABLES
  ui,      \* the UiState
  nodes,   \* the nodes of the last answer of the hub
  enabled  \* power_actions_enabled, read once when the display starts

vars == <<ui, nodes, enabled>>

------------------------------------------------------------------------------
(* Categories, display/categories.py *)

\* the order of CATEGORIES
CategoryOrder == <<"cpu", "memory", "gpu", "storage", "network", "health">>

CanOpenGraph(c) == c # "health"

\* default_category(): the first one the node has
DefaultCategory(node) ==
  CategoryOrder[CHOOSE i \in DOMAIN CategoryOrder :
                  /\ CategoryOrder[i] \in node.cats
                  /\ \A j \in 1..(i - 1) : CategoryOrder[j] \notin node.cats]

\* UiState.category_id()
CategoryId(s, node) ==
  IF s.category \in node.cats THEN s.category ELSE DefaultCategory(node)

------------------------------------------------------------------------------
(* Nodes.  Positions in a list count from 0, as in the program. *)

Ids(L) == {L[i].id : i \in DOMAIN L}

IndexOf(L, id) == (CHOOSE i \in DOMAIN L : L[i].id = id) - 1

NodeAt(L, index) == L[index + 1]

\* mutant of SelectedIndex: the position is trusted while it is in range
SelectedByPosition(L, id, fallback) ==
  IF fallback < Len(L) THEN fallback ELSE AtMost(fallback, Len(L) - 1)

\* selected_index(): by name, else the old position or the last one
SelectedIndex(L, id, fallback) ==
  IF id \in Ids(L) THEN IndexOf(L, id) ELSE AtMost(fallback, Len(L) - 1)

SelectedNode(s, L) == NodeAt(L, SelectedIndex(L, s.selected, s.hint))

\* ordered_nodes(): the position of a node, and the node at a position, by name
Rank(L, id) == Cardinality({i \in DOMAIN L : L[i].id < id})

OrderedId(L, rank) == CHOOSE id \in Ids(L) : Rank(L, id) = rank

------------------------------------------------------------------------------
(* What a point of the screen means, visible_action_at() *)

Hint == "hint"   \* an unavailable tile: named, but it does nothing

MenuAction(s, L, x, y) ==
  LET action == MenuActionAt(s.menuPage, x, y) IN
  IF action \in Category /\ action \notin SelectedNode(s, L).cats THEN Hint ELSE action

SystemAction(x, y) ==
  LET action == At(System, x, y) IN
  IF ~enabled /\ action # "system_back" THEN NoAction ELSE action

ConfirmAction(s, x, y) ==
  LET action == At(PowerConfirm, x, y) IN
  IF action = "power_hold" /\ s.pending = None THEN NoAction ELSE action

\* screens without a table of their own: the footer, and the graph button
PlainAction(s, L, x, y) ==
  LET footer == At(Footer, x, y) IN
  IF footer = NoAction /\ s.screen = "values" /\ L # <<>>
       /\ CanOpenGraph(CategoryId(s, SelectedNode(s, L)))
  THEN At(ValuesGraph, x, y)
  ELSE footer

VisibleAction(s, L, x, y) ==
  CASE s.screen = "graph" /\ L # <<>> /\ CanOpenGraph(CategoryId(s, SelectedNode(s, L)))
         -> At(GraphFooter, x, y)
    [] s.screen = "main_menu" /\ L # <<>> -> MenuAction(s, L, x, y)
    [] s.screen = "nodes" /\ L # <<>>     -> NodesActionAt(s.nodesPage, Len(L), x, y)
    [] s.screen = "system"                -> SystemAction(x, y)
    [] s.screen = "power_confirm"         -> ConfirmAction(s, x, y)
    [] s.screen = "power_pending"         -> NoAction
    [] s.screen = "power_error"           -> At(PowerError, x, y)
    [] OTHER                              -> PlainAction(s, L, x, y)

------------------------------------------------------------------------------
(* Steps several events share *)

\* leaving a power screen drops everything about the request
ToSystem(s) ==
  [s EXCEPT !.screen = "system", !.pending = None, !.holdAt = NoTime,
            !.status = None, !.error = None]

Touched(s, at) == [s EXCEPT !.interactionAt = at, !.pressedAt = at]

\* _open_main_menu()
OpenMainMenu(s, node) ==
  LET c == CategoryId(s, node) IN
  [s EXCEPT !.category = c, !.menuPage = MenuPageFor(c), !.screen = "main_menu"]

\* _select_node(): the screens about a category follow what the new node has
SelectNode(s, L, index, at) ==
  LET chosen == [s EXCEPT !.selected = NodeAt(L, index).id, !.hint = index,
                          !.rotatedAt = at]
      before == CategoryId(s, SelectedNode(s, L))
      c == CategoryId(chosen, NodeAt(L, index))
  IN
  IF s.screen \notin {"main_menu", "values", "graph"} THEN chosen
  ELSE [chosen EXCEPT
          !.category = c,
          !.menuPage = IF s.screen # "main_menu" THEN @
                       ELSE IF c # before THEN MenuPageFor(c) ELSE NormalizeMenuPage(@),
          !.screen = IF @ = "graph" /\ ~CanOpenGraph(c) THEN "values" ELSE @]

\* one node forward or back
StepNode(s, L, delta, at) ==
  LET index == Move(SelectedIndex(L, s.selected, s.hint), Len(L), delta) IN
  IF Len(L) > 1 THEN SelectNode(s, L, index, at) ELSE s

\* mutant of StepMetric: the metrics do not wrap around
StepMetricOff(s, node, delta) == [s EXCEPT !.metrics[CategoryId(s, node)] = @ + delta]

\* _select_graph_metric()
StepMetric(s, node, delta) ==
  LET c == CategoryId(s, node) IN
  [s EXCEPT !.metrics[c] = Move(@, ChartMetrics[c], delta)]

------------------------------------------------------------------------------
(* Power events *)

AwaitsResult(s) ==
  s.screen = "power_pending" /\ s.status = "sending" /\ s.pending # None

RequestAccepted(s, at) ==
  IF AwaitsResult(s)
  THEN [s EXCEPT !.status = "accepted", !.error = None, !.interactionAt = at]
  ELSE s

\* mutant of RequestFailed: the action is forgotten with the request
RequestFailedForgets(s, e, at) ==
  IF AwaitsResult(s)
  THEN [s EXCEPT !.screen = "power_error", !.pending = None, !.status = None,
                 !.error = e, !.interactionAt = at]
  ELSE s

RequestFailed(s, e, at) ==
  IF AwaitsResult(s)
  THEN [s EXCEPT !.screen = "power_error", !.status = None, !.error = e,
                 !.interactionAt = at]
  ELSE s

Confirming(s) == enabled /\ s.screen = "power_confirm" /\ s.pending # None

HoldStarted(s, at) ==
  IF Confirming(s) /\ s.holdAt = NoTime
  THEN [s EXCEPT !.holdAt = at, !.interactionAt = at]
  ELSE s

\* complete: power_hold_progress() has reached 1
HoldTick(s, complete, at) ==
  IF Confirming(s) /\ s.holdAt # NoTime /\ complete
  THEN [s EXCEPT !.screen = "power_pending", !.holdAt = NoTime, !.status = "sending",
                 !.error = None, !.interactionAt = at]
  ELSE s

\* PowerHoldCancelled and PowerHoldReleased
HoldEnded(s, at) ==
  IF s.screen = "power_confirm" /\ s.holdAt # NoTime
  THEN [s EXCEPT !.holdAt = NoTime, !.interactionAt = at]
  ELSE s

\* the transition carries the effect REQUEST_POWER
RequestsPower(s, t) == s.screen = "power_confirm" /\ t.screen = "power_pending"

------------------------------------------------------------------------------
(* DataRefreshed: the list changes under the screen *)

NoSelection(s) == [s EXCEPT !.selected = NoNode, !.hint = 0]

\* On NODES a node that is gone gives way to the first by name, on page 0.
RefreshNodesScreen(s, L) ==
  LET kept == s.selected \in Ids(L)
      id == IF kept THEN s.selected ELSE OrderedId(L, 0)
  IN
  IF L = <<>> THEN [NoSelection(s) EXCEPT !.nodesPage = 0, !.screen = "overview"]
  ELSE [s EXCEPT !.selected = id, !.hint = IndexOf(L, id),
                 !.nodesPage = IF kept THEN NormalizeNodesPage(@, Len(L)) ELSE 0]

\* mutant of FollowCategory: only the graph looks at what the node still has
FollowGraphOnly(t, node) ==
  CASE t.screen = "main_menu"
         -> IF t.category \in node.cats THEN [t EXCEPT !.menuPage = NormalizeMenuPage(@)]
            ELSE OpenMainMenu(t, node)
    [] t.screen = "graph" /\ t.category \notin node.cats
         -> [t EXCEPT !.screen = "overview"]
    [] t.screen = "graph" /\ t.category \in node.cats /\ ~CanOpenGraph(t.category)
         -> [t EXCEPT !.screen = "values"]
    [] OTHER -> t

\* the menu, the values and the graph follow what the selected node still has
FollowCategory(t, node) ==
  CASE t.screen = "main_menu"
         -> IF t.category \in node.cats THEN [t EXCEPT !.menuPage = NormalizeMenuPage(@)]
            ELSE OpenMainMenu(t, node)
    [] t.screen \in {"values", "graph"} /\ t.category \notin node.cats
         -> [t EXCEPT !.screen = "overview"]
    [] t.screen = "graph" /\ t.category \in node.cats /\ ~CanOpenGraph(t.category)
         -> [t EXCEPT !.screen = "values"]
    [] OTHER -> t

\* On every other screen it gives way to the node at its old position.
RefreshOtherScreen(s, L) ==
  LET index == SelectedIndex(L, s.selected, s.hint)
      chosen == [s EXCEPT !.selected = NodeAt(L, index).id, !.hint = index]
  IN
  IF L = <<>>
  THEN [NoSelection(s) EXCEPT
          !.screen = IF @ \in {"main_menu", "values", "graph"} THEN "overview" ELSE @]
  ELSE FollowCategory(chosen, NodeAt(L, index))

DataRefreshed(s, L) ==
  IF s.screen = "nodes" THEN RefreshNodesScreen(s, L) ELSE RefreshOtherScreen(s, L)

------------------------------------------------------------------------------
(* ShortPress, screen by screen.  `t' is the state already touched. *)

StepOf(action) ==
  IF action \in {"previous", "graph_previous_metric", "menu_previous_page",
                 "nodes_previous_page"} THEN -1 ELSE 1

\* a node is selected and its category made the current one
OpenValues(t, L) ==
  LET index == SelectedIndex(L, t.selected, t.hint)
      node == NodeAt(L, index)
  IN [t EXCEPT !.selected = node.id, !.hint = index,
               !.category = CategoryId(t, node), !.screen = "values"]

OverviewPress(t, L, action, at) ==
  CASE action \in {"previous", "next"}      -> StepNode(t, L, StepOf(action), at)
    [] action = "center" /\ L # <<>>        -> OpenValues(t, L)
    [] OTHER                                -> t

\* mutant of OpenNodes: the position on the screen is taken for the one in the list
OpenNodesByRank(t, L) ==
  LET id == IF t.selected \in Ids(L) THEN t.selected ELSE OrderedId(L, 0)
  IN [t EXCEPT !.screen = "nodes", !.selected = id, !.hint = Rank(L, id),
               !.nodesPage = Rank(L, id) \div NodesPageSize]

OpenNodes(t, L) ==
  LET id == IF t.selected \in Ids(L) THEN t.selected ELSE OrderedId(L, 0)
  IN [t EXCEPT !.screen = "nodes", !.selected = id, !.hint = IndexOf(L, id),
               !.nodesPage = Rank(L, id) \div NodesPageSize]

MenuPress(t, L, action, at) ==
  CASE action \in {"previous", "next"}      -> StepNode(t, L, StepOf(action), at)
    [] action \in {"menu_previous_page", "menu_next_page"}
         -> [t EXCEPT !.menuPage = Move(NormalizeMenuPage(@), MenuPageCount, StepOf(action))]
    [] action = "menu_back"                 -> [t EXCEPT !.screen = "overview"]
    [] action = "nodes"                     -> OpenNodes(t, L)
    [] action = "system"                    -> [t EXCEPT !.screen = "system"]
    [] action \in Category                  -> [t EXCEPT !.category = action, !.screen = "values"]
    [] OTHER                                -> t

DetailPress(t, L, action, at) ==
  CASE action \in {"previous", "next"}      -> StepNode(t, L, StepOf(action), at)
    [] action \in {"graph_previous_metric", "graph_next_metric"}
         -> StepMetric(t, SelectedNode(t, L), StepOf(action))
    [] action = "graph_values"              -> [t EXCEPT !.screen = "values"]
    [] action = "open_graph"                -> [t EXCEPT !.screen = "graph"]
    [] action = "center"                    -> [t EXCEPT !.screen = "overview"]
    [] OTHER                                -> t

\* the node a row of the current page shows
RowNode(L, page, row) ==
  OrderedId(L, NormalizeNodesPage(page, Len(L)) * NodesPageSize + RowOf[row])

NodesPress(t, L, action, at) ==
  CASE action \in {"nodes_previous_page", "nodes_next_page"}
         -> [t EXCEPT !.nodesPage = Move(NormalizeNodesPage(@, Len(L)),
                                         NodesPageCount(Len(L)), StepOf(action))]
    [] action = "nodes_back"                -> [t EXCEPT !.screen = "main_menu", !.menuPage = 0]
    [] action \in DOMAIN RowOf
         -> [SelectNode(t, L, IndexOf(L, RowNode(L, t.nodesPage, action)), at)
               EXCEPT !.screen = "overview"]
    [] OTHER                                -> t

PendingOf == [system_restart |-> "reboot", system_shutdown |-> "poweroff"]

SystemPress(t, action) ==
  CASE action \in DOMAIN PendingOf
         -> [t EXCEPT !.screen = "power_confirm", !.pending = PendingOf[action],
                      !.holdAt = NoTime, !.status = None, !.error = None]
    [] action = "system_back"               -> [t EXCEPT !.screen = "main_menu", !.menuPage = 1]
    [] OTHER                                -> t

\* presses that do not even count as an interaction
PressIgnored(s, long, x, y) ==
  \/ s.screen = "system" /\ ~enabled /\ At(System, x, y) \in DOMAIN PendingOf
  \/ s.screen = "power_pending"
  \/ s.screen = "power_error" /\ (long \/ At(PowerError, x, y) # "power_error_back")

Pressed(s, L, x, y, at) ==
  LET t == Touched(s, at)
      action == VisibleAction(s, L, x, y)
  IN
  CASE s.screen = "overview"                -> OverviewPress(t, L, action, at)
    [] s.screen = "main_menu"               -> MenuPress(t, L, action, at)
    [] s.screen \in {"values", "graph"}     -> DetailPress(t, L, action, at)
    [] s.screen = "nodes"                   -> NodesPress(t, L, action, at)
    [] s.screen = "system"                  -> SystemPress(t, action)
    [] s.screen = "power_confirm" /\ action = "power_cancel" -> ToSystem(t)
    [] s.screen = "power_error"             -> ToSystem(t)
    [] OTHER                                -> t

ShortPress(s, L, x, y, at) ==
  IF PressIgnored(s, FALSE, x, y) THEN s ELSE Pressed(s, L, x, y, at)

\* A long press on the middle of the footer opens the menu.
LongPress(s, L, x, y, at) ==
  LET action == VisibleAction(s, L, x, y)
      opens == /\ L # <<>>
               /\ \/ action = "center" /\ s.screen \in {"overview", "values", "graph"}
                  \/ action = "graph_values" /\ s.screen = "graph"
  IN
  IF PressIgnored(s, TRUE, x, y) THEN s
  ELSE IF opens THEN OpenMainMenu(Touched(s, at), SelectedNode(s, L))
  ELSE Touched(s, at)

------------------------------------------------------------------------------
(* InactivityTick and AutoRotateTick, when the clock says they are due *)

\* mutant of InactivityTick: a request under way is abandoned like a menu
InactivityAbandons(s, menuOver, detailOver) ==
  CASE s.screen \in {"power_confirm", "power_pending", "power_error"} /\ menuOver
         -> ToSystem(s)
    [] s.screen \in {"main_menu", "nodes", "system"} /\ menuOver
         -> [s EXCEPT !.screen = "overview"]
    [] s.screen \in {"values", "graph"} /\ detailOver
         -> [s EXCEPT !.screen = "overview"]
    [] OTHER -> s

\* mutant of InactivityTick: an error waits to be read
InactivityKeepsError(s, menuOver, detailOver) ==
  CASE s.screen = "power_confirm" /\ menuOver -> ToSystem(s)
    [] s.screen \in {"main_menu", "nodes", "system"} /\ menuOver
         -> [s EXCEPT !.screen = "overview"]
    [] s.screen \in {"values", "graph"} /\ detailOver
         -> [s EXCEPT !.screen = "overview"]
    [] OTHER -> s

\* no finger on the screen: menuOver, detailOver: the timeouts have passed
InactivityTick(s, menuOver, detailOver) ==
  CASE s.screen \in {"power_confirm", "power_error"} /\ menuOver -> ToSystem(s)
    [] s.screen \in {"main_menu", "nodes", "system"} /\ menuOver
         -> [s EXCEPT !.screen = "overview"]
    [] s.screen \in {"values", "graph"} /\ detailOver
         -> [s EXCEPT !.screen = "overview"]
    [] OTHER -> s

AutoRotates(s, L) ==
  Len(L) > 1 /\ s.screen \in {"overview", "main_menu", "values", "graph"}

AutoRotateTick(s, L, due, at) ==
  IF due /\ AutoRotates(s, L) THEN StepNode(s, L, 1, at) ELSE s

------------------------------------------------------------------------------
(* The specification: any event at any moment *)

UiStart(at) ==
  [screen |-> "overview", selected |-> NoNode, hint |-> 0, category |-> "cpu",
   metrics |-> [c \in Category |-> 0], menuPage |-> 0, nodesPage |-> 0,
   pending |-> None, holdAt |-> NoTime, status |-> None, error |-> None,
   interactionAt |-> at, pressedAt |-> at, rotatedAt |-> at]

UiInit ==
  /\ \E at \in Moments : ui = UiStart(at)
  /\ nodes = <<>>
  /\ enabled \in BOOLEAN

\* An answer of the hub, or a failed one: then the last list is refreshed again.
Refresh ==
  \E L \in Lists \cup {nodes} :
    /\ nodes' = L
    /\ ui' = DataRefreshed(ui, L)
    /\ UNCHANGED enabled

PressShort ==
  \E p \in Points, at \in Moments :
    /\ ui' = ShortPress(ui, nodes, p[1], p[2], at)
    /\ UNCHANGED <<nodes, enabled>>

PressLong ==
  \E p \in Points, at \in Moments :
    /\ ui' = LongPress(ui, nodes, p[1], p[2], at)
    /\ UNCHANGED <<nodes, enabled>>

HoldEvent ==
  \E at \in Moments, complete \in BOOLEAN :
    /\ ui' \in {HoldStarted(ui, at), HoldTick(ui, complete, at), HoldEnded(ui, at)}
    /\ UNCHANGED <<nodes, enabled>>

RequestResult ==
  \E at \in Moments :
    /\ \/ ui' = RequestAccepted(ui, at)
       \/ \E e \in PowerRequestError : ui' = RequestFailed(ui, e, at)
    /\ UNCHANGED <<nodes, enabled>>

Inactive ==
  \E menuOver, detailOver \in BOOLEAN :
    /\ ui' = InactivityTick(ui, menuOver, detailOver)
    /\ UNCHANGED <<nodes, enabled>>

Rotate ==
  \E at \in Moments :
    /\ ui' = AutoRotateTick(ui, nodes, TRUE, at)
    /\ UNCHANGED <<nodes, enabled>>

UiNext ==
  \/ Refresh \/ PressShort \/ PressLong \/ HoldEvent \/ RequestResult
  \/ Inactive \/ Rotate

UiSpec == UiInit /\ [][UiNext]_vars

------------------------------------------------------------------------------
(* Properties *)

PowerScreen == {"power_confirm", "power_pending", "power_error"}

\* Every field of the state has its type and its range, and what points into the
\* list points into the list of now, though lists of any length replace each other
\* under every screen: the selected node, its position and the page of NODES.
UiTypeOK ==
  /\ ui \in [screen : Screen, selected : Ids(nodes) \cup {NoNode}, hint : Nat,
             category : Category, metrics : [Category -> Nat],
             menuPage : 0..(MenuPageCount - 1), nodesPage : Nat,
             pending : PowerAction \cup {None}, holdAt : Moments \cup {NoTime},
             status : {None, "sending", "accepted"},
             error : PowerRequestError \cup {None},
             interactionAt : Moments, pressedAt : Moments, rotatedAt : Moments]
  /\ \A c \in Category : ui.metrics[c] < ChartMetrics[c]
  /\ ui.hint = 0 \/ ui.hint < Len(nodes)
  /\ ui.screen = "nodes" => ui.nodesPage < NodesPageCount(Len(nodes))
  /\ nodes \in Lists \cup {<<>>}
  /\ enabled \in BOOLEAN

\* Name and position of the selection agree with the list, whatever lists came
\* before and whichever screen moved the selection: selected_node_id and
\* node_index_hint name the same node, and there is none without a list.
SelectionAgrees ==
  IF nodes = <<>> THEN ui.selected = NoNode /\ ui.hint = 0
  ELSE ui.selected \in Ids(nodes) /\ ui.hint = IndexOf(nodes, ui.selected)

\* A screen about a category is only shown for a node that has the category, and
\* a graph only for one that can be drawn, though categories come and go with
\* every sample and the node changes under the screen.
CategoryShown ==
  ui.screen \in {"values", "graph"} =>
    /\ nodes # <<>>
    /\ ui.category \in SelectedNode(ui, nodes).cats
    /\ ui.screen = "graph" => CanOpenGraph(ui.category)

\* What is kept about a power request is there on its screens and nowhere else:
\* no way off them, by press, timeout or result, leaves an action, a hold, a
\* status or an error behind, and a display without power actions shows none.
PowerCoherent ==
  /\ ui.pending # None <=> ui.screen \in PowerScreen
  /\ ui.status # None <=> ui.screen = "power_pending"
  /\ ui.error # None <=> ui.screen = "power_error"
  /\ ui.holdAt # NoTime => ui.screen = "power_confirm"
  /\ ui.screen \in PowerScreen => enabled

\* Every node of the list has one row on one page of NODES, and a touch there
\* finds it: no node is out of reach, whatever the length and order of the list.
\* The page shown is one of them, also after the list has shrunk under it.
NodesReachable ==
  ui.screen = "nodes" =>
    /\ ui.nodesPage < NodesPageCount(Len(nodes))
    /\ \A id \in Ids(nodes) :
         Cardinality({pr \in (0..(NodesPageCount(Len(nodes)) - 1)) \X DOMAIN RowOf :
                        /\ RowOf[pr[2]] < VisibleRows(pr[1], Len(nodes))
                        /\ RowNode(nodes, pr[1], pr[2]) = id}) = 1

\* The path of a power request: confirmed only from the system screen, sent only
\* from a confirmation with a hold under way, ended only by its own result, an
\* accepted one never; and the action sent is the one that was confirmed.
PowerPath ==
  [][/\ ui'.screen = "power_confirm" /\ ui.screen # "power_confirm" => ui.screen = "system"
     /\ ui'.screen = "power_pending" /\ ui.screen # "power_pending" =>
          ui.screen = "power_confirm" /\ ui.holdAt # NoTime
     /\ ui.screen = "power_pending" =>
          \/ ui'.screen = "power_pending"
          \/ ui'.screen = "power_error" /\ ui.status = "sending"
     /\ ui.pending # None /\ ui'.pending # None => ui'.pending = ui.pending
    ]_vars

\* What an answer with the list L may do to the selection and the page of s, of
\* which it makes t (display-ui-phase-0-contract.md, 613-618).  Names are ordered as
\* the numbers that stand for them.
SelectionFollows(s, t, L) ==
  /\ s.selected \in Ids(L) => t.selected = s.selected
  /\ s.screen = "nodes" /\ L # <<>> =>
       IF s.selected \in Ids(L)
       THEN \/ t.nodesPage = s.nodesPage
            \/ t.nodesPage < s.nodesPage /\ t.nodesPage = NodesPageCount(Len(L)) - 1
       ELSE /\ t.nodesPage = 0
            /\ \A id \in Ids(L) : t.selected <= id

\* An answer of the hub leaves the selected node selected while the list still
\* has it, wherever the answer puts it.  On NODES the page stays too, unless the
\* list has become too short for it, and a selected node that is gone gives way to
\* the first by name, on the first page, wherever the hub lists that one.
RefreshKeepsSelection == [][nodes' # nodes => SelectionFollows(ui, ui', nodes')]_vars
==============================================================================
