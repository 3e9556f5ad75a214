------------------------------ MODULE Navigation ------------------------------
(***************************************************************************)
(* The hit tests and the pagination of display/navigation.py.              *)
(*                                                                         *)
(* A table of hit boxes is a function from actions to half-open rectangles *)
(* <<left, top, right, bottom>>.  The program scans a table in order and   *)
(* takes the first box that holds the point; At takes any.  That the boxes *)
(* of a table never overlap, so that the two are the same, is theorem      *)
(* OnePointOneAction of module NavigationProofs.                           *)
(***************************************************************************)
EXTENDS Integers

Inside(box, x, y) ==
  /\ box[1] <= x /\ x < box[3]
  /\ box[2] <= y /\ y < box[4]

NoAction == "no action"

At(table, x, y) ==
  IF \E a \in DOMAIN table : Inside(table[a], x, y)
  THEN CHOOSE a \in DOMAIN table : Inside(table[a], x, y)
  ELSE NoAction

------------------------------------------------------------------------------
(* The tables, one per screen that has one *)

Footer == [previous |-> <<0, 192, 61, 240>>,
           center   |-> <<67, 192, 253, 240>>,
           next     |-> <<259, 192, 320, 240>>]

ValuesGraph == [open_graph |-> <<0, 140, 320, 192>>]

GraphFooter == [graph_previous_metric |-> <<0, 192, 64, 240>>,
                graph_values          |-> <<64, 192, 256, 240>>,
                graph_next_metric     |-> <<256, 192, 320, 240>>]

MenuFooter == [menu_previous_page |-> <<0, 192, 64, 240>>,
               menu_back          |-> <<64, 192, 256, 240>>,
               menu_next_page     |-> <<256, 192, 320, 240>>]

\* A tile is named by what it opens.
MenuTiles(page) ==
  IF page = 0
  THEN [cpu     |-> <<0, 32, 160, 112>>, memory  |-> <<160, 32, 320, 112>>,
        gpu     |-> <<0, 112, 160, 192>>, nodes  |-> <<160, 112, 320, 192>>]
  ELSE [storage |-> <<0, 32, 160, 112>>, network |-> <<160, 32, 320, 112>>,
        health  |-> <<0, 112, 160, 192>>, system |-> <<160, 112, 320, 192>>]

NodesFooter == [nodes_previous_page |-> <<0, 192, 64, 240>>,
                nodes_back          |-> <<64, 192, 256, 240>>,
                nodes_next_page     |-> <<256, 192, 320, 240>>]

NodesRows == [nodes_select_0 |-> <<0, 32, 320, 85>>,
              nodes_select_1 |-> <<0, 85, 320, 138>>,
              nodes_select_2 |-> <<0, 138, 320, 192>>]

RowOf == [nodes_select_0 |-> 0, nodes_select_1 |-> 1, nodes_select_2 |-> 2]

System == [system_restart  |-> <<0, 32, 320, 104>>,
           system_shutdown |-> <<0, 112, 320, 184>>,
           system_back     |-> <<64, 192, 256, 240>>]

PowerConfirm == [power_cancel |-> <<0, 192, 112, 240>>,
                 power_hold   |-> <<112, 192, 320, 240>>]

PowerError == [power_error_back |-> <<64, 192, 256, 240>>]

------------------------------------------------------------------------------
(* Pages *)

MenuPageCount == 2
NodesPageSize == 3

AtMost(a, b) == IF a < b THEN a ELSE b

\* move(): one step around a ring
Move(index, count, delta) == IF count = 0 THEN 0 ELSE (index + delta) % count

\* normalize_menu_page(), normalize_nodes_page()
Normalize(page, count) == IF page < 0 THEN 0 ELSE AtMost(page, count - 1)

NormalizeMenuPage(page) == Normalize(page, MenuPageCount)

MenuPageFor(category) == IF category \in {"storage", "network", "health"} THEN 1 ELSE 0

\* mutant of NodesPageCount: a last page that is not full is not counted
FullPageCount(count) == IF count < NodesPageSize THEN 1 ELSE count \div NodesPageSize

NodesPageCount(count) ==
  IF count = 0 THEN 1 ELSE (count + NodesPageSize - 1) \div NodesPageSize

NormalizeNodesPage(page, count) == Normalize(page, NodesPageCount(count))

VisibleRows(page, count) ==
  AtMost(NodesPageSize, count - NormalizeNodesPage(page, count) * NodesPageSize)

------------------------------------------------------------------------------
(* Actions *)

\* menu_action_at(): the footer, then the tiles of the page
MenuActionAt(page, x, y) ==
  LET footer == At(MenuFooter, x, y) IN
  IF footer # NoAction THEN footer ELSE At(MenuTiles(NormalizeMenuPage(page)), x, y)

\* nodes_action_at(): no paging on a single page, no row beyond the last node
NodesActionAt(page, count, x, y) ==
  LET footer == At(NodesFooter, x, y)
      row == At(NodesRows, x, y)
  IN
  IF footer # NoAction
  THEN IF footer = "nodes_back" \/ NodesPageCount(count) > 1 THEN footer ELSE NoAction
  ELSE IF row # NoAction /\ RowOf[row] < VisibleRows(page, count) THEN row ELSE NoAction

------------------------------------------------------------------------------
(* Touches: a raw reading of the panel becomes a point of the screen *)

\* round(n / d): to the nearest, of two to the even one
Rounded(n, d) ==
  LET q == n \div d
      r == n % d
  IN IF 2 * r > d \/ (2 * r = d /\ q % 2 = 1) THEN q + 1 ELSE q

Clamped(n, top) == IF n < 0 THEN 0 ELSE AtMost(n, top)

\* _scale(), of a calibration whose range is not empty
Scale(value, low, high, outputMax) == Clamped(Rounded((value - low) * outputMax, high - low), outputMax)

Inverted(n, top, invert) == IF invert THEN top - n ELSE n

\* map_touch(); a calibration is a record with the keys of the file
MapTouch(rawX, rawY, c) ==
  LET alongX == IF c.swap_xy THEN rawY ELSE rawX
      alongY == IF c.swap_xy THEN rawX ELSE rawY
  IN <<Inverted(Scale(alongX, c.raw_x_min, c.raw_x_max, 319), 319, c.invert_x),
       Inverted(Scale(alongY, c.raw_y_min, c.raw_y_max, 239), 239, c.invert_y)>>
==============================================================================
