--------------------------- MODULE NavigationProofs ---------------------------
(* The tables of module Navigation are what the program's loops make of them. *)
EXTENDS Navigation, TLAPS

\* No two boxes of a table share a point.
Disjoint(table) ==
  \A x, y \in Int : \A a, b \in DOMAIN table :
    Inside(table[a], x, y) /\ Inside(table[b], x, y) => a = b

LEMMA FooterDisjoint == Disjoint(Footer)
  BY DEF Disjoint, Footer, Inside

LEMMA GraphFooterDisjoint == Disjoint(GraphFooter)
  BY DEF Disjoint, GraphFooter, Inside

LEMMA MenuFooterDisjoint == Disjoint(MenuFooter)
  BY DEF Disjoint, MenuFooter, Inside

LEMMA MenuTilesDisjoint == ASSUME NEW page PROVE Disjoint(MenuTiles(page))
  <1>1. CASE page = 0
    BY <1>1 DEF Disjoint, MenuTiles, Inside
  <1>2. CASE page # 0
    BY <1>2 DEF Disjoint, MenuTiles, Inside
  <1> QED BY <1>1, <1>2

LEMMA NodesFooterDisjoint == Disjoint(NodesFooter)
  BY DEF Disjoint, NodesFooter, Inside

LEMMA NodesRowsDisjoint == Disjoint(NodesRows)
  BY DEF Disjoint, NodesRows, Inside

LEMMA SystemDisjoint == Disjoint(System)
  BY DEF Disjoint, System, Inside

LEMMA PowerConfirmDisjoint == Disjoint(PowerConfirm)
  BY DEF Disjoint, PowerConfirm, Inside

\* Scanning a table in order and taking any box that holds the point are the same:
\* whichever screen is shown, a point is in at most one of its controls.
THEOREM OnePointOneAction ==
  ASSUME NEW table \in {Footer, GraphFooter, MenuFooter, MenuTiles(0), MenuTiles(1),
                        NodesFooter, NodesRows, System, PowerConfirm},
         NEW x \in Int, NEW y \in Int,
         NEW a \in DOMAIN table, Inside(table[a], x, y)
  PROVE  At(table, x, y) = a
  <1>1. Disjoint(table)
    BY FooterDisjoint, GraphFooterDisjoint, MenuFooterDisjoint, MenuTilesDisjoint,
       NodesFooterDisjoint, NodesRowsDisjoint, SystemDisjoint, PowerConfirmDisjoint
  <1>2. At(table, x, y) \in DOMAIN table /\ Inside(table[At(table, x, y)], x, y)
    BY DEF At
  <1> QED BY <1>1, <1>2 DEF Disjoint

------------------------------------------------------------------------------

\* The pages of NODES cut the list up: every position is a visible row of exactly
\* one page, and only positions of the list are visible.
THEOREM PagesPartition ==
  ASSUME NEW count \in Nat \ {0}, NEW index \in 0..(count - 1),
         NEW page \in 0..(NodesPageCount(count) - 1), NEW row \in 0..(NodesPageSize - 1)
  PROVE  /\ index \div NodesPageSize \in 0..(NodesPageCount(count) - 1)
         /\ index % NodesPageSize < VisibleRows(index \div NodesPageSize, count)
         /\ page * NodesPageSize + row = index =>
              page = index \div NodesPageSize /\ row = index % NodesPageSize
         /\ row < VisibleRows(page, count) => page * NodesPageSize + row < count
  <1>1. index \in Nat /\ count \in Nat
    OBVIOUS
  <1>2. NodesPageCount(count) = (count + 2) \div 3
    BY DEF NodesPageCount, NodesPageSize
  <1>3. index \div 3 \in 0..(NodesPageCount(count) - 1)
    BY <1>1, <1>2
  <1>4. \A p \in 0..(NodesPageCount(count) - 1) : NormalizeNodesPage(p, count) = p
    BY <1>2 DEF NormalizeNodesPage, Normalize, AtMost
  <1>5. index % 3 < VisibleRows(index \div 3, count)
    BY <1>1, <1>3, <1>4 DEF VisibleRows, AtMost, NodesPageSize
  <1>6. page * 3 + row = index => page = index \div 3 /\ row = index % 3
    BY <1>2 DEF NodesPageSize
  <1>7. row < VisibleRows(page, count) => page * 3 + row < count
    BY <1>2, <1>4 DEF VisibleRows, AtMost, NodesPageSize
  <1> QED BY <1>3, <1>5, <1>6, <1>7 DEF NodesPageSize

------------------------------------------------------------------------------
(* Touches *)

LEMMA QuotientGrows ==
  ASSUME NEW n \in Int, NEW k \in Int, NEW d \in Nat \ {0}, n <= k
  PROVE  /\ n \div d <= k \div d
         /\ n \div d = k \div d => n % d <= k % d
<1> DEFINE a == n \div d
           b == k \div d
<1>1. /\ a \in Int /\ b \in Int /\ n % d \in 0..(d - 1) /\ k % d \in 0..(d - 1)
      /\ n = d * a + (n % d) /\ k = d * b + (k % d)
  OBVIOUS
<1> HIDE DEF a, b
<1>2. a <= b
  <2> SUFFICES ASSUME a >= b + 1 PROVE FALSE
    BY <1>1
  <2>1. PICK x \in Nat : a = b + 1 + x
    BY <1>1, a - (b + 1) \in Nat, a = b + 1 + (a - (b + 1))
  <2>2. d * x \in Nat
    OBVIOUS
  <2>3. d * a = d * b + d + d * x
    BY <1>1, <2>1
  <2>4. d * b \in Int
    BY <1>1
  <2> QED
    BY <1>1, <2>2, <2>3, <2>4
<1>3. a = b => n % d <= k % d
  <2>1. d * b \in Int
    BY <1>1
  <2> QED
    BY <1>1, <2>1
<1> QED
  BY <1>2, <1>3 DEF a, b

LEMMA RoundedGrows ==
  ASSUME NEW n \in Int, NEW k \in Int, NEW d \in Nat \ {0}, n <= k
  PROVE  Rounded(n, d) <= Rounded(k, d)
<1>1. /\ n \div d \in Int /\ k \div d \in Int /\ n % d \in Int /\ k % d \in Int
      /\ n \div d <= k \div d /\ (n \div d = k \div d => n % d <= k % d)
  BY QuotientGrows
<1> QED
  BY <1>1 DEF Rounded

\* Further along the panel is not less far along the screen, the lower end of the
\* calibrated range is 0, its upper end the last pixel, and nothing lies outside.
LEMMA ScaleGrows ==
  ASSUME NEW low \in Int, NEW high \in Int, low < high, NEW top \in Nat,
         NEW v \in Int, NEW w \in Int, v <= w
  PROVE  /\ Scale(v, low, high, top) \in 0..top
         /\ Scale(v, low, high, top) <= Scale(w, low, high, top)
         /\ v <= low => Scale(v, low, high, top) = 0
         /\ high <= v => Scale(v, low, high, top) = top
<1> DEFINE d == high - low
           n == (v - low) * top
           k == (w - low) * top
<1>1. d \in Nat \ {0} /\ n \in Int /\ k \in Int
  OBVIOUS
<1>2. n <= k
  <2>1. (w - v) * top \in Nat
    BY w - v \in Nat
  <2>2. k = n + (w - v) * top
    OBVIOUS
  <2> HIDE DEF n, k
  <2> QED
    BY <1>1, <2>1, <2>2
<1>3. v <= low => n <= 0
  <2>1. ASSUME v <= low PROVE (low - v) * top \in Nat
    BY <2>1, low - v \in Nat
  <2>2. n = 0 - (low - v) * top
    OBVIOUS
  <2> HIDE DEF n
  <2> QED
    BY <1>1, <2>1, <2>2
<1>4. high <= v => d * top <= n
  <2>1. ASSUME high <= v PROVE (v - high) * top \in Nat
    BY <2>1, v - high \in Nat
  <2>2. n = d * top + (v - high) * top /\ d * top \in Int
    OBVIOUS
  <2> HIDE DEF n, d
  <2> QED
    BY <1>1, <2>1, <2>2
<1>5. Rounded(0, d) = 0
  BY <1>1 DEF Rounded
<1>6. d * top \in Int /\ Rounded(d * top, d) = top
  <2> HIDE DEF d
  <2>1. (d * top) \div d = top /\ (d * top) % d = 0
    <3>1. d * top \in Int
      BY <1>1
    <3>2. \A q, r \in Int : d * top = d * q + r /\ 0 <= r /\ r < d => q = top /\ r = 0
      <4> SUFFICES ASSUME NEW q \in Int, NEW r \in Int, d * top = d * q + r, 0 <= r, r < d
                   PROVE  q = top
        BY <1>1, <3>1
      <4>1. CASE q < top
        <5>1. PICK x \in Nat : top = q + 1 + x
          BY <4>1, top - (q + 1) \in Nat, top = q + 1 + (top - (q + 1))
        <5>2. d * top = d * q + d + d * x
          BY <1>1, <5>1
        <5>3. d * x \in Nat /\ d * q \in Int
          BY <1>1
        <5> QED
          BY <1>1, <5>2, <5>3
      <4>2. CASE q > top
        <5>1. PICK x \in Nat : q = top + 1 + x
          BY <4>2, q - (top + 1) \in Nat, q = top + 1 + (q - (top + 1))
        <5>2. d * q = d * top + d + d * x
          BY <1>1, <5>1
        <5>3. d * x \in Nat /\ d * top \in Int
          BY <1>1
        <5> QED
          BY <1>1, <5>2, <5>3
      <4> QED
        BY <4>1, <4>2
    <3>3. LET q == (d * top) \div d  r == (d * top) % d
          IN q \in Int /\ r \in Int /\ d * top = d * q + r /\ 0 <= r /\ r < d
      BY <1>1, <3>1
    <3> QED
      BY <3>2, <3>3
  <2> QED
    BY <1>1, <2>1 DEF Rounded
<1> DEFINE f(m) == Rounded(m, d)
<1>7. f(n) \in Int /\ f(k) \in Int /\ f(n) <= f(k)
      /\ (v <= low => f(n) <= 0) /\ (high <= v => top <= f(n))
  <2> HIDE DEF n, k, d
  <2>1. \A m \in Int : f(m) \in Int
    BY <1>1 DEF Rounded
  <2> QED
    BY <1>1, <1>2, <1>3, <1>4, <1>5, <1>6, <2>1, RoundedGrows
<1>8. Scale(v, low, high, top) = Clamped(f(n), top) /\ Scale(w, low, high, top) = Clamped(f(k), top)
  BY DEF Scale
<1> HIDE DEF f
<1> QED
  BY <1>7, <1>8 DEF Clamped, AtMost

LEMMA ScaleInOrder ==
  ASSUME NEW low \in Int, NEW high \in Int, low < high, NEW top \in Nat,
         NEW v \in Int, NEW w \in Int, v <= w
  PROVE  /\ Scale(v, low, high, top) \in 0..top /\ Scale(w, low, high, top) \in 0..top
         /\ Scale(v, low, high, top) <= Scale(w, low, high, top)
<1>1. Scale(v, low, high, top) \in 0..top /\ Scale(v, low, high, top) <= Scale(w, low, high, top)
  BY ScaleGrows
<1>2. w <= w
  OBVIOUS
<1>3. Scale(w, low, high, top) \in 0..top
  BY <1>2, ScaleGrows
<1> QED
  BY <1>1, <1>3

\* A calibrated touch is a point of the screen, whatever the panel reads, and of two
\* touches the one further along an axis is not shown less far along it, or not
\* further if that axis is inverted.
THEOREM TouchesAreInOrder ==
  ASSUME NEW c, c.swap_xy \in BOOLEAN, c.invert_x \in BOOLEAN, c.invert_y \in BOOLEAN,
         c.raw_x_min \in Int, c.raw_x_max \in Int, c.raw_y_min \in Int, c.raw_y_max \in Int,
         c.raw_x_min < c.raw_x_max, c.raw_y_min < c.raw_y_max,
         NEW x \in Int, NEW y \in Int, NEW x2 \in Int, NEW y2 \in Int, x <= x2, y <= y2
  PROVE  LET p == MapTouch(x, y, c)
             q == MapTouch(x2, y2, c)
         IN  /\ p[1] \in 0..319 /\ p[2] \in 0..239
             /\ IF c.invert_x THEN q[1] <= p[1] ELSE p[1] <= q[1]
             /\ IF c.invert_y THEN q[2] <= p[2] ELSE p[2] <= q[2]
<1> DEFINE A(v) == Inverted(Scale(v, c.raw_x_min, c.raw_x_max, 319), 319, c.invert_x)
           B(v) == Inverted(Scale(v, c.raw_y_min, c.raw_y_max, 239), 239, c.invert_y)
<1>1. ASSUME NEW v \in Int, NEW w \in Int, v <= w
      PROVE  A(v) \in 0..319 /\ IF c.invert_x THEN A(w) <= A(v) ELSE A(v) <= A(w)
  <2> DEFINE low == c.raw_x_min
             high == c.raw_x_max
             i == c.invert_x
             a == Inverted(Scale(v, low, high, 319), 319, i)
             b == Inverted(Scale(w, low, high, 319), 319, i)
  <2>1. low \in Int /\ high \in Int /\ low < high /\ i \in BOOLEAN /\ 319 \in Nat
    OBVIOUS
  <2>2. a \in 0..319 /\ IF i THEN b <= a ELSE a <= b
    <3> DEFINE s == Scale(v, low, high, 319)
               t == Scale(w, low, high, 319)
    <3> HIDE DEF low, high, i
    <3>1. s \in 0..319 /\ t \in 0..319 /\ s <= t
      <4> DEFINE top == 319
      <4>1. top \in Nat /\ v <= w
        BY <1>1
      <4> HIDE DEF top
      <4>2. /\ Scale(v, low, high, top) \in 0..top /\ Scale(w, low, high, top) \in 0..top
            /\ Scale(v, low, high, top) <= Scale(w, low, high, top)
        BY <4>1, <2>1, ScaleInOrder
      <4> QED
        BY <4>2 DEF top
    <3> HIDE DEF s, t
    <3>2. /\ a = IF i THEN 319 - s ELSE s
          /\ b = IF i THEN 319 - t ELSE t
      BY DEF Inverted, s, t
    <3> QED
      BY <3>1, <3>2
  <2> QED
    BY <2>2
<1>2. ASSUME NEW v \in Int, NEW w \in Int, v <= w
      PROVE  B(v) \in 0..239 /\ IF c.invert_y THEN B(w) <= B(v) ELSE B(v) <= B(w)
  <2> DEFINE low == c.raw_y_min
             high == c.raw_y_max
             i == c.invert_y
             a == Inverted(Scale(v, low, high, 239), 239, i)
             b == Inverted(Scale(w, low, high, 239), 239, i)
  <2>1. low \in Int /\ high \in Int /\ low < high /\ i \in BOOLEAN /\ 239 \in Nat
    OBVIOUS
  <2>2. a \in 0..239 /\ IF i THEN b <= a ELSE a <= b
    <3> DEFINE s == Scale(v, low, high, 239)
               t == Scale(w, low, high, 239)
    <3> HIDE DEF low, high, i
    <3>1. s \in 0..239 /\ t \in 0..239 /\ s <= t
      <4> DEFINE top == 239
      <4>1. top \in Nat /\ v <= w
        BY <1>2
      <4> HIDE DEF top
      <4>2. /\ Scale(v, low, high, top) \in 0..top /\ Scale(w, low, high, top) \in 0..top
            /\ Scale(v, low, high, top) <= Scale(w, low, high, top)
        BY <4>1, <2>1, ScaleInOrder
      <4> QED
        BY <4>2 DEF top
    <3> HIDE DEF s, t
    <3>2. /\ a = IF i THEN 239 - s ELSE s
          /\ b = IF i THEN 239 - t ELSE t
      BY DEF Inverted, s, t
    <3> QED
      BY <3>1, <3>2
  <2> QED
    BY <2>2
<1>3. \A v, w \in Int :
        MapTouch(v, w, c) = IF c.swap_xy THEN <<A(w), B(v)>> ELSE <<A(v), B(w)>>
  BY DEF MapTouch
<1> HIDE DEF A, B
<1>4. /\ MapTouch(x, y, c) = IF c.swap_xy THEN <<A(y), B(x)>> ELSE <<A(x), B(y)>>
      /\ MapTouch(x2, y2, c) = IF c.swap_xy THEN <<A(y2), B(x2)>> ELSE <<A(x2), B(y2)>>
  BY <1>3
<1>5. CASE c.swap_xy
  <2>1. MapTouch(x, y, c) = <<A(y), B(x)>> /\ MapTouch(x2, y2, c) = <<A(y2), B(x2)>>
    BY <1>4, <1>5
  <2>2. /\ A(y) \in 0..319 /\ IF c.invert_x THEN A(y2) <= A(y) ELSE A(y) <= A(y2)
        /\ B(x) \in 0..239 /\ IF c.invert_y THEN B(x2) <= B(x) ELSE B(x) <= B(x2)
    BY <1>1, <1>2
  <2> QED
    BY <2>1, <2>2
<1>6. CASE ~c.swap_xy
  <2>1. MapTouch(x, y, c) = <<A(x), B(y)>> /\ MapTouch(x2, y2, c) = <<A(x2), B(y2)>>
    BY <1>4, <1>6
  <2>2. /\ A(x) \in 0..319 /\ IF c.invert_x THEN A(x2) <= A(x) ELSE A(x) <= A(x2)
        /\ B(y) \in 0..239 /\ IF c.invert_y THEN B(y2) <= B(y) ELSE B(y) <= B(y2)
    BY <1>1, <1>2
  <2> QED
    BY <2>1, <2>2
<1> QED
  BY <1>5, <1>6
==============================================================================
