--------------------------------- MODULE MCUi ---------------------------------
(* Small instances of Ui for TLC.                                            *)
EXTENDS Ui

SixNodes == 0..5

ZeroOnly == {0}

OneOrTwoMetrics == [c \in Category |-> IF c = "cpu" THEN 2 ELSE 1]

N(id, cats) == [id |-> id, cats |-> cats \cup {"health"}]

Full == {"cpu", "gpu"}
Bare == {}

\* Lists a registry of a few nodes answers with as nodes come, go, change places
\* and lose what they measure.
FewLists == {
  <<>>,
  <<N(1, Full)>>,
  <<N(1, Full), N(2, Bare)>>,
  <<N(2, {"cpu"}), N(1, Bare)>>,
  <<N(0, {"gpu"}), N(1, Full), N(2, Full)>>,
  <<N(0, {"gpu"}), N(2, Full)>>
}

\* Enough nodes for two pages, sent in an order that is not that of their names.
LongLists == {
  <<N(2, Full), N(0, Full), N(3, Bare), N(1, Full)>>,
  <<N(5, Full), N(1, Full), N(4, Full), N(0, Full), N(3, Full), N(2, Full)>>,
  <<N(1, Full), N(2, Full), N(3, Full)>>,
  <<N(2, Full)>>
}

\* All of them, in any order.
AllLists == FewLists \cup LongLists

\* One point in every region the tables of module Navigation cut the screen into.
AllPoints ==
  ({30, 62, 65, 90, 130, 200, 254, 257, 300} \X {210})
    \cup ({60, 200} \X {16, 60, 95, 108, 125, 139, 150, 188})
==============================================================================
