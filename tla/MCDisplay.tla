------------------------------ MODULE MCDisplay ------------------------------
(* Small instances of Display for TLC.  Times are ticks; NoTime is -1.       *)
EXTENDS Display

ThreeNodes == 1..3
Zero == {0}
Minus1 == -1

OneMetric == [c \in Category |-> IF c = "memory" THEN 2 ELSE 1]

N(id, cats) == [id |-> id, cats |-> cats \cup {"health"}]

OneNode == {<<N(1, {"cpu"})>>}
\* The second node goes, and with it what the first can measure.
ComeAndGo == {<<N(1, {"cpu"}), N(2, {"memory"})>>, <<N(1, {})>>}

\* The middle of the footer (and the hold button, and back from an error), its right
\* end (and the hold button, and the next page), and the lower right tile (system on
\* the second page, and shutdown on the system screen).
HomePoints == {<<200, 210>>, <<300, 210>>, <<200, 150>>}

\* And the left end of the footer (and the cancel button).
LoopPoints == HomePoints \cup {<<60, 210>>}

\* What the steps of the loop and most properties read: all but heldFor, which is
\* for HoldIsFull alone.
WithoutHeldFor ==
  <<vars, loop, finger, rec, pressedAction, turns, watched>>
==============================================================================
