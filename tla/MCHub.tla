-------------------------------- MODULE MCHub --------------------------------
(* Small instances of Hub for TLC.                                           *)
EXTENDS Hub

TwoNodes == {"n1", "n2"}

Triple(o, r, p) == [offline |-> o, retention |-> r, persist |-> p]

\* Two ways, so that an edit changes the throttle and the retention.
TwoSettings == {Triple(1, 2, 1), Triple(1, 3, 2)}

\* As TwoSettings, and a file whose retention is no number.
BadSettings == {Triple(1, 3, 1), Triple(2, NotInt, 1)}

TextOnly == {"text"}
AnyFile == {"text", "garbage", "absent"}
==============================================================================
