------------------------------- MODULE MCPower -------------------------------
(* Values of the constants of PowerProtocol for TLC. *)
EXTENDS PowerProtocol

\* a request as long as it may be, and one byte too many
MCSize == [w \in Payload |-> IF w = Junk THEN 2 ELSE 1]
MCOtherPayload == {"poweroff", Junk}
==============================================================================
