---------------------------- MODULE PowerProtocol ----------------------------
(***************************************************************************)
(* A power request on its way from the display to systemd:                 *)
(* request_power_action() of display/power_client.py, the socket unit that *)
(* starts a helper for each connection, handle_connection() of             *)
(* display/power_helper.py in each helper, and the systemctl it runs.      *)
(*                                                                         *)
(* The display makes one request at a time, but a helper outlives a client *)
(* that gave up, so several are under way.  Other local processes may      *)
(* connect as well, write at any pace and close at any time.  A connection *)
(* carries the first `sent' bytes of the payload `wants', and no proper    *)
(* part of a request is a request.                                         *)
(*                                                                         *)
(* A timer counts ticks, and no tick passes over the end of one.           *)
(***************************************************************************)
EXTENDS Integers, FiniteSets

CONSTANTS
  Conn,          \* connections, used again when they are over
  Junk,          \* a payload that is no request
  OtherPayload,  \* the payloads that processes other than the display write
  Size,          \* the length of each payload
  MaxRequest,    \* MAX_REQUEST_BYTES
  Slots,         \* MaxConnections of the socket unit
  ClientTimeout, \* POWER_CLIENT_TIMEOUT_SECONDS
  ReadTimeout,   \* READ_TIMEOUT_SECONDS
  CommandTimeout,\* COMMAND_TIMEOUT_SECONDS
  None

PowerAction == {"reboot", "poweroff"}
Payload == PowerAction \cup {Junk}
Peer == {"display", "root", "stranger"}
Refusal == {"helper_unavailable", "permission_denied", "protocol_error"}
Result == {"accepted", "timeout", "io_error"} \cup Refusal

ASSUME PowerAssumption ==
  /\ Junk \notin PowerAction
  /\ None \notin Payload \cup Peer \cup Conn
  /\ OtherPayload \subseteq Payload
  /\ Size \in [Payload -> Nat \ {0}]
  /\ \A a \in PowerAction : Size[a] <= MaxRequest
  /\ {MaxRequest, Slots} \subseteq Nat
  /\ {ClientTimeout, ReadTimeout, CommandTimeout} \subseteq Nat \ {0}
  /\ ClientTimeout < CommandTimeout

VARIABLES
  pc,       \* what the client awaits, "idle" outside request_power_action()
  at,       \* its connection
  age,      \* ticks since its timeout began
  conn,     \* the connections and what belongs to them
  stopping  \* does the host stop its services?

client == <<pc, at, age>>
vars == <<client, conn, stopping>>

Alive == {"starting", "reading", "running"}

Connection ==
  [peer   : Peer \cup {None},       \* who opened it
   wants  : Payload,                \* what it is to carry
   sent   : Nat,                    \* how much of that has been written
   eof    : BOOLEAN,                \* is its writing end closed?
   gone   : BOOLEAN,                \* has its opener closed it altogether?
   told   : Result \cup {"nothing"},\* the result of request_power_action()
   helper : Alive \cup {"none", "ended", "dropped"},
   got    : 0..MaxRequest,          \* how much the helper has read
   timer  : Nat,                    \* ticks of its present recv() or command
   since  : Nat,                    \* ticks since it began to read
   reply  : {"nothing", "accepted", "rejected"},
   order  : PowerAction \cup {None},\* what its systemctl is to ask the host for
   cmd    : {"none", "running", "killed", "over"}, \* that systemctl
   effect : PowerAction \cup {None}]\* the action the host has taken for it

Unused ==
  [peer |-> None, wants |-> Junk, sent |-> 0, eof |-> FALSE, gone |-> FALSE,
   told |-> "nothing", helper |-> "none", got |-> 0, timer |-> 0, since |-> 0,
   reply |-> "nothing", order |-> None, cmd |-> "none", effect |-> None]

\* the helper, or systemd for want of one, has closed the connection
Closed(k) == k.helper \in {"ended", "dropped"}

\* a step of one connection
Becomes(c, k) == conn' = [conn EXCEPT ![c] = k] /\ UNCHANGED <<client, stopping>>

------------------------------------------------------------------------------
(* request_power_action() *)

Goes(to) == pc' = to /\ UNCHANGED <<at, age, stopping>>

Left(k) == [k EXCEPT !.eof = TRUE, !.gone = TRUE]

\* Every way out closes the writer.
Leaves(k) ==
  /\ pc' = "idle" /\ at' = None /\ age' = 0
  /\ conn' = [conn EXCEPT ![at] = Left(k)]
  /\ UNCHANGED stopping

Finish(r) == Leaves([conn[at] EXCEPT !.told = r])

Ask(c, a) ==
  /\ pc = "idle" /\ conn[c].peer = None
  /\ pc' = "connecting" /\ at' = c /\ age' = 0
  /\ conn' = [conn EXCEPT ![c].peer = "display", ![c].wants = a]
  /\ UNCHANGED stopping

\* Accept=yes: a helper for the connection, or none if there are too many of them,
\* those of connections that are not modelled included.
Served(foreign) ==
  IF Cardinality({d \in Conn : conn[d].helper \in Alive}) + foreign < Slots
  THEN "starting" ELSE "dropped"

Connected ==
  /\ pc = "connecting" /\ Goes("connected")
  /\ \E foreign \in 0..Slots : conn' = [conn EXCEPT ![at].helper = Served(foreign)]

\* no socket, nobody listening, no permission, or any other error
ConnectFails ==
  /\ pc = "connecting"
  /\ \E r \in {"helper_unavailable", "permission_denied", "io_error"} : Finish(r)

Write ==
  /\ pc = "connected" /\ Goes("written")
  /\ conn' = [conn EXCEPT ![at].sent = Size[conn[at].wants]]

WriteEof ==
  /\ pc = "written" /\ Goes("waiting")
  /\ conn' = [conn EXCEPT ![at].eof = TRUE]

\* whatever is not exactly the answer expected
Misread(line) == "protocol_error"

\* readline() has a line, or the end of the stream
ReadLine ==
  /\ pc = "waiting"
  /\ conn[at].reply # "nothing" \/ Closed(conn[at])
  /\ \/ conn[at].reply = "accepted" /\ Goes("answered") /\ UNCHANGED conn
     \/ conn[at].reply # "accepted" /\ Finish(Misread(conn[at].reply))

\* read(1) has the end of the stream: no helper writes more than one line
ReadEnd == pc = "answered" /\ Closed(conn[at]) /\ Finish("accepted")

\* an OSError from a stream, or one that cannot be half closed
IoFails ==
  /\ pc \in {"connected", "written", "waiting", "answered"}
  /\ Finish("io_error")

Expired == age = ClientTimeout

ClientTimesOut == pc # "idle" /\ Expired /\ Finish("timeout")

\* what the client does by itself, and what the kernel does with its connection
ClientGoesOn == Write \/ WriteEof \/ ReadLine \/ ReadEnd \/ ClientTimesOut

ClientStep == ClientGoesOn \/ Connected \/ ConnectFails \/ IoFails

\* The display dies in the middle of a request, and is started again.
DisplayDies == pc # "idle" /\ Leaves(conn[at])

------------------------------------------------------------------------------
(* Other processes the socket lets in: root, and members of its group *)

OtherConnects(c, p, w) ==
  /\ conn[c].peer = None /\ p # "display"
  /\ \E foreign \in 0..Slots :
       Becomes(c, [Unused EXCEPT !.peer = p, !.wants = w, !.helper = Served(foreign)])

IsOther(k) == k.peer \in {"root", "stranger"} /\ ~Closed(k)

OtherWrites(c) ==
  /\ IsOther(conn[c]) /\ ~conn[c].eof
  /\ conn[c].sent < Size[conn[c].wants]
  /\ Becomes(c, [conn[c] EXCEPT !.sent = @ + 1])

\* half closed, or closed
OtherCloses(c) ==
  /\ IsOther(conn[c]) /\ ~conn[c].gone
  /\ \E all \in BOOLEAN : Becomes(c, [conn[c] EXCEPT !.eof = TRUE, !.gone = all])

------------------------------------------------------------------------------
(* handle_connection() *)

IsAuthorizedPeer(k) == k.peer \in {"display", "root"}

\* The answer, and the end.  sendall() fails when nobody is there, and _reject()
\* after it then fails as well.
Ended(k, line) ==
  [k EXCEPT !.helper = "ended", !.got = 0, !.timer = 0, !.since = 0,
            !.reply = IF k.gone THEN "nothing" ELSE line]

Rejects(c) == Becomes(c, Ended(conn[c], "rejected"))

Start(c) ==
  /\ conn[c].helper = "starting"
  /\ IF IsAuthorizedPeer(conn[c])
     THEN Becomes(c, [conn[c] EXCEPT !.helper = "reading"])
     ELSE Rejects(c)

\* mutant of WithinLimit: whatever is read is kept
NoLimit(n) == TRUE

WithinLimit(n) == n <= MaxRequest

\* recv() returns n bytes, at most one more than a request may have
Recv(c, n) ==
  /\ conn[c].helper = "reading"
  /\ n <= conn[c].sent - conn[c].got
  /\ WithinLimit(conn[c].got + n - 1)
  /\ IF WithinLimit(conn[c].got + n)
     THEN Becomes(c, [conn[c] EXCEPT !.got = @ + n, !.timer = 0])
     ELSE Rejects(c)

\* mutant of Received: the beginning of a request is taken for it
ReceivedInPart(k) == k.wants

\* a part of a request is none
Received(k) == IF k.got = Size[k.wants] THEN k.wants ELSE Junk

\* recv() returns nothing: the request is complete, and its command is run
RecvEnd(c) ==
  /\ conn[c].helper = "reading"
  /\ conn[c].eof /\ conn[c].got = conn[c].sent
  /\ IF Received(conn[c]) \in PowerAction
     THEN Becomes(c, [conn[c] EXCEPT !.helper = "running", !.timer = 0, !.since = 0,
                                     !.order = Received(conn[c]), !.cmd = "running"])
     ELSE Rejects(c)

Limit(k) == IF k.helper = "running" THEN CommandTimeout ELSE ReadTimeout

\* mutant of Overdue: only the command has a timeout
CommandOverdue(k) == k.helper = "running" /\ k.timer = Limit(k)

Overdue(k) == k.timer = Limit(k)

ReadTimesOut(c) == conn[c].helper = "reading" /\ Overdue(conn[c]) /\ Rejects(c)

\* no peer credentials, no such account, or a read that fails
HelperFails(c) == conn[c].helper \in {"starting", "reading"} /\ Rejects(c)

\* systemctl exits with 0 if the host has taken the action
CommandEnds(c) ==
  /\ conn[c].helper = "running"
  /\ Becomes(c, Ended([conn[c] EXCEPT !.cmd = "over"],
                      IF conn[c].effect # None THEN "accepted" ELSE "rejected"))

\* TimeoutExpired: systemctl is killed, but may have been heard
CommandTimesOut(c) ==
  /\ conn[c].helper = "running" /\ Overdue(conn[c])
  /\ Becomes(c, Ended([conn[c] EXCEPT !.cmd = "killed"], "rejected"))

\* what a helper does by itself, and what depends on its system and on systemctl
HelperGoesOn(c) ==
  \/ \E n \in 1..(MaxRequest + 1) : Recv(c, n)
  \/ RecvEnd(c)
  \/ ReadTimesOut(c)
  \/ CommandTimesOut(c)

HelperStep(c) == HelperGoesOn(c) \/ Start(c) \/ HelperFails(c) \/ CommandEnds(c)

------------------------------------------------------------------------------
(* The host *)

\* The host takes the action of a systemctl, a killed one included.
TakesEffect(c) ==
  /\ conn[c].cmd \in {"running", "killed"} /\ conn[c].effect = None
  /\ Becomes(c, [conn[c] EXCEPT !.effect = conn[c].order])

\* A killed systemctl was not heard, or was before.
IsOver(c) == conn[c].cmd = "killed" /\ Becomes(c, [conn[c] EXCEPT !.cmd = "over"])

\* The host stops its services, the helpers among them, before it goes down.
Stops ==
  /\ ~stopping
  /\ \E c \in Conn : conn[c].effect # None
  /\ stopping' = TRUE
  /\ UNCHANGED <<client, conn>>

HelperIsKilled(c) ==
  /\ stopping /\ conn[c].helper \in Alive
  /\ Becomes(c, Ended([conn[c] EXCEPT !.cmd = IF @ = "running" THEN "killed" ELSE @],
                      "nothing"))

Restarts ==
  /\ stopping
  /\ pc' = "idle" /\ at' = None /\ age' = 0
  /\ conn' = [c \in Conn |-> Unused]
  /\ stopping' = FALSE

\* A connection that is over makes room for another one.
IsReleased(c) ==
  /\ conn[c].peer # None /\ at # c /\ conn[c].helper \notin Alive
  /\ conn[c].cmd \in {"none", "over"} /\ conn[c].effect = None
  /\ Becomes(c, Unused)

IsTimed(k) == k.helper \in {"reading", "running"}

Aged(k) ==
  [k EXCEPT !.timer = IF IsTimed(k) THEN @ + 1 ELSE @,
            !.since = IF k.helper = "reading" THEN @ + 1 ELSE @]

Tick ==
  /\ pc # "idle" \/ \E c \in Conn : IsTimed(conn[c])
  /\ pc # "idle" => age < ClientTimeout
  /\ \A c \in Conn : IsTimed(conn[c]) => conn[c].timer < Limit(conn[c])
  /\ age' = IF pc = "idle" THEN 0 ELSE age + 1
  /\ conn' = [c \in Conn |-> Aged(conn[c])]
  /\ UNCHANGED <<pc, at, stopping>>

------------------------------------------------------------------------------

Init ==
  /\ pc = "idle" /\ at = None /\ age = 0
  /\ conn = [c \in Conn |-> Unused]
  /\ stopping = FALSE

Next ==
  \/ \E c \in Conn, a \in PowerAction : Ask(c, a)
  \/ ClientStep
  \/ DisplayDies
  \/ \E c \in Conn, p \in Peer, w \in OtherPayload : OtherConnects(c, p, w)
  \/ \E c \in Conn : OtherWrites(c) \/ OtherCloses(c)
  \/ \E c \in Conn : HelperStep(c)
  \/ \E c \in Conn : TakesEffect(c) \/ IsOver(c) \/ HelperIsKilled(c)
  \/ Stops
  \/ Restarts
  \/ \E c \in Conn : IsReleased(c)
  \/ Tick

Spec == Init /\ [][Next]_vars

\* Clocks run, the client is a task of a loop that nothing else blocks, and the
\* kernel schedules a helper that has been started.  Nobody has to connect a client,
\* to start a helper, to end a command, to write or to close anything.
FairSpec ==
  /\ Spec
  /\ WF_vars(Tick)
  /\ WF_vars(ClientGoesOn)
  /\ \A c \in Conn : WF_vars(HelperGoesOn(c))

------------------------------------------------------------------------------
(* Properties *)

\* Every variable keeps its type, and the client has a connection while it is busy.
PowerTypeOK ==
  /\ pc \in {"idle", "connecting", "connected", "written", "waiting", "answered"}
  /\ IF pc = "idle" THEN at = None ELSE at \in Conn
  /\ age \in 0..ClientTimeout
  /\ conn \in [Conn -> Connection]
  /\ stopping \in BOOLEAN

\* However slowly a peer writes, and though each recv() has a timeout of its own,
\* a helper reads no longer than one timeout for each byte a request may have, and
\* one more: so long at most it keeps one of the instances the socket unit allows.
ReadIsBounded ==
  \A c \in Conn : conn[c].since <= (MaxRequest + 1) * ReadTimeout

\* The client gives up before the helper does: while the client still waits, its
\* command has not been killed with its fate unknown, unless the host stops.
\* A refusal the display has read is therefore final.
ClientGivesUpFirst ==
  pc # "idle" => conn[at].cmd # "killed" \/ stopping

\* what a connection asks for, to whoever sees all that was written to it
Asked(k) ==
  IF IsAuthorizedPeer(k) /\ k.wants \in PowerAction /\ k.sent = Size[k.wants]
  THEN k.wants ELSE None

ToldAs(r) ==
  CASE r \in Refusal                 -> "refused"
    [] r \in {"timeout", "io_error"} -> "unknown"
    [] OTHER                         -> r

Promise == INSTANCE PowerPromise WITH
  Request <- Conn,
  Action <- PowerAction,
  asked <- [c \in Conn |-> Asked(conn[c])],
  done <- [c \in Conn |-> conn[c].effect],
  told <- [c \in Conn |-> ToldAs(conn[c].told)]

\* Client, helpers and systemctl together do what PowerPromise says: only what an
\* entitled peer asked for in full is carried out, once; "accepted" is true;
\* and what was refused does not happen later, on a host that is not going down.
KeepsPowerPromise == Promise!Spec

\* Nobody waits for ever: every request of the display comes to an end, whatever becomes
\* of its connection, and every helper, whatever its peer and its command do.
NobodyHangs ==
  /\ pc # "idle" ~> pc = "idle"
  /\ \A c \in Conn : IsTimed(conn[c]) ~> ~IsTimed(conn[c])
==============================================================================
