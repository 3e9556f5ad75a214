----------------------------- MODULE PowerProofs -----------------------------
(***************************************************************************)
(* What PowerProtocol keeps for any number of connections, any length of   *)
(* the payloads and any timeouts with which the client gives up first.     *)
(*                                                                         *)
(* The invariant speaks of one connection at a time: Sound holds of each,  *)
(* Held of the one the client uses.  Nearly every step changes one         *)
(* connection, so lemma BecomesKeeps reduces the step to these two.        *)
(***************************************************************************)
EXTENDS PowerProtocol, TLAPS

\* what is read in time, run for a reason and told as it is
Sound(k) ==
  /\ k.peer = None => k = Unused
  /\ IF IsTimed(k) THEN k.timer <= Limit(k) /\ IsAuthorizedPeer(k) ELSE k.timer = 0
  /\ IF k.helper = "reading" THEN k.since <= k.got * ReadTimeout + k.timer
                             ELSE k.since = 0
  /\ k.cmd = "running" <=> k.helper = "running"
  /\ k.cmd # "none" =>
       k.helper \in {"running", "ended"} /\ k.order # None /\ k.order = Asked(k)
  /\ k.effect # None => k.cmd # "none" /\ k.effect = k.order
  /\ k.reply # "nothing" => k.helper = "ended"
  /\ k.reply = "accepted" \/ k.told = "accepted" => k.effect # None
  /\ k.told \in Refusal =>
       /\ k.helper \notin Alive
       /\ stopping \/ (k.cmd \in {"none", "over"} /\ k.effect = None)

\* the connection of a busy client
Held(k) ==
  /\ k.peer = "display" /\ ~k.gone /\ k.told = "nothing" /\ k.wants \in PowerAction
  /\ pc = "connecting" => k.helper = "none"
  /\ pc \in {"connecting", "connected"} => k.sent = 0
  /\ pc = "answered" => k.reply = "accepted"
  /\ k.helper = "running" => k.timer <= age
  /\ \/ stopping
     \/ k.cmd # "killed" /\ (k.cmd = "over" /\ k.reply # "accepted" => k.effect = None)

IInv ==
  /\ PowerTypeOK
  /\ \A c \in Conn : Sound(conn[c])
  /\ pc # "idle" => Held(conn[at])

LEMMA Distinct ==
  /\ None \notin PowerAction /\ None \notin Peer /\ None \notin Conn
  /\ Junk \notin PowerAction
  /\ \A w \in Payload : Size[w] \in Nat /\ Size[w] > 0
  /\ MaxRequest \in Nat /\ ClientTimeout \in Nat
  /\ ReadTimeout \in Nat /\ CommandTimeout \in Nat
  /\ ReadTimeout > 0 /\ ClientTimeout < CommandTimeout
  BY PowerAssumption DEF PowerAssumption, Payload

LEMMA UnusedIsSound ==
  Unused \in Connection /\ Sound(Unused) /\ Sound(Unused)' /\ Asked(Unused) = None
  BY Distinct DEF Unused, Connection, Sound, Payload, IsTimed, Asked, Refusal, Result, Alive

LEMMA BecomesKeeps ==
  ASSUME IInv, NEW c \in Conn, NEW k \in Connection, Becomes(c, k), Sound(k),
         pc # "idle" /\ at = c => Held(k)
  PROVE  IInv'
  <1>1. PowerTypeOK'
    BY DEF IInv, PowerTypeOK, Becomes, client
  <1>2. \A d \in Conn : Sound(conn[d])'
    <2> SUFFICES ASSUME NEW d \in Conn PROVE Sound(conn[d])'
      OBVIOUS
    <2>1. conn'[d] = IF d = c THEN k ELSE conn[d]
      BY DEF Becomes, IInv, PowerTypeOK
    <2>2. stopping' = stopping
      BY DEF Becomes
    <2> QED BY <2>1, <2>2 DEF IInv, Sound
  <1>3. ASSUME pc' # "idle" PROVE Held(conn[at])'
    <2>1. /\ at \in Conn /\ conn'[at] = IF at = c THEN k ELSE conn[at]
          /\ <<pc, at, age, stopping>>' = <<pc, at, age, stopping>>
      BY <1>3 DEF Becomes, IInv, PowerTypeOK, client
    <2> QED BY <1>3, <2>1 DEF IInv, Held
  <1> QED BY <1>1, <1>2, <1>3 DEF IInv

\* the invariant at one connection
LEMMA At ==
  ASSUME IInv, NEW c \in Conn
  PROVE  /\ conn[c] \in Connection /\ Sound(conn[c])
         /\ pc # "idle" /\ at = c => Held(conn[c])
  BY DEF IInv, PowerTypeOK

LEMMA BytesTakeTime ==
  ASSUME NEW g \in Nat, NEW n \in Nat, n > 0, NEW t \in Nat
  PROVE  g * t + t <= (g + n) * t
  <1>1. (g + n) * t = g * t + n * t
    OBVIOUS
  <1>2. t <= n * t
    OBVIOUS
  <1>3. g * t \in Nat /\ n * t \in Nat
    OBVIOUS
  <1> QED BY <1>1, <1>2, <1>3

------------------------------------------------------------------------------
(* The helper *)

LEMMA EndedIsTyped ==
  ASSUME NEW k \in Connection, NEW line \in {"nothing", "accepted", "rejected"}
  PROVE  Ended(k, line) \in Connection
  <1> DEFINE answer == IF k.gone THEN "nothing" ELSE line
  <1>1. answer \in {"nothing", "accepted", "rejected"}
    OBVIOUS
  <1>2. 0 \in 0..MaxRequest /\ 0 \in Nat
    BY Distinct
  <1> HIDE DEF answer
  <1>3. [k EXCEPT !.helper = "ended", !.got = 0, !.timer = 0, !.since = 0,
                  !.reply = answer] \in Connection
    BY <1>1, <1>2 DEF Connection
  <1> QED BY <1>3 DEF Ended, answer

LEMMA RejectsKeeps ==
  ASSUME IInv, NEW c \in Conn, Rejects(c),
         conn[c].helper \in {"starting", "reading"}
  PROVE  IInv'
  <1> DEFINE k == Ended(conn[c], "rejected")
  <1>1. k \in Connection
    BY At, EndedIsTyped
  <1>2. Sound(k) /\ (pc # "idle" /\ at = c => Held(k))
    BY At, Distinct DEF Ended, Connection, Sound, Held, IsTimed, Asked, IsAuthorizedPeer, Alive, Unused
  <1> QED BY <1>1, <1>2, BecomesKeeps DEF Rejects

LEMMA StartKeeps ==
  ASSUME IInv, NEW c \in Conn, Start(c)
  PROVE  IInv'
  <1> DEFINE k == [conn[c] EXCEPT !.helper = "reading"]
  <1>1. CASE Rejects(c)
    BY <1>1, RejectsKeeps DEF Start
  <1>2. CASE IsAuthorizedPeer(conn[c]) /\ Becomes(c, k)
    <2>1. k \in Connection
      BY At DEF Connection, Alive
    <2>2. Sound(k) /\ (pc # "idle" /\ at = c => Held(k))
      BY <1>2, At, Distinct DEF Start, Connection, Sound, Held, IsTimed, Asked, IsAuthorizedPeer, Limit, Alive, Unused
    <2> QED BY <1>2, <2>1, <2>2, BecomesKeeps
  <1> QED BY <1>1, <1>2 DEF Start

LEMMA RecvKeeps ==
  ASSUME IInv, NEW c \in Conn, NEW n \in 1..(MaxRequest + 1), Recv(c, n)
  PROVE  IInv'
  <1> DEFINE k == [conn[c] EXCEPT !.got = @ + n, !.timer = 0]
  <1>1. CASE ~WithinLimit(conn[c].got + n)
    BY <1>1, RejectsKeeps DEF Recv
  <1>2. CASE WithinLimit(conn[c].got + n)
    <2>1. k \in Connection
      <3> DEFINE got == conn[c].got + n
      <3>1. got \in 0..MaxRequest /\ 0 \in Nat
        BY <1>2, At, Distinct DEF Connection, WithinLimit
      <3> HIDE DEF got
      <3>2. [conn[c] EXCEPT !.got = got, !.timer = 0] \in Connection
        BY ZenonT(60), <3>1, At DEF Connection
      <3> QED BY <3>2 DEF got, Connection
    <2>2. k.since <= k.got * ReadTimeout
      <3>1. /\ conn[c].since <= conn[c].got * ReadTimeout + conn[c].timer
            /\ conn[c].timer <= ReadTimeout
        BY At DEF Recv, Sound, IsTimed, Limit
      <3>2. /\ conn[c].got \in Nat /\ conn[c].since \in Nat /\ conn[c].timer \in Nat
            /\ k.got = conn[c].got + n /\ k.since = conn[c].since
        BY At, Distinct DEF Connection
      <3>3. conn[c].got * ReadTimeout + ReadTimeout <= k.got * ReadTimeout
        <4>1. n \in Nat /\ n > 0
          BY Distinct
        <4>2. conn[c].got * ReadTimeout + ReadTimeout <= (conn[c].got + n) * ReadTimeout
          BY <3>2, <4>1, BytesTakeTime, Distinct
        <4> QED BY <3>2, <4>2
      <3>4. conn[c].got * ReadTimeout \in Nat /\ k.got * ReadTimeout \in Nat
        BY <3>2, Distinct
      <3> QED BY <3>1, <3>2, <3>3, <3>4, Distinct
    <2>3. /\ k.timer = 0 /\ k.helper = "reading"
          /\ k = [conn[c] EXCEPT !.got = k.got, !.timer = 0]
          /\ k.got * ReadTimeout \in Nat
      BY At, <2>1, Distinct DEF Recv, Connection
    <2>4. Sound(k) /\ (pc # "idle" /\ at = c => Held(k))
      <3>1. /\ k.peer = conn[c].peer /\ k.wants = conn[c].wants /\ k.sent = conn[c].sent
            /\ k.told = conn[c].told /\ k.gone = conn[c].gone /\ k.cmd = conn[c].cmd
            /\ k.order = conn[c].order /\ k.effect = conn[c].effect
            /\ k.helper = conn[c].helper /\ k.reply = conn[c].reply
        BY At DEF Connection
      <3>2. Asked(k) = Asked(conn[c])
        BY <3>1 DEF Asked, IsAuthorizedPeer
      <3>3. Sound(conn[c]) /\ (pc # "idle" /\ at = c => Held(conn[c]))
        BY At
      <3>4. conn[c].peer # None
        BY <2>3, <3>1, <3>3 DEF Sound, Unused
      <3>5. k.since <= k.got * ReadTimeout + k.timer /\ k.timer <= Limit(k)
        BY <2>2, <2>3, Distinct DEF Limit
      <3> HIDE DEF k
      <3>6. Sound(k)
        BY <2>3, <3>1, <3>2, <3>3, <3>4, <3>5 DEF Sound, IsTimed, IsAuthorizedPeer, Alive
      <3> QED BY <2>3, <3>1, <3>3, <3>6 DEF Held
    <2> QED BY <1>2, <2>1, <2>4, BecomesKeeps DEF Recv
  <1> QED BY <1>1, <1>2

LEMMA RecvEndKeeps ==
  ASSUME IInv, NEW c \in Conn, RecvEnd(c)
  PROVE  IInv'
  <1> DEFINE k == [conn[c] EXCEPT !.helper = "running", !.timer = 0, !.since = 0,
                                  !.order = Received(conn[c]), !.cmd = "running"]
  <1>1. CASE Received(conn[c]) \notin PowerAction
    BY <1>1, RejectsKeeps DEF RecvEnd
  <1>2. CASE Received(conn[c]) \in PowerAction
    <2>1. k \in Connection
      <3> DEFINE order == Received(conn[c])
      <3> HIDE DEF order
      <3>1. order \in PowerAction \cup {None} /\ 0 \in Nat
        BY <1>2 DEF order
      <3>2. [conn[c] EXCEPT !.helper = "running", !.timer = 0, !.since = 0,
                            !.order = order, !.cmd = "running"] \in Connection
        BY ZenonT(60), <3>1, At DEF Connection, Alive
      <3> QED BY <3>2 DEF order
    <2>2. Received(conn[c]) = Asked(conn[c]) /\ Asked(k) = Asked(conn[c])
      <3>1. conn[c].helper = "reading" /\ conn[c].got = conn[c].sent
        BY DEF RecvEnd
      <3>2. IsAuthorizedPeer(conn[c])
        BY <3>1, At DEF Sound, IsTimed
      <3>3. Received(conn[c]) = Asked(conn[c])
        BY <1>2, <3>1, <3>2, Distinct DEF Received, Asked
      <3>4. k.peer = conn[c].peer /\ k.wants = conn[c].wants /\ k.sent = conn[c].sent
        BY At DEF Connection
      <3>5. Asked(k) = Asked(conn[c])
        BY <3>4 DEF Asked, IsAuthorizedPeer
      <3> QED BY <3>3, <3>5
    <2>3. k.timer <= Limit(k) /\ (pc # "idle" => 0 <= age)
      BY Distinct DEF Limit, IInv, PowerTypeOK
    <2>4. Sound(k) /\ (pc # "idle" /\ at = c => Held(k))
      <3> DEFINE q == conn[c]
      <3>1. /\ q \in Connection /\ Sound(q) /\ (pc # "idle" /\ at = c => Held(q))
            /\ q.helper = "reading"
        BY At DEF RecvEnd
      <3>2. /\ k.peer = q.peer /\ k.wants = q.wants /\ k.sent = q.sent /\ k.gone = q.gone
            /\ k.told = q.told /\ k.reply = q.reply /\ k.effect = q.effect
            /\ k.helper = "running" /\ k.timer = 0 /\ k.since = 0 /\ k.cmd = "running"
            /\ k.order = Received(q)
        BY <3>1 DEF Connection
      <3>3. /\ q.peer # None /\ IsAuthorizedPeer(q) /\ q.cmd = "none" /\ q.effect = None
            /\ q.reply = "nothing" /\ q.told \notin Refusal /\ q.told # "accepted"
        BY <3>1, Distinct DEF Sound, IsTimed, Alive, IsAuthorizedPeer, Peer, Connection
      <3> HIDE DEF q, k
      <3>4. k.order # None
        BY <1>2, <3>2, Distinct DEF q
      <3>5. Sound(k)
        BY <2>2, <2>3, <3>2, <3>3, <3>4 DEF Sound, IsTimed, IsAuthorizedPeer, q
      <3>6. pc # "idle" /\ at = c => Held(k)
        BY <2>3, <3>1, <3>2 DEF Held
      <3> QED BY <3>5, <3>6
    <2> QED BY <1>2, <2>1, <2>4, BecomesKeeps DEF RecvEnd
  <1> QED BY <1>1, <1>2 DEF RecvEnd

LEMMA CommandEndsKeeps ==
  ASSUME IInv, NEW c \in Conn, CommandEnds(c)
  PROVE  IInv'
  <1> DEFINE line == IF conn[c].effect # None THEN "accepted" ELSE "rejected"
             k == Ended([conn[c] EXCEPT !.cmd = "over"], line)
  <1>1. k \in Connection
    <2>1. [conn[c] EXCEPT !.cmd = "over"] \in Connection
      BY At DEF Connection
    <2> QED BY <2>1, EndedIsTyped
  <1>2. Sound(k) /\ (pc # "idle" /\ at = c => Held(k))
    BY At, Distinct DEF CommandEnds, Ended, Connection, Sound, Held, IsTimed, Asked, IsAuthorizedPeer, Alive, Unused
  <1> QED BY <1>1, <1>2, BecomesKeeps DEF CommandEnds

\* The client is gone by then.
LEMMA CommandTimesOutKeeps ==
  ASSUME IInv, NEW c \in Conn, CommandTimesOut(c)
  PROVE  IInv'
  <1> DEFINE k == Ended([conn[c] EXCEPT !.cmd = "killed"], "rejected")
  <1>1. k \in Connection
    <2>1. [conn[c] EXCEPT !.cmd = "killed"] \in Connection
      BY At DEF Connection
    <2> QED BY <2>1, EndedIsTyped
  <1>2. ~(pc # "idle" /\ at = c)
    <2> SUFFICES ASSUME pc # "idle", at = c PROVE FALSE
      OBVIOUS
    <2>1. conn[c].timer <= age
      BY At DEF CommandTimesOut, Held
    <2>2. conn[c].timer = CommandTimeout
      BY DEF CommandTimesOut, Overdue, Limit
    <2>3. age \in 0..ClientTimeout
      BY DEF IInv, PowerTypeOK
    <2> QED BY <2>1, <2>2, <2>3, Distinct
  <1>3. Sound(k)
    BY At, Distinct DEF CommandTimesOut, Ended, Connection, Sound, IsTimed, Asked, IsAuthorizedPeer, Alive, Unused
  <1> QED BY <1>1, <1>2, <1>3, BecomesKeeps DEF CommandTimesOut

LEMMA HelperStepKeeps ==
  ASSUME IInv, NEW c \in Conn, HelperStep(c)
  PROVE  IInv'
  <1>1. CASE ReadTimesOut(c) \/ HelperFails(c)
    BY <1>1, RejectsKeeps DEF ReadTimesOut, HelperFails
  <1> QED BY <1>1, StartKeeps, RecvKeeps, RecvEndKeeps, CommandEndsKeeps, CommandTimesOutKeeps
          DEF HelperStep, HelperGoesOn

------------------------------------------------------------------------------
(* The client *)

Busy == {"connecting", "connected", "written", "waiting", "answered"}

LEMMA ClientKeeps ==
  ASSUME IInv, NEW c \in Conn, NEW k \in Connection, Sound(k),
         conn' = [conn EXCEPT ![c] = k], stopping' = stopping,
         age' \in 0..ClientTimeout,
         \/ pc' = "idle" /\ at' = None
         \/ pc' \in Busy /\ at' = c /\ Held(conn[c])'
  PROVE  IInv'
  <1>1. PowerTypeOK'
    BY DEF IInv, PowerTypeOK, Busy
  <1>2. \A d \in Conn : Sound(conn[d])'
    <2> SUFFICES ASSUME NEW d \in Conn PROVE Sound(conn[d])'
      OBVIOUS
    <2>1. conn'[d] = IF d = c THEN k ELSE conn[d]
      BY DEF IInv, PowerTypeOK
    <2> QED BY <2>1 DEF IInv, Sound
  <1> QED BY <1>1, <1>2 DEF IInv

LEMMA LeavesKeeps ==
  ASSUME IInv, pc # "idle", NEW k \in Connection, Leaves(k), Sound(Left(k))
  PROVE  IInv'
  <1>1. Left(k) \in Connection
    BY DEF Left, Connection
  <1>2. at \in Conn /\ 0 \in 0..ClientTimeout
    BY Distinct DEF IInv, PowerTypeOK
  <1> QED BY <1>1, <1>2, ClientKeeps DEF Leaves

LEMMA FinishKeeps ==
  ASSUME IInv, pc # "idle", NEW r \in Result, Finish(r),
         r = "accepted" => conn[at].effect # None,
         r \in Refusal =>
           /\ conn[at].helper \notin Alive
           /\ stopping \/ (conn[at].cmd \in {"none", "over"} /\ conn[at].effect = None)
  PROVE  IInv'
  <1> DEFINE k == [conn[at] EXCEPT !.told = r]
  <1>1. at \in Conn
    BY DEF IInv, PowerTypeOK
  <1>2. k \in Connection
    BY <1>1, At DEF Connection
  <1>3. Sound(Left(k))
    BY <1>1, <1>2, At, Distinct DEF Left, Sound, Held, Connection, IsTimed, Asked, IsAuthorizedPeer,
       Limit, Alive, Unused
  <1> QED BY <1>2, <1>3, LeavesKeeps DEF Finish

LEMMA AskKeeps ==
  ASSUME IInv, NEW c \in Conn, NEW a \in PowerAction, Ask(c, a)
  PROVE  IInv'
  <1> DEFINE k == [conn[c] EXCEPT !.peer = "display", !.wants = a]
  <1>1. conn[c] = Unused
    BY At DEF Ask, Sound
  <1>2. k \in Connection
    BY ZenonT(60), At DEF Connection, Peer, Payload
  <1>3. Sound(k) /\ conn'[c] = k
    BY <1>1, <1>2, Distinct DEF Ask, Unused, Sound, Connection, IsTimed, Alive, IInv, PowerTypeOK,
       Refusal
  <1>4. Held(conn[c])'
    <2>1. /\ conn[c].sent = 0 /\ ~conn[c].gone /\ conn[c].told = "nothing"
          /\ conn[c].helper = "none" /\ conn[c].cmd = "none"
      BY <1>1 DEF Unused
    <2>2. conn[c] \in Connection
      BY At
    <2>3. /\ k.peer = "display" /\ k.wants = a /\ k.sent = 0 /\ ~k.gone
          /\ k.told = "nothing" /\ k.helper = "none" /\ k.cmd = "none"
      BY <2>1, <2>2 DEF Connection
    <2>4. pc' = "connecting"
      BY DEF Ask
    <2> QED BY <1>3, <2>3, <2>4 DEF Held
  <1>5. conn' = [conn EXCEPT ![c] = k]
    BY DEF Ask
  <1>6. stopping' = stopping /\ age' = 0 /\ pc' = "connecting" /\ at' = c
    BY DEF Ask
  <1>7. age' \in 0..ClientTimeout /\ pc' \in Busy
    BY <1>6, Distinct DEF Busy
  <1> HIDE DEF k
  <1> QED BY <1>2, <1>3, <1>4, <1>5, <1>6, <1>7, ClientKeeps

LEMMA GoesKeeps ==
  ASSUME IInv, pc # "idle", NEW to \in Busy, Goes(to), NEW k \in Connection, Sound(k),
         conn' = [conn EXCEPT ![at] = k], Held(conn[at])'
  PROVE  IInv'
  <1>1. at \in Conn /\ age \in 0..ClientTimeout
    BY DEF IInv, PowerTypeOK
  <1> QED BY <1>1, ClientKeeps DEF Goes

LEMMA ConnectedKeeps ==
  ASSUME IInv, Connected
  PROVE  IInv'
  <1>1. PICK foreign \in 0..Slots : conn' = [conn EXCEPT ![at].helper = Served(foreign)]
    BY DEF Connected
  <1> DEFINE h == Served(foreign)
             k == [conn[at] EXCEPT !.helper = h]
  <1>2. h \in {"starting", "dropped"}
    BY DEF Served
  <1> HIDE DEF h
  <1>3. at \in Conn /\ conn' = [conn EXCEPT ![at] = k] /\ conn'[at] = k /\ pc = "connecting"
    BY <1>1 DEF h, Connected, IInv, PowerTypeOK
  <1>4. k \in Connection
    BY <1>2, <1>3, At DEF Connection, Alive
  <1>5. Sound(k)
    BY <1>2, <1>3, <1>4, At, Distinct DEF Sound, Held, Connection, IsTimed, Asked, IsAuthorizedPeer,
       Alive, Unused, Refusal
  <1>6. Held(conn[at])'
    BY <1>2, <1>3, <1>4, At DEF Connected, Goes, Held, Connection
  <1> QED BY <1>3, <1>4, <1>5, <1>6, GoesKeeps DEF Connected, Busy

LEMMA WriteKeeps ==
  ASSUME IInv, Write
  PROVE  IInv'
  <1> DEFINE n == Size[conn[at].wants]
             k == [conn[at] EXCEPT !.sent = n]
  <1>1. at \in Conn /\ conn' = [conn EXCEPT ![at] = k] /\ conn'[at] = k /\ pc = "connected"
    BY DEF Write, IInv, PowerTypeOK
  <1>2. n \in Nat /\ n > 0 /\ conn[at].wants \in Payload
    BY <1>1, At, Distinct DEF Connection
  <1>3. k \in Connection
    <2> HIDE DEF n
    <2> QED BY <1>1, <1>2, At DEF Connection
  <1>4. conn[at].cmd = "none"
    BY <1>1, <1>2, At, Distinct DEF Sound, Held, Asked, Connection
  <1>5. Sound(k)
    <2>1. /\ k.peer = conn[at].peer /\ k.told = conn[at].told /\ k.helper = conn[at].helper
          /\ k.got = conn[at].got /\ k.timer = conn[at].timer /\ k.since = conn[at].since
          /\ k.reply = conn[at].reply /\ k.order = conn[at].order
          /\ k.cmd = conn[at].cmd /\ k.effect = conn[at].effect
      BY <1>1, At DEF Connection
    <2>2. conn[at].peer = "display" /\ "display" # None
      BY <1>1, At, Distinct DEF Held, Peer
    <2>3. Sound(conn[at])
      BY <1>1, At
    <2> HIDE DEF k
    <2> QED BY <1>4, <2>1, <2>2, <2>3 DEF Sound, IsTimed, IsAuthorizedPeer, Limit
  <1>6. Held(conn[at])'
    BY <1>1, <1>3, At DEF Write, Goes, Held, Connection
  <1> QED BY <1>1, <1>3, <1>5, <1>6, GoesKeeps DEF Write, Busy

LEMMA WriteEofKeeps ==
  ASSUME IInv, WriteEof
  PROVE  IInv'
  <1> DEFINE k == [conn[at] EXCEPT !.eof = TRUE]
  <1>1. at \in Conn /\ conn' = [conn EXCEPT ![at] = k] /\ conn'[at] = k /\ pc = "written"
    BY DEF WriteEof, IInv, PowerTypeOK
  <1>2. k \in Connection
    <2>1. conn[at] \in Connection
      BY <1>1, At
    <2> QED BY <2>1 DEF Connection
  <1>3. Sound(k)
    BY <1>1, <1>2, At, Distinct DEF Sound, Held, Connection, IsTimed, IsAuthorizedPeer, Asked,
       Limit, Alive, Unused, Refusal
  <1>4. Held(conn[at])'
    BY <1>1, <1>2, At DEF WriteEof, Goes, Held, Connection
  <1> QED BY <1>1, <1>2, <1>3, <1>4, GoesKeeps DEF WriteEof, Busy

\* An answer other than the expected one, or none, is the end of the matter.
LEMMA RefusalIsFinal ==
  ASSUME IInv, pc # "idle", conn[at].reply # "nothing" \/ Closed(conn[at]),
         conn[at].reply # "accepted"
  PROVE  /\ conn[at].helper \notin Alive
         /\ stopping \/ (conn[at].cmd \in {"none", "over"} /\ conn[at].effect = None)
  <1>1. at \in Conn
    BY DEF IInv, PowerTypeOK
  <1>2. conn[at].helper \notin Alive
    BY <1>1, At DEF Sound, Closed, Alive
  <1>3. conn[at].cmd # "running" /\ conn[at] \in Connection
    BY <1>1, <1>2, At DEF Sound, Alive
  <1>4. \/ stopping
        \/ conn[at].cmd # "killed" /\ (conn[at].cmd = "over" => conn[at].effect = None)
    BY <1>1, At DEF Held
  <1>5. conn[at].cmd = "none" => conn[at].effect = None
    BY <1>1, At DEF Sound
  <1>6. conn[at].cmd \in {"none", "running", "killed", "over"}
    BY <1>3 DEF Connection
  <1> QED BY <1>2, <1>3, <1>4, <1>5, <1>6

LEMMA ReadLineKeeps ==
  ASSUME IInv, ReadLine
  PROVE  IInv'
  <1>1. at \in Conn /\ pc = "waiting" /\ "protocol_error" \in Refusal \cap Result
    BY DEF ReadLine, IInv, PowerTypeOK, Refusal, Result
  <1>2. CASE conn[at].reply = "accepted" /\ Goes("answered") /\ UNCHANGED conn
    <2>1. conn' = [conn EXCEPT ![at] = conn[at]]
      BY <1>2 DEF IInv, PowerTypeOK
    <2>2. Held(conn[at])'
      BY <1>1, <1>2, At DEF Goes, Held
    <2> QED BY <1>1, <1>2, <2>1, <2>2, At, GoesKeeps DEF Busy
  <1>3. CASE conn[at].reply # "accepted" /\ Finish("protocol_error")
    BY <1>1, <1>3, RefusalIsFinal, FinishKeeps DEF ReadLine
  <1> QED BY <1>2, <1>3 DEF ReadLine, Misread

LEMMA ClientStepKeeps ==
  ASSUME IInv, ClientStep
  PROVE  IInv'
  <1>1. CASE ReadEnd
    <2>1. at \in Conn /\ conn[at].reply = "accepted"
      BY <1>1, At DEF ReadEnd, IInv, PowerTypeOK, Held
    <2>2. conn[at].effect # None
      BY <2>1, At DEF Sound
    <2> QED BY <1>1, <2>2, FinishKeeps DEF ReadEnd, Result, Refusal
  <1>2. CASE IoFails \/ ClientTimesOut
    BY <1>2, FinishKeeps DEF IoFails, ClientTimesOut, Result, Refusal
  <1>3. CASE ConnectFails
    <2>1. PICK r \in {"helper_unavailable", "permission_denied", "io_error"} : Finish(r)
      BY <1>3 DEF ConnectFails
    <2>2. at \in Conn /\ conn[at].helper = "none" /\ conn[at] \in Connection
      BY <1>3, At DEF ConnectFails, IInv, PowerTypeOK, Held
    <2>3. conn[at].cmd = "none" /\ conn[at].effect = None
      BY <2>2, At DEF Sound
    <2> QED BY <1>3, <2>1, <2>2, <2>3, FinishKeeps DEF ConnectFails, Result, Refusal, Alive
  <1> QED BY <1>1, <1>2, <1>3, ConnectedKeeps, WriteKeeps, WriteEofKeeps, ReadLineKeeps
          DEF ClientStep, ClientGoesOn

LEMMA DisplayDiesKeeps ==
  ASSUME IInv, DisplayDies
  PROVE  IInv'
  <1>1. at \in Conn /\ conn[at] \in Connection /\ Held(conn[at]) /\ pc # "idle"
    BY At DEF DisplayDies, IInv, PowerTypeOK
  <1>2. Sound(Left(conn[at]))
    BY <1>1, At, Distinct DEF Left, Sound, Held, Connection, IsTimed, Asked, IsAuthorizedPeer,
       Limit, Alive, Unused
  <1> QED BY <1>1, <1>2, LeavesKeeps DEF DisplayDies

------------------------------------------------------------------------------
(* Other peers, the host and the clock *)

LEMMA OtherKeeps ==
  ASSUME IInv, NEW c \in Conn, OtherWrites(c) \/ OtherCloses(c)
  PROVE  IInv'
  <1>1. /\ conn[c] \in Connection /\ conn[c].peer \in {"root", "stranger"}
        /\ Sound(conn[c]) /\ ~(pc # "idle" /\ at = c)
    BY At DEF OtherWrites, OtherCloses, IsOther, Held
  <1>2. CASE OtherWrites(c)
    <2> DEFINE n == conn[c].sent + 1
               k == [conn[c] EXCEPT !.sent = n]
    <2>1. n \in Nat
      BY <1>1 DEF Connection
    <2>2. conn[c].cmd = "none"
      BY <1>1, <1>2, At, Distinct DEF OtherWrites, Sound, Asked, Connection
    <2> HIDE DEF n
    <2>3. k \in Connection
      BY <1>1, <2>1 DEF Connection
    <2>4. Sound(k)
      BY <1>1, <2>2, <2>3, Distinct DEF Sound, Connection, IsTimed, IsAuthorizedPeer,
         Limit, Alive, Peer, Refusal
    <2> QED BY <1>1, <1>2, <2>3, <2>4, BecomesKeeps DEF OtherWrites, n
  <1>3. CASE OtherCloses(c)
    <2>1. PICK all \in BOOLEAN : Becomes(c, [conn[c] EXCEPT !.eof = TRUE, !.gone = all])
      BY <1>3 DEF OtherCloses
    <2> DEFINE k == [conn[c] EXCEPT !.eof = TRUE, !.gone = all]
    <2>2. k \in Connection
      BY <1>1 DEF Connection
    <2>3. Sound(k)
      BY <1>1, <2>2, Distinct DEF Sound, Connection, IsTimed, Asked, IsAuthorizedPeer,
         Limit, Alive, Peer, Refusal
    <2> QED BY <1>1, <2>1, <2>2, <2>3, BecomesKeeps
  <1> QED BY <1>2, <1>3

LEMMA OtherConnectsKeeps ==
  ASSUME IInv, NEW c \in Conn, NEW p \in Peer, NEW w \in OtherPayload, OtherConnects(c, p, w)
  PROVE  IInv'
  <1>1. PICK foreign \in 0..Slots :
          Becomes(c, [Unused EXCEPT !.peer = p, !.wants = w, !.helper = Served(foreign)])
    BY DEF OtherConnects
  <1> DEFINE h == Served(foreign)
             k == [Unused EXCEPT !.peer = p, !.wants = w, !.helper = h]
  <1>2. h \in {"starting", "dropped"} /\ w \in Payload
    BY PowerAssumption DEF Served, PowerAssumption
  <1> HIDE DEF h
  <1>3. k \in Connection
    BY ZenonT(60), <1>2, UnusedIsSound DEF Connection, Alive
  <1>4. Sound(k)
    <2>1. /\ Unused.sent = 0 /\ Unused.told = "nothing" /\ Unused.cmd = "none"
          /\ Unused.effect = None /\ Unused.reply = "nothing" /\ Unused.timer = 0
          /\ Unused.since = 0
      BY DEF Unused
    <2>2. /\ k.peer = p /\ k.helper = h /\ k.told = "nothing" /\ k.cmd = "none"
          /\ k.effect = None /\ k.reply = "nothing" /\ k.timer = 0 /\ k.since = 0
      BY <2>1, UnusedIsSound DEF Connection
    <2> QED BY <1>2, <2>2, Distinct DEF Sound, IsTimed, Refusal
  <1>5. ~(pc # "idle" /\ at = c)
    <2>1. conn[c].peer = None /\ "display" # None
      BY Distinct DEF OtherConnects, Peer
    <2> QED BY <2>1, At DEF Held
  <1> QED BY <1>1, <1>3, <1>4, <1>5, BecomesKeeps DEF h

LEMMA HostKeeps ==
  ASSUME IInv, NEW c \in Conn, TakesEffect(c) \/ IsOver(c) \/ HelperIsKilled(c)
  PROVE  IInv'
  <1>1. conn[c] \in Connection
    BY At
  <1>2. CASE TakesEffect(c)
    <2> DEFINE a == conn[c].order
               k == [conn[c] EXCEPT !.effect = a]
    <2>1. a \in PowerAction
      BY <1>1, <1>2, At DEF TakesEffect, Sound, Connection
    <2>2. k \in Connection
      <3> HIDE DEF a
      <3> QED BY <1>1, <2>1 DEF Connection
    <2>3. Sound(k) /\ (pc # "idle" /\ at = c => Held(k))
      <3> DEFINE q == conn[c]
      <3>1. /\ Sound(q) /\ (pc # "idle" /\ at = c => Held(q))
            /\ q.cmd \in {"running", "killed"} /\ q.effect = None
        BY <1>2, At DEF TakesEffect
      <3>2. /\ k.peer = q.peer /\ k.wants = q.wants /\ k.sent = q.sent /\ k.gone = q.gone
            /\ k.told = q.told /\ k.reply = q.reply /\ k.helper = q.helper
            /\ k.timer = q.timer /\ k.since = q.since /\ k.cmd = q.cmd
            /\ k.got = q.got /\ k.order = q.order /\ k.effect = a
        BY <1>1 DEF Connection
      <3>3. Asked(k) = Asked(q) /\ Limit(k) = Limit(q)
        BY <3>2 DEF Asked, IsAuthorizedPeer, Limit
      <3>4. q.peer # None
        BY <3>1 DEF Sound, Unused
      <3> HIDE DEF q, k
      <3>5. Sound(k)
        BY <3>1, <3>2, <3>3, <3>4 DEF Sound, IsTimed, IsAuthorizedPeer, q
      <3>6. pc # "idle" /\ at = c => Held(k)
        BY <3>1, <3>2 DEF Held
      <3> QED BY <3>5, <3>6
    <2> QED BY <1>2, <2>2, <2>3, BecomesKeeps DEF TakesEffect
  <1>3. CASE IsOver(c)
    <2> DEFINE k == [conn[c] EXCEPT !.cmd = "over"]
    <2>1. k \in Connection
      BY <1>1 DEF Connection
    <2>2. Sound(k) /\ (pc # "idle" /\ at = c => Held(k))
      BY <1>1, <1>3, <2>1, At, Distinct DEF IsOver, Sound, Held, Connection, IsTimed,
         Asked, IsAuthorizedPeer, Limit, Alive, Unused, Refusal
    <2> QED BY <1>3, <2>1, <2>2, BecomesKeeps DEF IsOver
  <1>4. CASE HelperIsKilled(c)
    <2> DEFINE cmd == IF conn[c].cmd = "running" THEN "killed" ELSE conn[c].cmd
               j == [conn[c] EXCEPT !.cmd = cmd]
               k == Ended(j, "nothing")
    <2>1. cmd \in {"none", "killed", "over"}
      BY <1>1 DEF Connection
    <2>2. k \in Connection
      <3> HIDE DEF cmd
      <3>1. j \in Connection
        BY <1>1, <2>1 DEF Connection
      <3> QED BY <3>1, EndedIsTyped
    <2>3. Sound(k) /\ (pc # "idle" /\ at = c => Held(k))
      <3>1. /\ k.peer = conn[c].peer /\ k.wants = conn[c].wants /\ k.sent = conn[c].sent
            /\ k.told = conn[c].told /\ k.gone = conn[c].gone /\ k.cmd = cmd
            /\ k.order = conn[c].order /\ k.effect = conn[c].effect
            /\ k.helper = "ended" /\ k.timer = 0 /\ k.since = 0 /\ k.reply = "nothing"
        BY <1>1 DEF Ended, Connection
      <3>2. Asked(k) = Asked(conn[c])
        BY <3>1 DEF Asked, IsAuthorizedPeer
      <3>3. /\ stopping /\ conn[c].helper \in Alive /\ Sound(conn[c])
            /\ cmd = "running" => FALSE
            /\ cmd # "none" <=> conn[c].cmd # "none"
            /\ pc # "idle" /\ at = c => Held(conn[c])
        BY <1>1, <1>4, <2>1, At DEF HelperIsKilled
      <3>4. conn[c].helper # "none" /\ conn[c].peer # None
        BY <3>3 DEF Sound, Unused, Alive
      <3> HIDE DEF k, cmd
      <3>5. Sound(k)
        BY <3>1, <3>2, <3>3, <3>4 DEF Sound, IsTimed, Alive
      <3>6. ASSUME pc # "idle", at = c PROVE Held(k)
        <4>1. pc # "connecting" /\ (pc = "answered" => conn[c].reply = "accepted")
          BY <3>3, <3>4, <3>6 DEF Held, Alive
        <4>2. conn[c].reply = "nothing"
          BY <3>3 DEF Sound, Alive
        <4> QED BY <3>1, <3>3, <3>6, <4>1, <4>2 DEF Held
      <3> QED BY <3>5, <3>6
    <2> QED BY <1>4, <2>2, <2>3, BecomesKeeps DEF HelperIsKilled
  <1> QED BY <1>2, <1>3, <1>4

LEMMA IsReleasedKeeps ==
  ASSUME IInv, NEW c \in Conn, IsReleased(c)
  PROVE  IInv'
  BY UnusedIsSound, BecomesKeeps, Distinct DEF IsReleased

LEMMA StopsKeeps ==
  ASSUME IInv, Stops
  PROVE  IInv'
  BY DEF Stops, client, IInv, PowerTypeOK, Sound, Held

LEMMA RestartsKeeps ==
  ASSUME IInv, Restarts
  PROVE  IInv'
  <1>1. \A c \in Conn : conn'[c] = Unused
    BY DEF Restarts
  <1>2. PowerTypeOK'
    <2>1. conn' \in [Conn -> Connection]
      BY UnusedIsSound DEF Restarts
    <2>2. 0 \in 0..ClientTimeout
      BY Distinct
    <2> QED BY <2>1, <2>2 DEF Restarts, PowerTypeOK
  <1>3. \A c \in Conn : Sound(conn[c])'
    BY <1>1, UnusedIsSound DEF Sound
  <1> QED BY <1>2, <1>3 DEF IInv, Restarts

LEMMA TickKeeps ==
  ASSUME IInv, Tick
  PROVE  IInv'
  <1>1. ASSUME NEW c \in Conn
        PROVE  /\ Aged(conn[c]) \in Connection /\ Sound(Aged(conn[c]))
               /\ conn'[c] = Aged(conn[c])
    <2> DEFINE t == IF IsTimed(conn[c]) THEN conn[c].timer + 1 ELSE conn[c].timer
               s == IF conn[c].helper = "reading" THEN conn[c].since + 1 ELSE conn[c].since
               k == [conn[c] EXCEPT !.timer = t, !.since = s]
    <2>1. k = Aged(conn[c]) /\ conn'[c] = k /\ conn[c] \in Connection /\ Sound(conn[c])
      BY At DEF Aged, Tick
    <2>2. t \in Nat /\ s \in Nat /\ conn[c].timer \in Nat /\ conn[c].since \in Nat
      BY <2>1 DEF Connection
    <2>3. IF IsTimed(conn[c]) THEN t <= Limit(conn[c]) /\ IsAuthorizedPeer(conn[c]) ELSE t = 0
      BY <2>1, <2>2, Distinct DEF Tick, Sound, Limit
    <2>4. IF conn[c].helper = "reading" THEN s <= conn[c].got * ReadTimeout + t ELSE s = 0
      <3>1. conn[c].got * ReadTimeout \in Nat
        BY <2>1, Distinct DEF Connection
      <3> QED BY <2>1, <2>2, <3>1 DEF Sound, IsTimed
    <2> HIDE DEF t, s
    <2>5. k \in Connection
      BY <2>1, <2>2 DEF Connection
    <2>6. k.peer = None => k = Unused
      <3>1. k.peer = conn[c].peer
        BY <2>1 DEF Connection
      <3>2. SUFFICES ASSUME conn[c] = Unused PROVE k = conn[c]
        BY <2>1, <3>1 DEF Sound
      <3>3. t = conn[c].timer /\ s = conn[c].since
        BY <3>2 DEF t, s, Unused, IsTimed
      <3> QED BY <2>1, <3>3 DEF Connection
    <2>7. Sound(k)
      BY <2>1, <2>3, <2>4, <2>5, <2>6, Distinct DEF Sound, Connection, IsTimed, Asked,
         IsAuthorizedPeer, Limit, Alive, Refusal
    <2> QED BY <2>1, <2>5, <2>7
  <1>2. /\ UNCHANGED <<pc, at, stopping>> /\ age' \in 0..ClientTimeout
        /\ pc # "idle" => age' = age + 1
    BY Distinct DEF Tick, IInv, PowerTypeOK
  <1>3. PowerTypeOK'
    BY <1>1, <1>2 DEF Tick, IInv, PowerTypeOK
  <1>4. \A c \in Conn : Sound(conn[c])'
    BY <1>1, <1>2 DEF Sound
  <1>5. ASSUME pc' # "idle" PROVE Held(conn[at])'
    <2>1. at \in Conn /\ conn[at] \in Connection /\ Held(conn[at])
      BY <1>2, <1>5 DEF IInv, PowerTypeOK
    <2>2. conn'[at] = Aged(conn[at])
      BY <1>1, <2>1
    <2>3. /\ age \in Nat /\ age' = age + 1 /\ conn[at].timer \in Nat
      BY <1>2, <1>5, <2>1, Distinct DEF IInv, PowerTypeOK, Connection
    <2> QED BY <1>2, <2>1, <2>2, <2>3 DEF Held, Aged, IsTimed, Connection
  <1> QED BY <1>3, <1>4, <1>5 DEF IInv

LEMMA NextKeeps ==
  ASSUME IInv, [Next]_vars
  PROVE  IInv'
  <1>1. CASE UNCHANGED vars
    BY <1>1 DEF vars, client, IInv, PowerTypeOK, Sound, Held
  <1> QED BY <1>1, AskKeeps, ClientStepKeeps, DisplayDiesKeeps, OtherConnectsKeeps, OtherKeeps,
             HelperStepKeeps, HostKeeps, StopsKeeps, RestartsKeeps, IsReleasedKeeps, TickKeeps
          DEF Next

LEMMA InitKeeps ==
  Init => IInv
  <1> SUFFICES ASSUME Init PROVE IInv
    OBVIOUS
  <1>1. conn \in [Conn -> Connection] /\ \A c \in Conn : conn[c] = Unused
    BY UnusedIsSound DEF Init
  <1>2. 0 \in 0..ClientTimeout
    BY Distinct
  <1> QED BY <1>1, <1>2, UnusedIsSound DEF Init, IInv, PowerTypeOK

\* The invariant holds always.
THEOREM Invariance ==
  Spec => []IInv
  BY InitKeeps, NextKeeps, PTL DEF Spec

\* Every variable keeps its type.
THEOREM PowerTypes ==
  Spec => []PowerTypeOK
  <1>1. IInv => PowerTypeOK
    BY DEF IInv
  <1> QED BY <1>1, Invariance, PTL

\* However slowly a peer writes, a helper reads no longer than the length of a
\* request, and one byte more, allows.
THEOREM ReadingEnds ==
  Spec => []ReadIsBounded
  <1>1. IInv => ReadIsBounded
    <2> SUFFICES ASSUME IInv, NEW c \in Conn
                 PROVE  conn[c].since <= (MaxRequest + 1) * ReadTimeout
      BY DEF ReadIsBounded
    <2> DEFINE k == conn[c]
    <2>1. k.since \in Nat /\ k.got \in 0..MaxRequest /\ k.timer \in Nat
      BY At DEF Connection
    <2>2. CASE k.helper # "reading"
      <3>1. k.since = 0
        BY <2>2, At DEF Sound
      <3>2. (MaxRequest + 1) * ReadTimeout \in Nat
        BY Distinct
      <3> QED BY <3>1, <3>2
    <2>3. CASE k.helper = "reading"
      <3>1. k.since <= k.got * ReadTimeout + k.timer /\ k.timer <= ReadTimeout
        BY <2>3, At DEF Sound, IsTimed, Limit
      <3>2. k.got * ReadTimeout + ReadTimeout <= (k.got + (MaxRequest + 1 - k.got)) * ReadTimeout
        <4>1. MaxRequest + 1 - k.got \in Nat /\ MaxRequest + 1 - k.got > 0 /\ k.got \in Nat
          BY <2>1, Distinct
        <4> HIDE DEF k
        <4> QED BY <4>1, BytesTakeTime, Distinct
      <3>3. k.got + (MaxRequest + 1 - k.got) = MaxRequest + 1
        BY <2>1, Distinct
      <3> DEFINE read == k.got * ReadTimeout
                 most == (MaxRequest + 1) * ReadTimeout
      <3>4. read \in Nat /\ most \in Nat
        BY <2>1, Distinct
      <3>5. k.since <= read + k.timer /\ read + ReadTimeout <= most
        BY <3>1, <3>2, <3>3
      <3> HIDE DEF k, read
      <3>6. k.since <= most
        <4> HIDE DEF most
        <4> QED BY <2>1, <3>1, <3>4, <3>5, Distinct
      <3> QED BY <3>6 DEF k
    <2> QED BY <2>2, <2>3
  <1> QED BY <1>1, Invariance, PTL

\* No command of a client that still waits is killed, unless the host stops.
THEOREM ClientIsFirst ==
  Spec => []ClientGivesUpFirst
  <1>1. IInv => ClientGivesUpFirst
    BY DEF IInv, Held, ClientGivesUpFirst
  <1> QED BY <1>1, Invariance, PTL

------------------------------------------------------------------------------
(* The refinement *)

\* what the promise sees of a connection
Seen(k) == <<Asked(k), k.effect, ToldAs(k.told)>>

LEMMA Patched ==
  ASSUME NEW S, NEW c \in S, NEW v, NEW f, NEW g,
         f = [d \in S |-> f[d]], g = [d \in S |-> g[d]],
         g[c] = v, \A d \in S \ {c} : g[d] = f[d]
  PROVE  g = [f EXCEPT ![c] = v]
  OBVIOUS

\* A step that changes one connection, or none, is what that connection shows of it.
LEMMA SeenSteps ==
  ASSUME IInv, NEW c \in Conn, NEW k, conn' = [conn EXCEPT ![c] = k], stopping' = stopping,
         \/ Seen(k) = Seen(conn[c])
         \/ /\ Asked(conn[c]) = None /\ Asked(k) \in PowerAction
            /\ k.effect = conn[c].effect /\ ToldAs(k.told) = ToldAs(conn[c].told)
         \/ /\ conn[c].effect = None /\ Asked(conn[c]) # None /\ k.effect = Asked(conn[c])
            /\ ToldAs(conn[c].told) = "refused" => stopping
            /\ Asked(k) = Asked(conn[c]) /\ ToldAs(k.told) = ToldAs(conn[c].told)
         \/ /\ ToldAs(conn[c].told) = "nothing" /\ ToldAs(k.told) \in Promise!Told
            /\ ToldAs(k.told) = "accepted" => k.effect # None /\ k.effect = Asked(k)
            /\ ToldAs(k.told) = "refused" => k.effect = None \/ stopping
            /\ Asked(k) = Asked(conn[c]) /\ k.effect = conn[c].effect
         \/ /\ conn[c].effect = None /\ k.effect = None
            /\ Asked(k) = None /\ ToldAs(k.told) = "nothing"
  PROVE  [Promise!Next]_(Promise!vars)
  <1> DEFINE asked == [d \in Conn |-> Asked(conn[d])]
             done == [d \in Conn |-> conn[d].effect]
             told == [d \in Conn |-> ToldAs(conn[d].told)]
  <1>1. \A d \in Conn : conn'[d] = IF d = c THEN k ELSE conn[d]
    BY DEF IInv, PowerTypeOK
  <1>2. /\ asked' = [asked EXCEPT ![c] = Asked(k)]
        /\ done' = [done EXCEPT ![c] = k.effect]
        /\ told' = [told EXCEPT ![c] = ToldAs(k.told)]
    <2>1. conn'[c] = k /\ \A d \in Conn \ {c} : conn'[d] = conn[d]
      BY <1>1
    <2>2. /\ asked = [d \in Conn |-> asked[d]] /\ asked' = [d \in Conn |-> asked'[d]]
          /\ done = [d \in Conn |-> done[d]] /\ done' = [d \in Conn |-> done'[d]]
          /\ told = [d \in Conn |-> told[d]] /\ told' = [d \in Conn |-> told'[d]]
      OBVIOUS
    <2>3. asked'[c] = Asked(k) /\ \A d \in Conn \ {c} : asked'[d] = asked[d]
      BY <2>1 DEF Asked, IsAuthorizedPeer
    <2>4. done'[c] = k.effect /\ \A d \in Conn \ {c} : done'[d] = done[d]
      BY <2>1
    <2>5. told'[c] = ToldAs(k.told) /\ \A d \in Conn \ {c} : told'[d] = told[d]
      BY <2>1 DEF ToldAs
    <2> HIDE DEF asked, done, told
    <2> QED BY <2>2, <2>3, <2>4, <2>5, Patched
  <1>3. asked[c] = Asked(conn[c]) /\ done[c] = conn[c].effect /\ told[c] = ToldAs(conn[c].told)
    OBVIOUS
  <1>4. /\ asked = [asked EXCEPT ![c] = asked[c]]
        /\ done = [done EXCEPT ![c] = done[c]]
        /\ told = [told EXCEPT ![c] = told[c]]
    OBVIOUS
  <1> HIDE DEF asked, done, told
  <1>5. CASE Seen(k) = Seen(conn[c])
    <2>1. asked' = asked /\ done' = done /\ told' = told
      BY <1>2, <1>3, <1>4, <1>5 DEF Seen
    <2> QED BY <2>1 DEF Promise!vars, asked, done, told
  <1>6. CASE Asked(conn[c]) = None /\ Asked(k) \in PowerAction
             /\ k.effect = conn[c].effect /\ ToldAs(k.told) = ToldAs(conn[c].told)
    <2>1. /\ asked[c] = None /\ asked' = [asked EXCEPT ![c] = Asked(k)]
          /\ done' = done /\ told' = told
      BY <1>2, <1>3, <1>4, <1>6
    <2>2. Promise!Ask(c, Asked(k))
      BY <2>1 DEF Promise!Ask, asked, done, told
    <2> QED BY <1>6, <2>2 DEF Promise!Next
  <1>7. CASE /\ conn[c].effect = None /\ Asked(conn[c]) # None /\ k.effect = Asked(conn[c])
             /\ ToldAs(conn[c].told) = "refused" => stopping
             /\ Asked(k) = Asked(conn[c]) /\ ToldAs(k.told) = ToldAs(conn[c].told)
    <2>1. /\ asked[c] # None /\ done[c] = None /\ (told[c] = "refused" => stopping)
          /\ done' = [done EXCEPT ![c] = asked[c]] /\ asked' = asked /\ told' = told
      BY <1>2, <1>3, <1>4, <1>7
    <2>2. Promise!CarryOut(c)
      BY <2>1 DEF Promise!CarryOut, asked, done, told
    <2> QED BY <2>2 DEF Promise!Next
  <1>8. CASE /\ ToldAs(conn[c].told) = "nothing" /\ ToldAs(k.told) \in Promise!Told
             /\ ToldAs(k.told) = "accepted" => k.effect # None /\ k.effect = Asked(k)
             /\ ToldAs(k.told) = "refused" => k.effect = None \/ stopping
             /\ Asked(k) = Asked(conn[c]) /\ k.effect = conn[c].effect
    <2> DEFINE t == ToldAs(k.told)
    <2>1. /\ told[c] = "nothing"
          /\ t = "accepted" => done[c] # None /\ done[c] = asked[c]
          /\ t = "refused" => done[c] = None \/ stopping
          /\ told' = [told EXCEPT ![c] = t] /\ asked' = asked /\ done' = done
      BY <1>2, <1>3, <1>4, <1>8
    <2>2. Promise!Tell(c, t)
      BY <2>1 DEF Promise!Tell, asked, done, told
    <2> QED BY <1>8, <2>2 DEF Promise!Next
  <1>9. CASE /\ conn[c].effect = None /\ k.effect = None
             /\ Asked(k) = None /\ ToldAs(k.told) = "nothing"
    <2>1. /\ done[c] = None /\ asked' = [asked EXCEPT ![c] = None]
          /\ told' = [told EXCEPT ![c] = "nothing"] /\ done' = done
      BY <1>2, <1>3, <1>4, <1>9
    <2>2. Promise!Forget(c)
      BY <2>1 DEF Promise!Forget, asked, done, told
    <2> QED BY <2>2 DEF Promise!Next
  <1> QED BY <1>5, <1>6, <1>7, <1>8, <1>9

LEMMA BecomesSeen ==
  ASSUME IInv, NEW c \in Conn, NEW k, Becomes(c, k), Seen(k) = Seen(conn[c])
  PROVE  [Promise!Next]_(Promise!vars)
  BY SeenSteps DEF Becomes

LEMMA EndedIsSeen ==
  ASSUME NEW k \in Connection, NEW line
  PROVE  Seen(Ended(k, line)) = Seen(k)
  BY DEF Seen, Ended, Asked, IsAuthorizedPeer, Connection

LEMMA LeftIsSeen ==
  ASSUME NEW k \in Connection
  PROVE  Seen(Left(k)) = Seen(k)
  BY DEF Seen, Left, Asked, IsAuthorizedPeer, Connection

LEMMA FinishSeen ==
  ASSUME IInv, pc # "idle", NEW r \in Result, Finish(r),
         r = "accepted" => conn[at].effect # None,
         r \in Refusal =>
           stopping \/ (conn[at].cmd \in {"none", "over"} /\ conn[at].effect = None)
  PROVE  [Promise!Next]_(Promise!vars)
  <1> DEFINE j == [conn[at] EXCEPT !.told = r]
             k == Left(j)
  <1>1. at \in Conn /\ conn[at] \in Connection /\ Held(conn[at]) /\ Sound(conn[at])
    BY At DEF IInv, PowerTypeOK
  <1>2. j \in Connection
    BY <1>1 DEF Connection
  <1>3. k.told = r /\ k.effect = conn[at].effect /\ Asked(k) = Asked(conn[at])
    BY <1>1, <1>2 DEF Left, Connection, Asked, IsAuthorizedPeer
  <1>4. conn' = [conn EXCEPT ![at] = k] /\ stopping' = stopping
    BY DEF Finish, Leaves
  <1>5. /\ ToldAs(conn[at].told) = "nothing"
        /\ ToldAs(k.told) \in Promise!Told
        /\ ToldAs(k.told) = "accepted" => r = "accepted"
        /\ ToldAs(k.told) = "refused" => r \in Refusal
    BY <1>1, <1>3 DEF Held, ToldAs, Promise!Told, Result, Refusal
  <1>6. conn[at].effect # None => conn[at].effect = Asked(conn[at])
    BY <1>1 DEF Sound
  <1> HIDE DEF k
  <1> QED BY <1>1, <1>3, <1>4, <1>5, <1>6, SeenSteps

LEMMA ClientSeen ==
  ASSUME IInv, ClientStep
  PROVE  [Promise!Next]_(Promise!vars)
  <1>1. pc # "idle"
    BY DEF ClientStep, ClientGoesOn, Connected, ConnectFails, IoFails, Write, WriteEof, ReadLine,
       ReadEnd, ClientTimesOut
  <1>2. at \in Conn /\ conn[at] \in Connection /\ Held(conn[at]) /\ Sound(conn[at])
    BY <1>1, At DEF IInv, PowerTypeOK
  <1>3. CASE Connected
    <2>1. PICK foreign \in 0..Slots : conn' = [conn EXCEPT ![at].helper = Served(foreign)]
      BY <1>3 DEF Connected
    <2> DEFINE k == [conn[at] EXCEPT !.helper = Served(foreign)]
    <2>2. Seen(k) = Seen(conn[at])
      BY <1>2 DEF Seen, Asked, IsAuthorizedPeer, Connection
    <2>3. conn' = [conn EXCEPT ![at] = k] /\ stopping' = stopping
      BY <1>3, <2>1 DEF Connected, Goes
    <2> QED BY <1>2, <2>2, <2>3, SeenSteps
  <1>4. CASE Write
    <2> DEFINE k == [conn[at] EXCEPT !.sent = Size[conn[at].wants]]
    <2>1. conn' = [conn EXCEPT ![at] = k] /\ stopping' = stopping /\ pc = "connected"
      BY <1>4 DEF Write, Goes
    <2>2. /\ Asked(conn[at]) = None /\ Asked(k) \in PowerAction
          /\ k.effect = conn[at].effect /\ k.told = conn[at].told
      BY <1>2, <2>1, Distinct DEF Held, Asked, IsAuthorizedPeer, Connection
    <2> HIDE DEF k
    <2> QED BY <1>2, <2>1, <2>2, SeenSteps
  <1>5. CASE WriteEof
    <2> DEFINE k == [conn[at] EXCEPT !.eof = TRUE]
    <2>1. Seen(k) = Seen(conn[at])
      BY <1>2 DEF Seen, Asked, IsAuthorizedPeer, Connection
    <2>2. conn' = [conn EXCEPT ![at] = k] /\ stopping' = stopping
      BY <1>5 DEF WriteEof, Goes
    <2> QED BY <1>2, <2>1, <2>2, SeenSteps
  <1>6. CASE ReadLine
    <2>1. CASE Goes("answered") /\ UNCHANGED conn
      BY <2>1 DEF Goes, Promise!vars
    <2>2. CASE conn[at].reply # "accepted" /\ Finish("protocol_error")
      BY <1>1, <1>6, <2>2, RefusalIsFinal, FinishSeen DEF ReadLine, Result, Refusal
    <2> QED BY <1>6, <2>1, <2>2 DEF ReadLine, Misread
  <1>7. CASE ReadEnd
    <2>1. conn[at].effect # None
      BY <1>2, <1>7 DEF ReadEnd, Held, Sound
    <2> QED BY <1>1, <1>7, <2>1, FinishSeen DEF ReadEnd, Result, Refusal
  <1>8. CASE IoFails \/ ClientTimesOut
    BY <1>1, <1>8, FinishSeen DEF IoFails, ClientTimesOut, Result, Refusal
  <1>9. CASE ConnectFails
    <2>1. PICK r \in {"helper_unavailable", "permission_denied", "io_error"} : Finish(r)
      BY <1>9 DEF ConnectFails
    <2>2. conn[at].cmd = "none" /\ conn[at].effect = None
      BY <1>2, <1>9 DEF ConnectFails, Held, Sound
    <2> QED BY <1>1, <2>1, <2>2, FinishSeen DEF Result, Refusal
  <1> QED BY <1>3, <1>4, <1>5, <1>6, <1>7, <1>8, <1>9 DEF ClientStep, ClientGoesOn

LEMMA HelperSeen ==
  ASSUME IInv, NEW c \in Conn, HelperStep(c)
  PROVE  [Promise!Next]_(Promise!vars)
  <1>1. conn[c] \in Connection
    BY At
  <1>2. CASE Rejects(c)
    BY <1>1, <1>2, EndedIsSeen, BecomesSeen DEF Rejects
  <1>3. CASE Becomes(c, [conn[c] EXCEPT !.helper = "reading"])
    <2> DEFINE k == [conn[c] EXCEPT !.helper = "reading"]
    <2>1. Seen(k) = Seen(conn[c])
      BY <1>1 DEF Seen, Asked, IsAuthorizedPeer, Connection
    <2> QED BY <1>3, <2>1, BecomesSeen
  <1>4. ASSUME NEW n \in 1..(MaxRequest + 1),
               Becomes(c, [conn[c] EXCEPT !.got = @ + n, !.timer = 0])
        PROVE  [Promise!Next]_(Promise!vars)
    <2> DEFINE k == [conn[c] EXCEPT !.got = @ + n, !.timer = 0]
    <2>1. Seen(k) = Seen(conn[c])
      BY <1>1 DEF Seen, Asked, IsAuthorizedPeer, Connection
    <2> QED BY <1>4, <2>1, BecomesSeen
  <1>5. CASE Becomes(c, [conn[c] EXCEPT !.helper = "running", !.timer = 0, !.since = 0,
                                        !.order = Received(conn[c]), !.cmd = "running"])
    <2> DEFINE k == [conn[c] EXCEPT !.helper = "running", !.timer = 0, !.since = 0,
                                    !.order = Received(conn[c]), !.cmd = "running"]
    <2>1. Seen(k) = Seen(conn[c])
      BY <1>1 DEF Seen, Asked, IsAuthorizedPeer, Connection
    <2> QED BY <1>5, <2>1, BecomesSeen
  <1>6. ASSUME NEW way \in {"over", "killed"}, NEW line,
               Becomes(c, Ended([conn[c] EXCEPT !.cmd = way], line))
        PROVE  [Promise!Next]_(Promise!vars)
    <2> DEFINE k == [conn[c] EXCEPT !.cmd = way]
    <2>1. k \in Connection /\ Seen(k) = Seen(conn[c])
      BY <1>1 DEF Seen, Asked, IsAuthorizedPeer, Connection
    <2> QED BY <1>6, <2>1, EndedIsSeen, BecomesSeen
  <1>7. CASE Start(c) \/ ReadTimesOut(c) \/ HelperFails(c)
    BY <1>2, <1>3, <1>7 DEF Start, ReadTimesOut, HelperFails
  <1>8. ASSUME NEW n \in 1..(MaxRequest + 1), Recv(c, n)
        PROVE  [Promise!Next]_(Promise!vars)
    BY <1>2, <1>4, <1>8 DEF Recv
  <1>9. CASE RecvEnd(c)
    BY <1>2, <1>5, <1>9 DEF RecvEnd
  <1>10. CASE CommandEnds(c) \/ CommandTimesOut(c)
    BY <1>6, <1>10 DEF CommandEnds, CommandTimesOut
  <1> QED BY <1>7, <1>8, <1>9, <1>10 DEF HelperStep, HelperGoesOn

LEMMA OtherSeen ==
  ASSUME IInv, NEW c \in Conn, OtherWrites(c) \/ OtherCloses(c)
  PROVE  [Promise!Next]_(Promise!vars)
  <1>1. conn[c] \in Connection /\ Sound(conn[c])
    BY At
  <1>2. CASE OtherWrites(c)
    <2> DEFINE k == [conn[c] EXCEPT !.sent = @ + 1]
    <2>1. Asked(conn[c]) = None
      BY <1>1, <1>2, Distinct DEF OtherWrites, Asked, Connection
    <2>2. /\ Asked(k) \in PowerAction \cup {None}
          /\ k.effect = conn[c].effect /\ k.told = conn[c].told
      BY <1>1 DEF Asked, Connection
    <2>3. Becomes(c, k)
      BY <1>2 DEF OtherWrites
    <2> HIDE DEF k
    <2> QED BY <2>1, <2>2, <2>3, SeenSteps DEF Seen, Becomes
  <1>3. CASE OtherCloses(c)
    <2>1. PICK all \in BOOLEAN : Becomes(c, [conn[c] EXCEPT !.eof = TRUE, !.gone = all])
      BY <1>3 DEF OtherCloses
    <2> DEFINE k == [conn[c] EXCEPT !.eof = TRUE, !.gone = all]
    <2>2. Seen(k) = Seen(conn[c])
      BY <1>1 DEF Seen, Asked, IsAuthorizedPeer, Connection
    <2> QED BY <2>1, <2>2, BecomesSeen
  <1> QED BY <1>2, <1>3

LEMMA NewIsSeen ==
  ASSUME IInv, NEW c \in Conn, conn[c].peer = None, NEW k \in Connection,
         k.sent = 0, k.told = "nothing", k.effect = None
  PROVE  Seen(k) = Seen(conn[c])
  <1>1. conn[c] = Unused
    BY At DEF Sound
  <1>2. Asked(k) = None
    BY Distinct DEF Asked, Connection
  <1> QED BY <1>1, <1>2, UnusedIsSound DEF Seen, Unused

LEMMA OpensSeen ==
  ASSUME IInv, NEW c \in Conn,
         \/ \E a \in PowerAction : Ask(c, a)
         \/ \E p \in Peer, w \in OtherPayload : OtherConnects(c, p, w)
  PROVE  [Promise!Next]_(Promise!vars)
  <1>1. CASE \E a \in PowerAction : Ask(c, a)
    <2>1. PICK a \in PowerAction : Ask(c, a)
      BY <1>1
    <2> DEFINE k == [conn[c] EXCEPT !.peer = "display", !.wants = a]
    <2>2. conn[c] = Unused /\ conn[c] \in Connection /\ conn[c].peer = None
      BY <2>1, At DEF Ask, Sound
    <2>3. k \in Connection
      BY ZenonT(60), <2>2 DEF Connection, Peer, Payload
    <2>4. conn[c].sent = 0 /\ conn[c].told = "nothing" /\ conn[c].effect = None
      BY <2>2 DEF Unused
    <2>5. k.sent = 0 /\ k.told = "nothing" /\ k.effect = None
      BY <2>2, <2>4 DEF Connection
    <2>6. conn' = [conn EXCEPT ![c] = k] /\ stopping' = stopping
      BY <2>1 DEF Ask
    <2> HIDE DEF k
    <2> QED BY <2>2, <2>3, <2>5, <2>6, NewIsSeen, SeenSteps
  <1>2. CASE \E p \in Peer, w \in OtherPayload : OtherConnects(c, p, w)
    <2>1. PICK p \in Peer, w \in OtherPayload, foreign \in 0..Slots :
            /\ conn[c].peer = None
            /\ Becomes(c, [Unused EXCEPT !.peer = p, !.wants = w, !.helper = Served(foreign)])
      BY <1>2 DEF OtherConnects
    <2> DEFINE h == Served(foreign)
               k == [Unused EXCEPT !.peer = p, !.wants = w, !.helper = h]
    <2>2. h \in {"starting", "dropped"} /\ w \in Payload
      BY PowerAssumption DEF Served, PowerAssumption
    <2> HIDE DEF h
    <2>3. k \in Connection
      BY ZenonT(60), <2>2, UnusedIsSound DEF Connection, Alive
    <2>4. Unused.sent = 0 /\ Unused.told = "nothing" /\ Unused.effect = None
      BY DEF Unused
    <2>5. k.sent = 0 /\ k.told = "nothing" /\ k.effect = None
      BY <2>4, UnusedIsSound DEF Connection
    <2>6. Becomes(c, k)
      BY <2>1 DEF h
    <2> HIDE DEF k
    <2> QED BY <2>1, <2>3, <2>5, <2>6, NewIsSeen, BecomesSeen
  <1> QED BY <1>1, <1>2

LEMMA HostSeen ==
  ASSUME IInv, NEW c \in Conn, TakesEffect(c) \/ IsOver(c) \/ HelperIsKilled(c) \/ IsReleased(c)
  PROVE  [Promise!Next]_(Promise!vars)
  <1>1. conn[c] \in Connection /\ Sound(conn[c])
    BY At
  <1>2. CASE TakesEffect(c)
    <2> DEFINE k == [conn[c] EXCEPT !.effect = conn[c].order]
    <2>1. k.effect = conn[c].order /\ k.told = conn[c].told /\ Asked(k) = Asked(conn[c])
      BY <1>1 DEF Connection, Asked, IsAuthorizedPeer
    <2>2. /\ conn[c].effect = None /\ Asked(conn[c]) # None /\ conn[c].order = Asked(conn[c])
          /\ conn[c].told \in Refusal => stopping
      BY <1>1, <1>2 DEF TakesEffect, Sound
    <2>3. ToldAs(conn[c].told) = "refused" => conn[c].told \in Refusal
      BY <1>1 DEF Connection, ToldAs, Refusal, Result
    <2>4. Becomes(c, k)
      BY <1>2 DEF TakesEffect
    <2> HIDE DEF k
    <2> QED BY <2>1, <2>2, <2>3, <2>4, SeenSteps DEF Becomes
  <1>3. CASE IsOver(c)
    <2> DEFINE k == [conn[c] EXCEPT !.cmd = "over"]
    <2>1. Seen(k) = Seen(conn[c])
      BY <1>1 DEF Seen, Asked, IsAuthorizedPeer, Connection
    <2> QED BY <1>3, <2>1, BecomesSeen DEF IsOver
  <1>4. CASE HelperIsKilled(c)
    <2> DEFINE cmd == IF conn[c].cmd = "running" THEN "killed" ELSE conn[c].cmd
               k == [conn[c] EXCEPT !.cmd = cmd]
    <2>1. cmd \in {"none", "killed", "over"}
      BY <1>1 DEF Connection
    <2>2. Becomes(c, Ended(k, "nothing"))
      BY <1>4 DEF HelperIsKilled
    <2> HIDE DEF cmd
    <2>3. k \in Connection /\ Seen(k) = Seen(conn[c])
      BY <1>1, <2>1 DEF Seen, Asked, IsAuthorizedPeer, Connection
    <2> QED BY <2>2, <2>3, EndedIsSeen, BecomesSeen
  <1>5. CASE IsReleased(c)
    <2>1. ToldAs(Unused.told) = "nothing" /\ Unused.effect = None
      BY DEF Unused, ToldAs, Refusal
    <2> QED BY <1>5, <2>1, UnusedIsSound, SeenSteps DEF IsReleased, Becomes
  <1> QED BY <1>2, <1>3, <1>4, <1>5

LEMMA RestSeen ==
  ASSUME IInv, DisplayDies \/ Stops \/ Restarts \/ Tick \/ UNCHANGED vars
  PROVE  [Promise!Next]_(Promise!vars)
  <1>1. CASE DisplayDies
    <2>1. at \in Conn /\ conn[at] \in Connection
      BY <1>1 DEF DisplayDies, IInv, PowerTypeOK
    <2> QED BY <1>1, <2>1, LeftIsSeen, SeenSteps DEF DisplayDies, Leaves
  <1>2. CASE Stops
    <2>1. UNCHANGED conn /\ stopping' = TRUE /\ \E c \in Conn : conn[c].effect # None
      BY <1>2 DEF Stops
    <2>2. Promise!Stop
      BY <2>1 DEF Promise!Stop
    <2> QED BY <2>2 DEF Promise!Next
  <1>3. CASE Restarts
    <2>1. \A c \in Conn : conn'[c] = Unused
      BY <1>3 DEF Restarts
    <2>2. Asked(Unused) = None /\ Unused.effect = None /\ ToldAs(Unused.told) = "nothing"
      BY UnusedIsSound DEF Unused, ToldAs, Refusal
    <2>3. /\ [c \in Conn |-> Asked(conn[c])]' = [c \in Conn |-> None]
          /\ [c \in Conn |-> conn[c].effect]' = [c \in Conn |-> None]
          /\ [c \in Conn |-> ToldAs(conn[c].told)]' = [c \in Conn |-> "nothing"]
      BY <2>1, <2>2 DEF Asked, IsAuthorizedPeer, ToldAs
    <2>4. Promise!Restart
      BY <1>3, <2>3 DEF Restarts, Promise!Restart
    <2> QED BY <2>4 DEF Promise!Next
  <1>4. CASE Tick
    <2>1. /\ stopping' = stopping
          /\ \A c \in Conn : conn[c] \in Connection /\ conn'[c] = Aged(conn[c])
      BY <1>4 DEF Tick, IInv, PowerTypeOK
    <2>2. ASSUME NEW c \in Conn
          PROVE  /\ Asked(conn[c])' = Asked(conn[c])
                 /\ (conn[c].effect)' = conn[c].effect
                 /\ ToldAs(conn[c].told)' = ToldAs(conn[c].told)
      <3>1. /\ conn'[c].peer = conn[c].peer /\ conn'[c].wants = conn[c].wants
            /\ conn'[c].sent = conn[c].sent /\ conn'[c].effect = conn[c].effect
            /\ conn'[c].told = conn[c].told
        BY ZenonT(60), <2>1 DEF Aged, Connection
      <3> QED BY <3>1 DEF Asked, IsAuthorizedPeer, ToldAs
    <2> QED BY <2>1, <2>2 DEF Promise!vars
  <1>5. CASE UNCHANGED vars
    BY <1>5 DEF vars, Promise!vars
  <1> QED BY <1>1, <1>2, <1>3, <1>4, <1>5

LEMMA StepIsPromised ==
  ASSUME IInv, [Next]_vars
  PROVE  [Promise!Next]_(Promise!vars)
  BY ClientSeen, HelperSeen, OtherSeen, OpensSeen, HostSeen, RestSeen DEF Next

LEMMA InitIsPromised ==
  Init => Promise!Init
  <1> SUFFICES ASSUME Init PROVE Promise!Init
    OBVIOUS
  <1>1. \A c \in Conn : conn[c] = Unused
    BY DEF Init
  <1>2. Asked(Unused) = None /\ Unused.effect = None /\ ToldAs(Unused.told) = "nothing"
    BY UnusedIsSound DEF Unused, ToldAs, Refusal
  <1> QED BY <1>1, <1>2 DEF Init, Promise!Init

\* Client, helpers and systemctl together implement PowerPromise: only what an entitled
\* peer asked for in full is carried out, once, "accepted" is true, and a refusal is
\* final on a host that is not going down.
THEOREM PowerKeepsPromise ==
  Spec => KeepsPowerPromise
  BY InitIsPromised, StepIsPromised, Invariance, PTL DEF Spec, KeepsPowerPromise, Promise!Spec

(***************************************************************************)
(* What a user may conclude from an answer follows from PowerPromise alone *)
(* and holds of the protocol because the protocol implements it.           *)
(***************************************************************************)
\* what was done is what was asked for, "accepted" means done, and "refused" that it is
\* not done on a host that is not going down
AnswersAreTrue ==
  \A c \in Conn :
    /\ conn[c].effect # None => conn[c].effect = Asked(conn[c])
    /\ ToldAs(conn[c].told) = "accepted" => conn[c].effect # None
    /\ ToldAs(conn[c].told) = "refused" => conn[c].effect = None \/ stopping

\* what was done is done once: it changes into nothing else, and goes with the host
DoneIsDone ==
  \A c \in Conn :
    conn[c].effect # None /\ (conn[c].effect)' # conn[c].effect =>
      stopping /\ ~stopping' /\ \A d \in Conn : (conn[d].effect)' = None

\* what a step of the promise is to one request
StepSeenBy(c) ==
  LET asked == Asked(conn[c])
      done  == conn[c].effect
      told  == ToldAs(conn[c].told)
  IN \/ asked = None /\ done' = done /\ told' = told /\ stopping' = stopping
     \/ /\ done = None /\ done' = asked /\ asked' = asked /\ told' = told
        /\ stopping' = stopping /\ asked # None /\ (told = "refused" => stopping)
     \/ /\ asked' = asked /\ done' = done /\ stopping' = stopping
        /\ told' = "accepted" => done # None
        /\ told' = "refused" => done = None \/ stopping
     \/ done = None /\ done' = done /\ told' = "nothing" /\ stopping' = stopping
     \/ asked' = asked /\ done' = done /\ told' = told /\ (stopping' = stopping \/ stopping')
     \/ stopping /\ ~stopping' /\ done' = None /\ told' = "nothing"

LEMMA StepsAreSeen ==
  ASSUME [Promise!Next]_(Promise!vars), NEW c \in Conn
  PROVE  StepSeenBy(c)
  <1> DEFINE asked == [d \in Conn |-> Asked(conn[d])]
             done == [d \in Conn |-> conn[d].effect]
             told == [d \in Conn |-> ToldAs(conn[d].told)]
  <1>1. /\ asked[c] = Asked(conn[c]) /\ asked'[c] = Asked(conn[c])'
        /\ done[c] = conn[c].effect /\ done'[c] = (conn[c].effect)'
        /\ told[c] = ToldAs(conn[c].told) /\ told'[c] = ToldAs(conn[c].told)'
    OBVIOUS
  <1>2. DOMAIN asked = Conn /\ DOMAIN done = Conn /\ DOMAIN told = Conn
    OBVIOUS
  <1>3. ASSUME NEW r \in Conn, NEW a \in PowerAction, Promise!Ask(r, a)
        PROVE  StepSeenBy(c)
    <2>1. /\ asked[r] = None /\ asked' = [asked EXCEPT ![r] = a]
          /\ done' = done /\ told' = told /\ stopping' = stopping
      BY <1>3 DEF Promise!Ask
    <2> HIDE DEF asked, done, told
    <2> QED BY <1>1, <1>2, <2>1 DEF StepSeenBy
  <1>4. ASSUME NEW r \in Conn, NEW t \in Promise!Told, Promise!Tell(r, t)
        PROVE  StepSeenBy(c)
    <2>1. /\ t = "accepted" => done[r] # None
          /\ t = "refused" => done[r] = None \/ stopping
          /\ told' = [told EXCEPT ![r] = t]
          /\ asked' = asked /\ done' = done /\ stopping' = stopping
      BY <1>4 DEF Promise!Tell
    <2> HIDE DEF asked, done, told
    <2> QED BY <1>1, <1>2, <2>1 DEF StepSeenBy
  <1>5. ASSUME NEW r \in Conn, Promise!CarryOut(r)
        PROVE  StepSeenBy(c)
    <2>1. /\ asked[r] # None /\ done[r] = None /\ (told[r] = "refused" => stopping)
          /\ done' = [done EXCEPT ![r] = asked[r]]
          /\ asked' = asked /\ told' = told /\ stopping' = stopping
      BY <1>5 DEF Promise!CarryOut
    <2> HIDE DEF asked, done, told
    <2> QED BY <1>1, <1>2, <2>1 DEF StepSeenBy
  <1>6. ASSUME NEW r \in Conn, Promise!Forget(r)
        PROVE  StepSeenBy(c)
    <2>1. /\ done[r] = None /\ asked' = [asked EXCEPT ![r] = None]
          /\ told' = [told EXCEPT ![r] = "nothing"]
          /\ done' = done /\ stopping' = stopping
      BY <1>6 DEF Promise!Forget
    <2> HIDE DEF asked, done, told
    <2> QED BY <1>1, <1>2, <2>1 DEF StepSeenBy
  <1>7. CASE Promise!Stop \/ UNCHANGED Promise!vars
    <2>1. /\ asked' = asked /\ done' = done /\ told' = told
          /\ stopping' = stopping \/ stopping'
      BY <1>7 DEF Promise!Stop, Promise!vars
    <2> HIDE DEF asked, done, told
    <2> QED BY <1>1, <2>1 DEF StepSeenBy
  <1>8. CASE Promise!Restart
    <2>1. /\ stopping /\ ~stopping'
          /\ done' = [d \in Conn |-> None] /\ told' = [d \in Conn |-> "nothing"]
      BY <1>8 DEF Promise!Restart
    <2> HIDE DEF asked, done, told
    <2> QED BY <1>1, <2>1 DEF StepSeenBy
  <1> QED
    BY <1>3, <1>4, <1>5, <1>6, <1>7, <1>8 DEF Promise!Next

LEMMA PromiseIsTrue ==
  ASSUME AnswersAreTrue, [Promise!Next]_(Promise!vars)
  PROVE  AnswersAreTrue' /\ DoneIsDone
  <1>1. \A c \in Conn : StepSeenBy(c)
    BY StepsAreSeen
  <1>2. AnswersAreTrue'
    BY <1>1 DEF AnswersAreTrue, StepSeenBy
  <1>3. DoneIsDone
    BY <1>1 DEF AnswersAreTrue, StepSeenBy, DoneIsDone
  <1> QED BY <1>2, <1>3

\* Whatever gets lost, late or killed between display, helper and host: the host has
\* taken nothing but what was asked for in full, "accepted" is never told of what it has
\* not taken, and "refused" never of what it has, unless it stops already.
THEOREM AnswersStayTrue == Spec => []AnswersAreTrue
  <1>1. Init => AnswersAreTrue
    <2> SUFFICES ASSUME Init PROVE AnswersAreTrue
      OBVIOUS
    <2>1. \A c \in Conn : conn[c] = Unused
      BY DEF Init
    <2>2. Unused.effect = None /\ ToldAs(Unused.told) = "nothing"
      BY DEF Unused, ToldAs, Refusal
    <2> QED BY <2>1, <2>2 DEF AnswersAreTrue
  <1>2. AnswersAreTrue /\ [Promise!Next]_(Promise!vars) => AnswersAreTrue'
    BY PromiseIsTrue
  <1> QED BY <1>1, <1>2, PowerKeepsPromise, PTL DEF Spec, KeepsPowerPromise, Promise!Spec

\* An action the host has taken is not taken again or exchanged for another for the same
\* request: it stays until the host is up again.
THEOREM ActionsAreTakenOnce == Spec => [][DoneIsDone]_vars
  <1>1. AnswersAreTrue /\ [Promise!Next]_(Promise!vars) => DoneIsDone
    BY PromiseIsTrue
  <1> QED BY <1>1, AnswersStayTrue, PowerKeepsPromise, PTL DEF KeepsPowerPromise, Promise!Spec
==============================================================================
