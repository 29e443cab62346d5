------------------------- MODULE MobileBridgeProofs --------------------------
(***************************************************************************)
(* The desktop works on one connection at a time, stays down when another    *)
(* instance has displaced it and tends the ticket it shows, for every number *)
(* of attempts, sockets, tickets, rotations and disturbances.                *)
(***************************************************************************)
EXTENDS MobileBridge, SequenceTheorems, TLAPS

(* No attempt is of a later generation, nor of the current one once nobody   *)
(* wants a connection: every command that ends the wish starts another one.  *)
InProgress(a) == attempt[a].at # "none"
OldAttempts ==
    \A a \in Attempts : InProgress(a) =>
        /\ attempt[a].gen <= generation
        /\ ~requested => attempt[a].gen < generation

(* A desktop that is connected knows its socket.                             *)
KnowsSocket == connected => socket # None

Core == OneConnection /\ StaysDown /\ OldAttempts /\ KnowsSocket
BInv == TypeOK /\ Core

Unclosed(s) == ready[s] \in {"connecting", "open"}

LEMMA AnyIsMember == ASSUME NEW S, S # {} PROVE Any(S) \in S
  BY DEF Any

-----------------------------------------------------------------------------
(* A step that opens no socket, starts no attempt and leaves the desktop's   *)
(* wishes alone disturbs nothing.                                            *)
LEMMA Undisturbed ==
  ASSUME Core,
         UNCHANGED <<requested, generation, retry, socket, connected, displaced>>,
         \A s \in Sockets : Unclosed(s)' => Unclosed(s),
         \A a \in Attempts : InProgress(a)' => InProgress(a) /\ attempt'[a].gen = attempt[a].gen
  PROVE  Core'
  <1>1. \A a \in Attempts : Live(a)' => Live(a)
    BY DEF Live, Current, InProgress
  <1>2. OneConnection'
    BY <1>1 DEF Core, OneConnection, Unclosed
  <1>3. StaysDown'
    BY <1>1 DEF Core, StaysDown
  <1>4. OldAttempts' /\ KnowsSocket'
    BY DEF Core, OldAttempts, KnowsSocket
  <1> QED BY <1>2, <1>3, <1>4 DEF Core

(* A command starts a generation in which there is no attempt yet.           *)
LEMMA Superseding ==
  ASSUME TypeOK, Core, Supersede, UNCHANGED attempt, displaced' => displaced, requested' \in BOOLEAN,
         connected' => socket' # None, retry' => socket' = None,
         displaced' => socket' = None /\ ~retry',
         \A s \in Sockets : Unclosed(s)' => s = socket'
  PROVE  Core'
  <1>0. generation \in Nat /\ generation' \in Nat /\ generation < generation'
    BY DEF TypeOK, Supersede
  <1>1. ASSUME NEW a \in Attempts, InProgress(a)
        PROVE  attempt[a].gen \in Nat /\ attempt[a].gen < generation'
    <2>1. attempt[a].gen \in Nat
      BY DEF TypeOK, Attempt
    <2>2. attempt[a].gen <= generation
      BY <1>1 DEF Core, OldAttempts
    <2> QED BY <1>0, <2>1, <2>2
  <1>2. ASSUME NEW a \in Attempts PROVE ~Live(a)'
    <2>1. SUFFICES ASSUME InProgress(a) PROVE ~Live(a)'
      BY DEF Live, InProgress
    <2>2. attempt[a].gen # generation'
      BY <1>0, <1>1, <2>1
    <2> QED BY <2>2 DEF Live, Current
  <1>3. OneConnection'
    BY <1>2 DEF OneConnection, Unclosed
  <1>4. StaysDown'
    BY <1>2 DEF StaysDown
  <1>5. OldAttempts'
    <2>1. ASSUME NEW a \in Attempts, InProgress(a)'
          PROVE  attempt'[a].gen <= generation' /\ attempt'[a].gen < generation'
      <3>1. attempt' = attempt /\ InProgress(a)
        BY <2>1 DEF InProgress
      <3>2. attempt[a].gen \in Nat /\ attempt[a].gen < generation'
        BY <3>1, <1>1
      <3> QED BY <1>0, <3>1, <3>2
    <2> QED BY <2>1 DEF OldAttempts
  <1> QED BY <1>3, <1>4, <1>5 DEF Core, KnowsSocket

(* close() leaves a socket neither connecting nor open.                      *)
LEMMA Closing ==
  ASSUME TypeOK, NEW s \in Sockets \cup {None}, Close(s)
  PROVE  /\ \A d \in Sockets : Unclosed(d)' => Unclosed(d) /\ d # s
         /\ ready' \in [Sockets -> {"closed", "connecting", "open", "closing"}]
         /\ token' = token /\ toDesk' = toDesk
         /\ toRelay' \in [Sockets -> Seq(ToRelay)]
  <1>1. CASE s \in Sockets /\ ready[s] \in {"connecting", "open"}
    <2>1. /\ ready' = [ready EXCEPT ![s] = "closing"]
          /\ toRelay' = [toRelay EXCEPT ![s] = Append(@, "close")]
          /\ UNCHANGED <<token, toDesk>>
      BY <1>1 DEF Close
    <2>2. Append(toRelay[s], "close") \in Seq(ToRelay)
      BY <1>1 DEF TypeOK, ToRelay
    <2> QED BY <1>1, <2>1, <2>2 DEF TypeOK, Unclosed
  <1>2. CASE ~(s \in Sockets /\ ready[s] \in {"connecting", "open"})
    <2>1. UNCHANGED wire
      BY <1>2 DEF Close
    <2> QED BY <1>2, <2>1, BridgeAssumption DEF wire, TypeOK, Unclosed
  <1> QED BY <1>1, <1>2

-----------------------------------------------------------------------------
(* Types *)

LEMMA TypeInit == Init => TypeOK
  <1> SUFFICES ASSUME Init PROVE TypeOK
    OBVIOUS
  <1>1. conf \in Config
    BY BridgeAssumption DEF Init
  <1>2. attempt \in [Attempts -> Attempt]
    BY DEF Init, Attempt, NoAttempt, MaybeTicket
  <1>3. rotate \in [Rotations -> Rotate]
    BY DEF Init, Rotate, NoRotate, MaybeTicket
  <1>4. toRelay \in [Sockets -> Seq(ToRelay)] /\ toDesk \in [Sockets -> Seq(ToDesk)]
    BY DEF Init
  <1> QED BY <1>1, <1>2, <1>3, <1>4 DEF Init, TypeOK, Config, MaybeTicket

LEMMA ScheduleType ==
  ASSUME NEW wanted \in BOOLEAN, ScheduleConnect(wanted), requested' \in BOOLEAN,
         disposed \in BOOLEAN
  PROVE  retry' \in BOOLEAN
  BY DEF ScheduleConnect

LEMMA RotationType ==
  ASSUME ScheduleRotation, rotation \in BOOLEAN, disposed \in BOOLEAN
  PROVE  rotation' \in BOOLEAN
  BY DEF ScheduleRotation

LEMMA CounterTypes ==
  ASSUME TypeOK
  PROVE  /\ Happens => events' \in Nat
         /\ Supersede => generation' \in Nat
  BY DEF Happens, Supersede, TypeOK

LEMMA IssueType ==
  ASSUME IssueTicket
  PROVE  ticket' \in MaybeTicket /\ ticket' = FreshTicket /\ FreshTicket \in Tickets
         /\ used' \in BOOLEAN
  <1>1. FreshTicket \in FreshTickets
    BY AnyIsMember DEF IssueTicket, FreshTicket
  <1> QED BY <1>1 DEF IssueTicket, FreshTickets, MaybeTicket

LEMMA RotateType ==
  ASSUME TypeOK, RotatePairing
  PROVE  refreshing' \in BOOLEAN /\ rotate' \in [Rotations -> Rotate]
  <1>1. CASE disposed \/ pairing = None \/ socket = None \/ (socket # None /\ ready[socket] # "open")
    BY <1>1 DEF TypeOK, RotatePairing
  <1>2. CASE ~(disposed \/ pairing = None \/ socket = None \/ (socket # None /\ ready[socket] # "open"))
    <2>1. Any(FreshRotates) \in Rotations
      BY AnyIsMember DEF RotatePairing, FreshRotates
    <2>2. [at |-> "sent", held |-> pairing, next |-> None, sock |-> socket] \in Rotate
      BY DEF TypeOK, Rotate, MaybeTicket
    <2>3. refreshing' = TRUE /\ rotate' = [rotate EXCEPT ![Any(FreshRotates)] =
                             [at |-> "sent", held |-> pairing, next |-> None, sock |-> socket]]
      BY <1>2 DEF RotatePairing
    <2> QED BY <2>1, <2>2, <2>3 DEF TypeOK
  <1> QED BY <1>1, <1>2

LEMMA TailType ==
  ASSUME NEW S, NEW q \in Seq(S), q # <<>>
  PROVE  Tail(q) \in Seq(S)
  OBVIOUS

LEMMA ReceivedType ==
  ASSUME TypeOK, NEW s \in Sockets, toDesk[s] # <<>>, Received(s)
  PROVE  toDesk' \in [Sockets -> Seq(ToDesk)]
  <1>1. Tail(toDesk[s]) \in Seq(ToDesk)
    BY TailType DEF TypeOK
  <1> QED BY <1>1 DEF Received, TypeOK

LEMMA TypeNext == TypeOK /\ [Next]_vars => TypeOK'
  <1> SUFFICES ASSUME TypeOK, [Next]_vars PROVE TypeOK'
    OBVIOUS
  <1> USE DEF desk, view, wire, relay, bounds
  <1>a. None \in MaybeTicket /\ Tickets \subseteq MaybeTicket
    BY DEF MaybeTicket
  <1>0. NoAttempt \in Attempt /\ NoRotate \in Rotate
    BY DEF NoAttempt, NoRotate, Attempt, Rotate, MaybeTicket
  <1>1. CASE Dial
    <2>1. CASE disposed \/ ~requested \/ socket # None
      BY <1>1, <2>1 DEF Dial, TypeOK
    <2>2. CASE ~(disposed \/ ~requested \/ socket # None)
      <3>1. [at |-> "start", gen |-> generation, ticket |-> None] \in Attempt
        BY <1>a DEF TypeOK, Attempt
      <3>2. Any(FreshAttempts) \in Attempts
        BY <1>1, AnyIsMember DEF Dial, FreshAttempts
      <3>3. attempt' = [attempt EXCEPT ![Any(FreshAttempts)] =
                          [at |-> "start", gen |-> generation, ticket |-> None]]
        BY <1>1, <2>2 DEF Dial
      <3>4. attempt' \in [Attempts -> Attempt]
        BY <3>1, <3>2, <3>3 DEF TypeOK
      <3> QED BY <1>1, <2>2, <3>4 DEF Dial, TypeOK
    <2> QED BY <2>1, <2>2
  <1>2. CASE RotateTimer
    <2>1. refreshing' \in BOOLEAN /\ rotate' \in [Rotations -> Rotate]
      BY <1>2, RotateType DEF RotateTimer
    <2> QED BY <1>2, <2>1 DEF RotateTimer, TypeOK
  <1>3. ASSUME NEW a \in Attempts, StartServed(a) PROVE TypeOK'
    <2>1. ticket' \in MaybeTicket /\ used' \in BOOLEAN /\ FreshTicket \in MaybeTicket
      BY <1>3, <1>a, IssueType DEF StartServed
    <2>2. attempt' \in [Attempts -> Attempt]
      BY <1>3, <2>1 DEF StartServed, TypeOK, Attempt
    <2> QED BY <1>3, <2>1, <2>2 DEF StartServed, TypeOK
  <1>4. ASSUME NEW a \in Attempts, StartAnswered(a) PROVE TypeOK'
    <2>1. CASE Current(a)
      <3>1. attempt' \in [Attempts -> Attempt]
        BY <1>4, <2>1 DEF StartAnswered, TypeOK, Attempt
      <3>2. pairing' \in MaybeTicket /\ shown' \in MaybeTicket
        BY <1>4, <2>1, <1>a DEF StartAnswered, TypeOK, Attempt
      <3> QED BY <1>4, <3>1, <3>2 DEF StartAnswered, TypeOK
    <2>2. CASE ~Current(a)
      <3>1. attempt' \in [Attempts -> Attempt]
        BY <1>4, <2>2, <1>0 DEF StartAnswered, TypeOK
      <3> QED BY <1>4, <2>2, <3>1 DEF StartAnswered, TypeOK
    <2> QED BY <2>1, <2>2
  <1>5. ASSUME NEW a \in Attempts, KeyDerived(a) PROVE TypeOK'
    <2>0. attempt' \in [Attempts -> Attempt]
      BY <1>5, <1>0 DEF KeyDerived, TypeOK
    <2>1. CASE Current(a)
      <3> DEFINE s == Any(FreshSockets)
      <3>1. s \in Sockets
        BY <1>5, AnyIsMember DEF KeyDerived, FreshSockets
      <3>2. /\ socket' = s
            /\ ready' = [ready EXCEPT ![s] = "connecting"]
            /\ token' = [token EXCEPT ![s] = attempt[a].ticket]
            /\ toRelay' = [toRelay EXCEPT ![s] = <<"upgrade">>]
            /\ UNCHANGED toDesk
        BY <1>5, <2>1 DEF KeyDerived
      <3>3. <<"upgrade">> \in Seq(ToRelay)
        BY DEF ToRelay
      <3>4. attempt[a].ticket \in MaybeTicket
        BY DEF TypeOK, Attempt
      <3> HIDE DEF s
      <3>5. toRelay' \in [Sockets -> Seq(ToRelay)] /\ token' \in [Sockets -> MaybeTicket]
        BY <3>1, <3>2, <3>3, <3>4 DEF TypeOK
      <3> QED BY <1>5, <2>0, <3>1, <3>2, <3>5 DEF KeyDerived, TypeOK
    <2>2. CASE ~Current(a)
      BY <1>5, <2>0, <2>2 DEF KeyDerived, TypeOK
    <2> QED BY <2>1, <2>2
  <1>6. ASSUME NEW a \in Attempts, StartFailed(a) PROVE TypeOK'
    <2>0. attempt' \in [Attempts -> Attempt]
      BY <1>6, <1>0 DEF StartFailed, TypeOK
    <2>1. CASE Current(a)
      <3>1. ClearConnectionState /\ Close(socket) /\ ScheduleConnect(conf.reconnect)
        BY <1>6, <2>1 DEF StartFailed
      <3>2. /\ ready' \in [Sockets -> {"closed", "connecting", "open", "closing"}]
            /\ token' = token /\ toDesk' = toDesk /\ toRelay' \in [Sockets -> Seq(ToRelay)]
        BY <3>1, Closing DEF TypeOK
      <3>3. retry' \in BOOLEAN
        BY <1>6, <3>1, ScheduleType DEF StartFailed, TypeOK, Config
      <3> QED BY <1>6, <1>a, <2>0, <3>1, <3>2, <3>3 DEF StartFailed, ClearConnectionState, TypeOK
    <2>2. CASE ~Current(a)
      BY <1>6, <2>0, <2>2 DEF StartFailed, TypeOK
    <2> QED BY <2>1, <2>2
  <1>7. ASSUME NEW s \in Sockets, Upgrade(s) PROVE TypeOK'
    <2>1. toRelay' \in [Sockets -> Seq(ToRelay)]
      BY <1>7, TailType DEF Upgrade, TypeOK
    <2>2. \A d \in Sockets : /\ Append(toDesk[d], "open") \in Seq(ToDesk)
                             /\ Append(toDesk[d], "displaced") \in Seq(ToDesk)
                             /\ Append(toDesk[d], "lost") \in Seq(ToDesk)
      BY DEF TypeOK, ToDesk
    <2>3. CASE ticket # None /\ token[s] = ticket
      <3>1. toDesk' \in [Sockets -> Seq(ToDesk)] /\ bridge' = s
        BY <1>7, <2>2, <2>3 DEF Upgrade, TypeOK
      <3> QED BY <1>7, <2>1, <3>1 DEF Upgrade, TypeOK
    <2>4. CASE ~(ticket # None /\ token[s] = ticket)
      <3>1. toDesk' \in [Sockets -> Seq(ToDesk)] /\ bridge' = bridge
        BY <1>7, <2>2, <2>4 DEF Upgrade, TypeOK
      <3> QED BY <1>7, <2>1, <3>1 DEF Upgrade, TypeOK
    <2> QED BY <2>3, <2>4
  <1>8. ASSUME NEW s \in Sockets, RelayCloses(s) PROVE TypeOK'
    <2>1. toRelay' \in [Sockets -> Seq(ToRelay)]
      BY <1>8, TailType DEF RelayCloses, TypeOK
    <2>2. Append(toDesk[s], "bye") \in Seq(ToDesk)
      BY DEF TypeOK, ToDesk
    <2>3. toDesk' \in [Sockets -> Seq(ToDesk)]
      BY <1>8, <2>2 DEF RelayCloses, TypeOK
    <2> QED BY <1>8, <2>1, <2>3 DEF RelayCloses, TypeOK
  <1>9. ASSUME NEW s \in Sockets, OnOpen(s) PROVE TypeOK'
    <2>1. toDesk' \in [Sockets -> Seq(ToDesk)]
      BY <1>9, ReceivedType DEF OnOpen
    <2>2. CASE ready[s] = "connecting"
      <3>1. rotation' \in BOOLEAN
        BY <1>9, <2>2, RotationType DEF OnOpen, TypeOK
      <3>2. ready' \in [Sockets -> {"closed", "connecting", "open", "closing"}]
        BY <1>9, <2>2 DEF OnOpen, TypeOK
      <3>3. token[s] \in MaybeTicket
        BY DEF TypeOK
      <3>4. connected' = TRUE /\ shown' = token[s] /\ refreshing' = FALSE
        BY <1>9, <2>2 DEF OnOpen
      <3>5. UNCHANGED <<desk, socket, pairing, retry, attempt, rotate, token, toRelay, relay, bounds>>
        BY <1>9 DEF OnOpen
      <3> QED BY <2>1, <3>1, <3>2, <3>3, <3>4, <3>5 DEF TypeOK
    <2>3. CASE ready[s] # "connecting"
      BY <1>9, <2>1, <2>3 DEF OnOpen, TypeOK
    <2> QED BY <2>2, <2>3
  <1>10. ASSUME NEW s \in Sockets, OnPaired(s) PROVE TypeOK'
    <2>1. toDesk' \in [Sockets -> Seq(ToDesk)]
      BY <1>10, ReceivedType DEF OnPaired
    <2>2. refreshing' \in BOOLEAN /\ rotate' \in [Rotations -> Rotate]
      BY <1>10, RotateType DEF OnPaired, TypeOK
    <2> QED BY <1>10, <2>1, <2>2 DEF OnPaired, TypeOK
  <1>11. ASSUME NEW s \in Sockets, OnClose(s) PROVE TypeOK'
    <2>1. toDesk' \in [Sockets -> Seq(ToDesk)]
      BY <1>11, ReceivedType DEF OnClose
    <2>2. token' \in [Sockets -> MaybeTicket]
          /\ ready' \in [Sockets -> {"closed", "connecting", "open", "closing"}]
      BY <1>11, <1>a DEF OnClose, TypeOK
    <2>3. CASE socket = s
      <3>1. retry' \in BOOLEAN
        BY <1>11, <2>3, ScheduleType DEF OnClose, TypeOK
      <3> QED BY <1>11, <1>a, <2>1, <2>2, <2>3, <3>1 DEF OnClose, ClearConnectionState, TypeOK
    <2>4. CASE socket # s
      BY <1>11, <2>1, <2>2, <2>4 DEF OnClose, TypeOK
    <2> QED BY <2>3, <2>4
  <1>12. ASSUME NEW s \in Sockets, SocketLost(s) PROVE TypeOK'
    <2>1. <<"lost">> \in Seq(ToDesk) /\ <<"gone">> \in Seq(ToRelay)
      BY DEF ToDesk, ToRelay
    <2> QED BY <1>12, <2>1 DEF SocketLost, Happens, TypeOK
  <1>13. ASSUME NEW r \in Rotations, RotateServed(r) PROVE TypeOK'
    <2>1. CASE ticket # None /\ rotate[r].held = ticket /\ bridge # None
      <3>1. ticket' \in MaybeTicket /\ used' \in BOOLEAN /\ FreshTicket \in MaybeTicket
        BY <1>13, <2>1, <1>a, IssueType DEF RotateServed
      <3>2. rotate' \in [Rotations -> Rotate]
        <4>1. rotate' = [rotate EXCEPT ![r].at = "answer", ![r].next = FreshTicket]
          BY <1>13, <2>1 DEF RotateServed
        <4>2. rotate[r] \in Rotate
          BY DEF TypeOK
        <4>3. [rotate[r] EXCEPT !.at = "answer", !.next = FreshTicket] \in Rotate
          BY <3>1, <4>2 DEF Rotate
        <4> QED BY <4>1, <4>3 DEF TypeOK
      <3> QED BY <1>13, <3>1, <3>2 DEF RotateServed, TypeOK
    <2>2. CASE ~(ticket # None /\ rotate[r].held = ticket /\ bridge # None)
      <3>1. rotate' \in [Rotations -> Rotate]
        <4>1. rotate' = [rotate EXCEPT ![r].at = "failed"]
          BY <1>13, <2>2 DEF RotateServed
        <4>2. rotate[r] \in Rotate
          BY DEF TypeOK
        <4>3. [rotate[r] EXCEPT !.at = "failed"] \in Rotate
          BY <4>2 DEF Rotate
        <4> QED BY <4>1, <4>3 DEF TypeOK
      <3> QED BY <1>13, <2>2, <3>1 DEF RotateServed, TypeOK
    <2> QED BY <2>1, <2>2
  <1>14. ASSUME NEW r \in Rotations, RotateAnswered(r) PROVE TypeOK'
    <2>1. rotate' \in [Rotations -> Rotate]
      BY <1>14, <1>0 DEF RotateAnswered, TypeOK
    <2>2. rotate[r].next \in MaybeTicket
      BY DEF TypeOK, Rotate
    <2>3. rotation' \in BOOLEAN
      BY <1>14, RotationType DEF RotateAnswered, TypeOK
    <2> QED BY <1>14, <2>1, <2>2, <2>3 DEF RotateAnswered, TypeOK
  <1>15. ASSUME NEW r \in Rotations, NEW expired \in BOOLEAN, RotateFailed(r, expired)
         PROVE  TypeOK'
    <2>1. rotate' \in [Rotations -> Rotate]
      BY <1>15, <1>0 DEF RotateFailed, TypeOK
    <2>2. CASE pairing # rotate[r].held
      BY <1>15, <2>1, <2>2 DEF RotateFailed, TypeOK
    <2>3. CASE pairing = rotate[r].held /\ expired
      <3>1. Close(rotate[r].sock) /\ rotate[r].sock \in Sockets \cup {None}
        BY <1>15, <2>3 DEF RotateFailed, TypeOK, Rotate
      <3>2. /\ ready' \in [Sockets -> {"closed", "connecting", "open", "closing"}]
            /\ token' = token /\ toDesk' = toDesk /\ toRelay' \in [Sockets -> Seq(ToRelay)]
        BY <3>1, Closing
      <3> QED BY <1>15, <2>1, <2>3, <3>2 DEF RotateFailed, TypeOK
    <2>4. CASE pairing = rotate[r].held /\ ~expired
      <3>1. rotation' \in BOOLEAN
        BY <1>15, <2>4, RotationType DEF RotateFailed, TypeOK
      <3> QED BY <1>15, <2>1, <2>4, <3>1 DEF RotateFailed, TypeOK
    <2> QED BY <2>2, <2>3, <2>4
  <1>16. CASE ConnectNow
    <2>0. Happens /\ events' \in Nat
      BY <1>16, CounterTypes DEF ConnectNow, Command
    <2>1. CASE connected \/ socket # None
      BY <1>16, <2>0, <2>1 DEF ConnectNow, TypeOK
    <2>2. CASE ~(connected \/ socket # None)
      <3>1. generation' \in Nat
        BY <1>16, <2>2, CounterTypes DEF ConnectNow
      <3>2. retry' \in BOOLEAN
        BY <1>16, <2>2, ScheduleType DEF ConnectNow, TypeOK
      <3> QED BY <1>16, <2>0, <3>1, <3>2 DEF ConnectNow, TypeOK
    <2> QED BY <2>1, <2>2
  <1>17. ASSUME Close(socket)
         PROVE  /\ ready' \in [Sockets -> {"closed", "connecting", "open", "closing"}]
                /\ token' = token /\ toDesk' = toDesk /\ toRelay' \in [Sockets -> Seq(ToRelay)]
    BY <1>17, Closing DEF TypeOK
  <1>18. CASE DisconnectNow
    <2>1. Close(socket) /\ generation' \in Nat /\ events' \in Nat
      BY <1>18, CounterTypes DEF DisconnectNow, Command
    <2> QED BY <1>18, <1>17, <1>a, <2>1 DEF DisconnectNow, ClearConnectionState, TypeOK
  <1>19. CASE Dispose
    <2>1. Close(socket) /\ generation' \in Nat /\ events' \in Nat
      BY <1>19, CounterTypes DEF Dispose, Command
    <2> QED BY <1>19, <1>17, <2>1 DEF Dispose, TypeOK
  <1>20. ASSUME NEW c \in Configs, ChangeSettings(c) PROVE TypeOK'
    <2>1. Close(socket) /\ c \in Config /\ c.connect \in BOOLEAN
      BY <1>20, BridgeAssumption DEF ChangeSettings, Config
    <2>2. retry' \in BOOLEAN
      BY <1>20, <2>1, ScheduleType DEF ChangeSettings, TypeOK
    <2>3. generation' \in Nat /\ events' \in Nat
      BY <1>20, CounterTypes DEF ChangeSettings, Command
    <2> QED BY <1>20, <1>17, <1>a, <2>1, <2>2, <2>3 DEF ChangeSettings, ClearConnectionState, TypeOK
  <1>21. CASE Pair
    <2>1. \A s \in Sockets : Append(toDesk[s], "paired") \in Seq(ToDesk)
      BY DEF TypeOK, ToDesk
    <2>2. toDesk' \in [Sockets -> Seq(ToDesk)]
      BY <1>21, <2>1 DEF Pair, TypeOK
    <2> QED BY <1>21, <2>2 DEF Pair, Happens, TypeOK
  <1>22. CASE TakeoverStart
    <2>1. ticket' \in MaybeTicket /\ used' \in BOOLEAN /\ FreshTicket \in MaybeTicket
      BY <1>22, <1>a, IssueType DEF TakeoverStart
    <2> QED BY <1>22, <2>1 DEF TakeoverStart, Happens, TypeOK
  <1>23. CASE TakeoverOpen
    <2>1. \A s \in Sockets : Append(toDesk[s], "displaced") \in Seq(ToDesk)
      BY DEF TypeOK, ToDesk
    <2>2. toDesk' \in [Sockets -> Seq(ToDesk)]
      BY <1>23, <2>1 DEF TakeoverOpen, TypeOK
    <2> QED BY <1>23, <1>a, <2>2 DEF TakeoverOpen, TypeOK
  <1>24. CASE RequestLost
    <2>1. attempt' \in [Attempts -> Attempt]
      <3>1. ASSUME NEW a \in Attempts
            PROVE  [attempt[a] EXCEPT !.at = "failed", !.ticket = None] \in Attempt
        <4>1. attempt[a] \in Attempt
          BY DEF TypeOK
        <4> QED BY <1>a, <4>1 DEF Attempt
      <3>2. \/ attempt' = attempt
            \/ \E a \in Attempts : attempt' = [attempt EXCEPT ![a].at = "failed", ![a].ticket = None]
        BY <1>24 DEF RequestLost
      <3> QED BY <3>1, <3>2 DEF TypeOK
    <2>2. rotate' \in [Rotations -> Rotate]
      <3>1. ASSUME NEW r \in Rotations
            PROVE  [rotate[r] EXCEPT !.at = "failed", !.next = None] \in Rotate
        <4>1. rotate[r] \in Rotate
          BY DEF TypeOK
        <4> QED BY <1>a, <4>1 DEF Rotate
      <3>2. \/ rotate' = rotate
            \/ \E r \in Rotations : rotate' = [rotate EXCEPT ![r].at = "failed", ![r].next = None]
        BY <1>24 DEF RequestLost
      <3> QED BY <3>1, <3>2 DEF TypeOK
    <2>3. events' \in Nat
      BY <1>24, CounterTypes DEF RequestLost
    <2> QED BY <1>24, <2>1, <2>2, <2>3 DEF RequestLost, TypeOK
  <1>25. CASE RelayRestarts
    <2>1. <<"lost">> \in Seq(ToDesk) /\ <<>> \in Seq(ToDesk) /\ <<>> \in Seq(ToRelay)
      BY DEF ToDesk
    <2>2. toDesk' \in [Sockets -> Seq(ToDesk)] /\ toRelay' \in [Sockets -> Seq(ToRelay)]
      BY <1>25, <2>1 DEF RelayRestarts
    <2>3. events' \in Nat
      BY <1>25, CounterTypes DEF RelayRestarts
    <2> QED BY <1>25, <1>a, <2>2, <2>3 DEF RelayRestarts, TypeOK
  <1>26. CASE UNCHANGED vars
    BY <1>26 DEF vars, TypeOK
  <1> QED
    BY <1>1, <1>2, <1>3, <1>4, <1>5, <1>6, <1>7, <1>8, <1>9, <1>10, <1>11, <1>12, <1>13, <1>14,
       <1>15, <1>16, <1>18, <1>19, <1>20, <1>21, <1>22, <1>23, <1>24, <1>25, <1>26 DEF Next

(* Every variable of the bridge keeps its type.                              *)
THEOREM BridgeTypeCorrect == Spec => []TypeOK
  <1> QED BY TypeInit, TypeNext, PTL DEF Spec

-----------------------------------------------------------------------------
(* One connection, step by step *)

LEMMA CoreInit == Init => Core
  <1> SUFFICES ASSUME Init PROVE Core
    OBVIOUS
  <1>1. \A a \in Attempts : InProgress(a) => conf.connect /\ a = CHOOSE b \in Attempts : TRUE
    BY DEF Init, InProgress, NoAttempt
  <1>2. \A a \in Attempts : attempt[a].gen = 0
    BY DEF Init, NoAttempt
  <1>3. OneConnection
    BY <1>1 DEF OneConnection, Live, InProgress, Init
  <1>4. StaysDown /\ KnowsSocket
    BY DEF StaysDown, KnowsSocket, Init
  <1>5. OldAttempts
    BY <1>1, <1>2 DEF OldAttempts, Init
  <1> QED BY <1>3, <1>4, <1>5 DEF Core

(* The retry timer fires only when nothing else is under way.                *)
LEMMA DialKeeps == TypeOK /\ Core /\ Dial => Core'
  <1> SUFFICES ASSUME TypeOK, Core, Dial PROVE Core'
    OBVIOUS
  <1> DEFINE n == Any(FreshAttempts)
  <1>0. /\ retry /\ retry' = FALSE /\ n \in Attempts
        /\ UNCHANGED <<requested, generation, displaced, ready, socket, connected>>
    BY AnyIsMember DEF Dial, FreshAttempts, desk, view, wire
  <1>1. ~displaced /\ \A a \in Attempts : ~Live(a)
    BY <1>0 DEF Core, OneConnection, StaysDown
  <1> HIDE DEF n
  <1>2. CASE disposed \/ ~requested \/ socket # None
    <2>1. UNCHANGED attempt
      BY <1>2 DEF Dial
    <2>2. \A a \in Attempts : ~Live(a)'
      BY <1>0, <1>1, <2>1 DEF Live, Current
    <2> QED BY <1>0, <1>1, <2>1, <2>2 DEF Core, OneConnection, StaysDown, OldAttempts, KnowsSocket,
                                            InProgress
  <1>3. CASE ~(disposed \/ ~requested \/ socket # None)
    <2>1. attempt' = [attempt EXCEPT ![n] = [at |-> "start", gen |-> generation, ticket |-> None]]
      BY <1>3 DEF Dial, n
    <2>2. \A a \in Attempts : a # n => attempt'[a] = attempt[a]
      BY <1>0, <2>1 DEF TypeOK
    <2>3. attempt'[n].gen = generation
      BY <1>0, <2>1 DEF TypeOK
    <2>4. \A a \in Attempts : Live(a)' => a = n
      BY <1>0, <1>1, <2>2 DEF Live, Current
    <2>5. OneConnection'
      BY <1>0, <1>3, <2>4 DEF Core, OneConnection
    <2>6. StaysDown' /\ KnowsSocket'
      BY <1>0, <1>1 DEF Core, StaysDown, KnowsSocket
    <2>7. generation \in Nat
      BY DEF TypeOK
    <2>8. OldAttempts'
      BY <1>0, <1>3, <2>2, <2>3, <2>7 DEF Core, OldAttempts, InProgress
    <2> QED BY <2>5, <2>6, <2>8 DEF Core
  <1> QED BY <1>2, <1>3

(* A live attempt becomes the socket; an old one gives up.                    *)
LEMMA KeyDerivedKeeps ==
  ASSUME TypeOK, Core, NEW a \in Attempts, KeyDerived(a)
  PROVE  Core'
  <1>0. /\ attempt' = [attempt EXCEPT ![a] = NoAttempt]
        /\ UNCHANGED <<requested, generation, retry, connected, displaced>>
        /\ attempt[a].at = "deriving"
    BY DEF KeyDerived, desk, bounds
  <1>1. \A b \in Attempts : InProgress(b)' => b # a /\ InProgress(b) /\ attempt'[b] = attempt[b]
    BY <1>0 DEF InProgress, NoAttempt, TypeOK
  <1>2. CASE Current(a)
    <2> DEFINE n == Any(FreshSockets)
    <2>1. n \in Sockets /\ socket' = n /\ ready' = [ready EXCEPT ![n] = "connecting"]
      BY <1>2, AnyIsMember DEF KeyDerived, FreshSockets
    <2> HIDE DEF n
    <2>2. Live(a)
      BY <1>0, <1>2 DEF Live
    <2>3. socket = None /\ ~retry /\ ~displaced
      BY <2>2 DEF Core, OneConnection, StaysDown
    <2>4. \A b \in Attempts : ~Live(b)'
      BY <1>0, <1>1, <2>2 DEF Core, OneConnection, Live, Current, InProgress
    <2>5. \A s \in Sockets : ~Unclosed(s)
      BY <2>3, BridgeAssumption DEF Core, OneConnection, Unclosed
    <2>6. \A s \in Sockets : Unclosed(s)' => s = n
      BY <2>1, <2>5 DEF Unclosed, TypeOK
    <2>7. OneConnection'
      BY <1>0, <2>1, <2>3, <2>4, <2>6 DEF OneConnection, Unclosed
    <2>8. StaysDown'
      BY <1>0, <2>3 DEF StaysDown
    <2>9. OldAttempts'
      BY <1>0, <1>1 DEF Core, OldAttempts
    <2>10. n # None
      BY <2>1, BridgeAssumption
    <2>11. KnowsSocket'
      BY <2>1, <2>10 DEF KnowsSocket
    <2> QED BY <2>7, <2>8, <2>9, <2>11 DEF Core
  <1>3. CASE ~Current(a)
    <2>1. UNCHANGED <<socket, ready>>
      BY <1>3 DEF KeyDerived, wire
    <2>2. \A s \in Sockets : Unclosed(s)' => Unclosed(s)
      BY <2>1 DEF Unclosed
    <2> QED BY <1>0, <1>1, <2>1, <2>2, Undisturbed
  <1> QED BY <1>2, <1>3

(* The connection is gone and at most the retry timer takes its place.       *)
LEMMA DroppedKeeps ==
  ASSUME Core, UNCHANGED <<requested, generation>>, ClearConnectionState,
         \A s \in Sockets : ~Unclosed(s)',
         \A a \in Attempts : ~Live(a)',
         \A a \in Attempts : InProgress(a)' => InProgress(a) /\ attempt'[a].gen = attempt[a].gen,
         displaced' => ~retry'
  PROVE  Core'
  <1>1. OneConnection' /\ StaysDown' /\ KnowsSocket'
    BY DEF OneConnection, StaysDown, KnowsSocket, ClearConnectionState, Unclosed
  <1>2. OldAttempts'
    BY DEF Core, OldAttempts
  <1> QED BY <1>1, <1>2 DEF Core

LEMMA StartFailedKeeps ==
  ASSUME TypeOK, Core, NEW a \in Attempts, StartFailed(a)
  PROVE  Core'
  <1>0. /\ attempt' = [attempt EXCEPT ![a] = NoAttempt]
        /\ UNCHANGED <<requested, generation, displaced>>
        /\ attempt[a].at = "failed"
    BY DEF StartFailed, desk
  <1>1. \A b \in Attempts : InProgress(b)' => b # a /\ InProgress(b) /\ attempt'[b] = attempt[b]
    BY <1>0 DEF InProgress, NoAttempt, TypeOK
  <1>2. CASE Current(a)
    <2>1. Live(a)
      BY <1>0, <1>2 DEF Live
    <2>2. socket = None /\ ~displaced
      BY <2>1 DEF Core, OneConnection, StaysDown
    <2>3. ClearConnectionState /\ Close(socket)
      BY <1>2 DEF StartFailed
    <2>4. \A s \in Sockets : ~Unclosed(s)'
      <3>1. \A s \in Sockets : Unclosed(s)' => Unclosed(s)
        BY <2>3, Closing DEF TypeOK
      <3> QED BY <2>2, <3>1, BridgeAssumption DEF Core, OneConnection, Unclosed
    <2>5. \A b \in Attempts : ~Live(b)'
      BY <1>0, <1>1, <2>1 DEF Core, OneConnection, Live, Current, InProgress
    <2> QED BY <1>0, <1>1, <2>2, <2>3, <2>4, <2>5, DroppedKeeps
  <1>3. CASE ~Current(a)
    <2>1. UNCHANGED <<socket, connected, retry, ready>>
      BY <1>3 DEF StartFailed, wire, view
    <2>2. \A s \in Sockets : Unclosed(s)' => Unclosed(s)
      BY <2>1 DEF Unclosed
    <2> QED BY <1>0, <1>1, <2>1, <2>2, Undisturbed
  <1> QED BY <1>2, <1>3

LEMMA OnOpenKeeps ==
  ASSUME TypeOK, Core, NEW s \in Sockets, OnOpen(s)
  PROVE  Core'
  <1>0. UNCHANGED <<requested, generation, displaced, socket, retry, attempt>>
    BY DEF OnOpen, desk
  <1>1. CASE ready[s] = "connecting"
    <2>1. ready' = [ready EXCEPT ![s] = "open"]
      BY <1>1 DEF OnOpen
    <2>2. s = socket /\ s # None
      BY <1>1, BridgeAssumption DEF Core, OneConnection
    <2>3. \A d \in Sockets : Unclosed(d)' => d = socket
      BY <2>1, <2>2 DEF Core, OneConnection, Unclosed, TypeOK
    <2>4. \A a \in Attempts : Live(a)' <=> Live(a)
      BY <1>0 DEF Live, Current
    <2>5. OneConnection' /\ StaysDown'
      BY <1>0, <2>3, <2>4 DEF Core, OneConnection, StaysDown, Unclosed
    <2>6. OldAttempts' /\ KnowsSocket'
      BY <1>0, <2>2 DEF Core, OldAttempts, KnowsSocket, InProgress
    <2> QED BY <2>5, <2>6 DEF Core
  <1>2. CASE ready[s] # "connecting"
    <2>1. UNCHANGED <<ready, connected>>
      BY <1>2 DEF OnOpen
    <2>2. \A d \in Sockets : Unclosed(d)' => Unclosed(d)
      BY <2>1 DEF Unclosed
    <2> QED BY <1>0, <2>1, <2>2, Undisturbed DEF InProgress
  <1> QED BY <1>1, <1>2

(* The current socket's close leaves nothing, or a retry if the desktop was  *)
(* not displaced; another socket's close event changes nothing.              *)
LEMMA OnCloseKeeps ==
  ASSUME TypeOK, Core, NEW s \in Sockets, OnClose(s)
  PROVE  Core'
  <1>0. UNCHANGED <<requested, generation, attempt>> /\ ready' = [ready EXCEPT ![s] = "closed"]
    BY DEF OnClose, desk
  <1>1. \A d \in Sockets : Unclosed(d)' => Unclosed(d) /\ d # s
    BY <1>0 DEF Unclosed, TypeOK
  <1>2. CASE socket = s
    <2>1. ClearConnectionState /\ displaced' = (Head(toDesk[s]) = "displaced")
      BY <1>2 DEF OnClose
    <2>2. s # None
      BY BridgeAssumption
    <2>3. \A a \in Attempts : ~Live(a)'
      BY <1>0, <1>2, <2>2 DEF Core, OneConnection, Live, Current
    <2>4. \A d \in Sockets : ~Unclosed(d)'
      BY <1>1, <1>2 DEF Core, OneConnection, Unclosed
    <2>5. displaced' => ~retry'
      <3>1. ASSUME displaced' PROVE ~retry'
        <4>1. ~Reconnects(Head(toDesk[s]))
          BY <2>1, <3>1 DEF Reconnects
        <4>2. UNCHANGED retry
          BY <1>2, <4>1 DEF OnClose
        <4> QED BY <1>2, <2>2, <4>2 DEF Core, OneConnection
      <3> QED BY <3>1
    <2>6. \A a \in Attempts : InProgress(a)' => InProgress(a) /\ attempt'[a].gen = attempt[a].gen
      BY <1>0 DEF InProgress
    <2> QED BY <1>0, <2>1, <2>3, <2>4, <2>5, <2>6, DroppedKeeps
  <1>3. CASE socket # s
    <2>1. UNCHANGED <<socket, connected, retry, displaced>>
      BY <1>3 DEF OnClose, desk, view
    <2> QED BY <1>0, <1>1, <2>1, Undisturbed DEF InProgress
  <1> QED BY <1>2, <1>3

(* The commands *)
LEMMA ConnectNowKeeps == TypeOK /\ Core /\ ConnectNow => Core'
  <1> SUFFICES ASSUME TypeOK, Core, ConnectNow PROVE Core'
    OBVIOUS
  <1>0. /\ requested' = TRUE /\ displaced' = FALSE
        /\ UNCHANGED <<socket, connected, ready, attempt>>
    BY DEF ConnectNow, view, wire
  <1>1. CASE connected \/ socket # None
    <2>1. socket # None /\ UNCHANGED <<generation, retry>>
      BY <1>1 DEF ConnectNow, Core, KnowsSocket
    <2>2. \A a \in Attempts : ~Live(a)'
      <3>1. ASSUME NEW a \in Attempts, Live(a)' PROVE FALSE
        <4>1. InProgress(a) /\ attempt[a].gen = generation /\ generation \in Nat
          BY <1>0, <2>1, <3>1 DEF Live, Current, InProgress, TypeOK
        <4>2. CASE requested
          BY <2>1, <4>1, <4>2 DEF Core, OneConnection, Live, Current, InProgress
        <4>3. CASE ~requested
          <5>1. attempt[a].gen < generation
            BY <4>1, <4>3 DEF Core, OldAttempts
          <5> QED BY <4>1, <5>1
        <4> QED BY <4>2, <4>3
      <3> QED BY <3>1
    <2>3. OneConnection' /\ StaysDown' /\ KnowsSocket'
      BY <1>0, <2>1, <2>2 DEF Core, OneConnection, StaysDown, KnowsSocket
    <2>4. OldAttempts'
      BY <1>0, <2>1 DEF Core, OldAttempts, InProgress
    <2> QED BY <2>3, <2>4 DEF Core
  <1>2. CASE ~(connected \/ socket # None)
    <2>1. Supersede
      BY <1>2 DEF ConnectNow
    <2>2. \A s \in Sockets : Unclosed(s)' => s = socket'
      BY <1>0 DEF Core, OneConnection, Unclosed
    <2> QED BY <1>0, <1>2, <2>1, <2>2, Superseding
  <1> QED BY <1>1, <1>2

LEMMA DisconnectNowKeeps == TypeOK /\ Core /\ DisconnectNow => Core'
  <1> SUFFICES ASSUME TypeOK, Core, DisconnectNow PROVE Core'
    OBVIOUS
  <1>1. /\ Supersede /\ UNCHANGED attempt /\ requested' = FALSE /\ displaced' = FALSE
        /\ retry' = FALSE /\ socket' = None /\ connected' = FALSE /\ Close(socket)
    BY DEF DisconnectNow, ClearConnectionState
  <1>2. \A s \in Sockets : Unclosed(s)' => s = socket'
    BY <1>1, Closing DEF Core, OneConnection, Unclosed, TypeOK
  <1> QED BY <1>1, <1>2, Superseding

LEMMA ChangeSettingsKeeps ==
  ASSUME TypeOK, Core, NEW c \in Configs, ChangeSettings(c)
  PROVE  Core'
  <1>1. /\ Supersede /\ UNCHANGED attempt /\ requested' = c.connect /\ displaced' = FALSE
        /\ socket' = None /\ connected' = FALSE /\ Close(socket)
    BY DEF ChangeSettings, ClearConnectionState
  <1>2. requested' \in BOOLEAN
    BY <1>1, BridgeAssumption DEF Config
  <1>3. \A s \in Sockets : Unclosed(s)' => s = socket'
    BY <1>1, Closing DEF Core, OneConnection, Unclosed, TypeOK
  <1> QED BY <1>1, <1>2, <1>3, Superseding

LEMMA DisposeKeeps == TypeOK /\ Core /\ Dispose => Core'
  <1> SUFFICES ASSUME TypeOK, Core, Dispose PROVE Core'
    OBVIOUS
  <1>1. /\ Supersede /\ UNCHANGED <<attempt, displaced, socket, connected>> /\ requested' = FALSE
        /\ retry' = FALSE /\ Close(socket)
    BY DEF Dispose
  <1>2. \A s \in Sockets : Unclosed(s)' => s = socket'
    BY <1>1, Closing DEF Core, OneConnection, Unclosed, TypeOK
  <1>3. connected' => socket' # None
    BY <1>1 DEF Core, KnowsSocket
  <1>4. displaced' => socket' = None /\ ~retry'
    BY <1>1 DEF Core, StaysDown
  <1> QED BY <1>1, <1>2, <1>3, <1>4, Superseding

(* The steps that only answer, replace the ticket or lose something *)
LEMMA QuietKeeps ==
  ASSUME TypeOK, Core,
         UNCHANGED <<requested, generation, retry, socket, connected, displaced, attempt, ready>>
  PROVE  Core'
  <1>1. \A s \in Sockets : Unclosed(s)' => Unclosed(s)
    BY DEF Unclosed
  <1> QED BY <1>1, Undisturbed DEF InProgress

LEMMA CoreNext == TypeOK /\ Core /\ [Next]_vars => Core'
  <1> SUFFICES ASSUME TypeOK, Core, [Next]_vars PROVE Core'
    OBVIOUS
  <1> USE DEF desk, view, wire, relay, bounds
  <1>1. CASE Dial
    BY <1>1, DialKeeps
  <1>2. CASE RotateTimer
    BY <1>2, QuietKeeps DEF RotateTimer
  <1>3. ASSUME NEW a \in Attempts, StartServed(a) PROVE Core'
    <2>1. \A b \in Attempts : InProgress(b)' => InProgress(b) /\ attempt'[b].gen = attempt[b].gen
      BY <1>3 DEF StartServed, InProgress, TypeOK, Attempt
    <2>2. UNCHANGED <<requested, generation, retry, socket, connected, displaced, ready>>
      BY <1>3 DEF StartServed
    <2> QED BY <2>1, <2>2, Undisturbed DEF Unclosed
  <1>4. ASSUME NEW a \in Attempts, StartAnswered(a) PROVE Core'
    <2>1. \A b \in Attempts : InProgress(b)' => InProgress(b) /\ attempt'[b].gen = attempt[b].gen
      <3>1. \/ attempt' = [attempt EXCEPT ![a].at = "deriving"]
            \/ attempt' = [attempt EXCEPT ![a] = NoAttempt]
        BY <1>4 DEF StartAnswered
      <3>2. \A b \in Attempts : b # a => attempt'[b] = attempt[b]
        BY <3>1 DEF TypeOK
      <3>3. InProgress(a) /\ attempt[a] \in Attempt
        BY <1>4 DEF StartAnswered, InProgress, TypeOK
      <3>4. CASE attempt' = [attempt EXCEPT ![a].at = "deriving"]
        <4>1. attempt'[a].gen = attempt[a].gen
          BY <3>3, <3>4 DEF TypeOK, Attempt
        <4> QED BY <3>2, <3>3, <4>1 DEF InProgress
      <3>5. CASE attempt' = [attempt EXCEPT ![a] = NoAttempt]
        <4>1. ~InProgress(a)'
          BY <3>5 DEF InProgress, NoAttempt, TypeOK
        <4> QED BY <3>2, <4>1 DEF InProgress
      <3> QED BY <3>1, <3>4, <3>5
    <2>2. UNCHANGED <<requested, generation, retry, socket, connected, displaced, ready>>
      BY <1>4 DEF StartAnswered
    <2> QED BY <2>1, <2>2, Undisturbed DEF Unclosed
  <1>5. ASSUME NEW a \in Attempts, KeyDerived(a) PROVE Core'
    BY <1>5, KeyDerivedKeeps
  <1>6. ASSUME NEW a \in Attempts, StartFailed(a) PROVE Core'
    BY <1>6, StartFailedKeeps
  <1>7. ASSUME NEW s \in Sockets, Upgrade(s) PROVE Core'
    BY <1>7, QuietKeeps DEF Upgrade
  <1>8. ASSUME NEW s \in Sockets, RelayCloses(s) PROVE Core'
    BY <1>8, QuietKeeps DEF RelayCloses
  <1>9. ASSUME NEW s \in Sockets, OnOpen(s) PROVE Core'
    BY <1>9, OnOpenKeeps
  <1>10. ASSUME NEW s \in Sockets, OnPaired(s) PROVE Core'
    BY <1>10, QuietKeeps DEF OnPaired
  <1>11. ASSUME NEW s \in Sockets, OnClose(s) PROVE Core'
    BY <1>11, OnCloseKeeps
  <1>12. ASSUME NEW s \in Sockets, SocketLost(s) PROVE Core'
    BY <1>12, QuietKeeps DEF SocketLost
  <1>13. ASSUME NEW r \in Rotations, RotateServed(r) PROVE Core'
    BY <1>13, QuietKeeps DEF RotateServed
  <1>14. ASSUME NEW r \in Rotations, RotateAnswered(r) PROVE Core'
    BY <1>14, QuietKeeps DEF RotateAnswered
  <1>15. ASSUME NEW r \in Rotations, NEW expired \in BOOLEAN, RotateFailed(r, expired)
         PROVE  Core'
    <2>1. UNCHANGED <<requested, generation, retry, socket, connected, displaced, attempt>>
      BY <1>15 DEF RotateFailed
    <2>2. \/ UNCHANGED wire
          \/ Close(rotate[r].sock)
      BY <1>15 DEF RotateFailed
    <2>3. rotate[r].sock \in Sockets \cup {None}
      BY DEF TypeOK, Rotate
    <2>4. CASE UNCHANGED wire
      BY <2>1, <2>4, QuietKeeps
    <2>5. CASE Close(rotate[r].sock)
      <3>1. \A d \in Sockets : Unclosed(d)' => Unclosed(d)
        BY <2>3, <2>5, Closing
      <3> QED BY <2>1, <3>1, Undisturbed DEF InProgress
    <2> QED BY <2>2, <2>4, <2>5
  <1>16. CASE ConnectNow
    BY <1>16, ConnectNowKeeps
  <1>17. CASE DisconnectNow
    BY <1>17, DisconnectNowKeeps
  <1>18. CASE Dispose
    BY <1>18, DisposeKeeps
  <1>19. ASSUME NEW c \in Configs, ChangeSettings(c) PROVE Core'
    BY <1>19, ChangeSettingsKeeps
  <1>20. CASE Pair
    BY <1>20, QuietKeeps DEF Pair
  <1>21. CASE TakeoverStart
    BY <1>21, QuietKeeps DEF TakeoverStart
  <1>22. CASE TakeoverOpen
    BY <1>22, QuietKeeps DEF TakeoverOpen
  <1>23. CASE RequestLost
    <2>1. UNCHANGED <<requested, generation, retry, socket, connected, displaced, ready>>
      BY <1>23 DEF RequestLost
    <2>2. \A b \in Attempts : InProgress(b)' => InProgress(b) /\ attempt'[b].gen = attempt[b].gen
      <3>1. CASE attempt' = attempt
        BY <3>1 DEF InProgress
      <3>2. ASSUME NEW a \in Attempts, attempt[a].at \in {"start", "answer"},
                   attempt' = [attempt EXCEPT ![a].at = "failed", ![a].ticket = None]
            PROVE  \A b \in Attempts : InProgress(b)' => InProgress(b) /\ attempt'[b].gen = attempt[b].gen
        BY <3>2 DEF InProgress, TypeOK, Attempt
      <3> QED BY <1>23, <3>1, <3>2 DEF RequestLost
    <2> QED BY <2>1, <2>2, Undisturbed DEF Unclosed
  <1>24. CASE RelayRestarts
    BY <1>24, QuietKeeps DEF RelayRestarts
  <1>25. CASE UNCHANGED vars
    BY <1>25, QuietKeeps DEF vars
  <1> QED
    BY <1>1, <1>2, <1>3, <1>4, <1>5, <1>6, <1>7, <1>8, <1>9, <1>10, <1>11, <1>12, <1>13, <1>14,
       <1>15, <1>16, <1>17, <1>18, <1>19, <1>20, <1>21, <1>22, <1>23, <1>24, <1>25 DEF Next

LEMMA CoreInvariant == Spec => []Core
  <1>1. Init => BInv
    BY TypeInit, CoreInit DEF BInv
  <1>2. BInv /\ [Next]_vars => BInv'
    BY TypeNext, CoreNext DEF BInv
  <1>3. BInv => Core
    BY DEF BInv
  <1> QED BY <1>1, <1>2, <1>3, PTL DEF Spec

(* An abandoned attempt never leaves a second connection behind, however     *)
(* commands, settings, failures and timers interleave (index.ts:366-369,     *)
(* 532-539, 687-806).                                                        *)
THEOREM BridgeOneConnection == Spec => []OneConnection
  <1>1. Core => OneConnection
    BY DEF Core
  <1> QED BY <1>1, CoreInvariant, PTL

(* Only a command brings a desktop back that another instance has displaced  *)
(* (index.ts:773-775).                                                       *)
THEOREM BridgeStaysDown == Spec => []StaysDown
  <1>1. Core => StaysDown
    BY DEF Core
  <1> QED BY <1>1, CoreInvariant, PTL

-----------------------------------------------------------------------------
(* The ticket *)

Rotating(r) == rotate[r].at # "none"
Replaced(r) == rotate[r].at = "answer"
HasTicket(a) == Live(a) /\ attempt[a].at \in {"answer", "deriving"}

(* The ticket an attempt was given is nobody else's, and from the answer on  *)
(* it is the one the desktop holds.                                          *)
AttemptTickets ==
    \A a \in Attempts : HasTicket(a) =>
        /\ attempt[a].ticket # None
        /\ attempt[a].at = "deriving" => pairing = attempt[a].ticket
        /\ \A r \in Rotations : /\ Rotating(r) => rotate[r].held # attempt[a].ticket
                                /\ Replaced(r) => rotate[r].next # attempt[a].ticket

(* A rotation of the ticket the desktop holds is about its socket.           *)
HeldTickets ==
    \A r \in Rotations : Rotating(r) =>
        /\ rotate[r].held # None
        /\ rotate[r].held = pairing => rotate[r].sock = socket

(* The ticket a rotation brings is new to everybody.                         *)
NextTickets ==
    \A r \in Rotations : Replaced(r) =>
        /\ rotate[r].next \notin {None, pairing}
        /\ \A q \in Rotations : /\ Rotating(q) => rotate[q].held # rotate[r].next
                                /\ Replaced(q) /\ q # r => rotate[q].next # rotate[r].next

(* A socket connects with the ticket the desktop holds, and no rotation of   *)
(* it is under way yet.                                                      *)
SocketTickets ==
    \A s \in Sockets : ready[s] = "connecting" =>
        /\ token[s] = pairing /\ pairing # None
        /\ \A r \in Rotations : Rotating(r) => rotate[r].held # pairing

ConnectedSocket == connected => ready[socket] \in {"open", "closing"}

TicketInv ==
    /\ AttemptTickets /\ HeldTickets /\ NextTickets /\ SocketTickets
    /\ ConnectedSocket /\ TicketIsTended

LEMMA TicketInit == Init => TicketInv
  <1> SUFFICES ASSUME Init PROVE TicketInv
    OBVIOUS
  <1>1. AttemptTickets
    BY DEF Init, AttemptTickets, HasTicket, NoAttempt
  <1>2. HeldTickets /\ NextTickets
    BY DEF Init, HeldTickets, NextTickets, Rotating, Replaced, NoRotate
  <1>3. SocketTickets /\ ConnectedSocket /\ TicketIsTended
    BY DEF Init, SocketTickets, ConnectedSocket, TicketIsTended
  <1> QED BY <1>1, <1>2, <1>3 DEF TicketInv

(* A step that leaves the tickets alone, and with them rotations, the        *)
(* connection and its timer.                                                 *)
LEMMA TicketsAlone ==
  ASSUME TypeOK, Core, TicketInv,
         UNCHANGED <<pairing, shown, rotate, socket, connected>>,
         ~disposed' => ~disposed /\ rotation' = rotation,
         \A a \in Attempts : HasTicket(a)' => HasTicket(a) /\ attempt'[a] = attempt[a],
         \A s \in Sockets : /\ ready'[s] = "connecting" => ready[s] = "connecting" /\ token'[s] = token[s]
                            /\ s = socket /\ ready[s] = "open" => ready'[s] \in {"open", "closing"}
                            /\ s = socket /\ ready[s] = "closing" => ready'[s] = "closing"
  PROVE  TicketInv'
  <1>1. \A r \in Rotations : (Rotating(r)' <=> Rotating(r)) /\ (Replaced(r)' <=> Replaced(r))
    BY DEF Rotating, Replaced
  <1>2. AttemptTickets'
    BY <1>1 DEF TicketInv, AttemptTickets
  <1>3. HeldTickets' /\ NextTickets' /\ SocketTickets'
    BY <1>1 DEF TicketInv, HeldTickets, NextTickets, SocketTickets
  <1>4. connected => socket \in Sockets
    BY DEF TypeOK, Core, KnowsSocket
  <1>5. ConnectedSocket'
    BY <1>4 DEF TicketInv, ConnectedSocket
  <1>6. TicketIsTended'
    BY <1>1, <1>4 DEF TicketInv, TicketIsTended, Rotating
  <1> QED BY <1>2, <1>3, <1>5, <1>6 DEF TicketInv

(* The connection and its ticket are gone. *)
LEMMA TicketsDropped ==
  ASSUME TicketInv, UNCHANGED rotate, pairing' = None, connected' = FALSE,
         \A s \in Sockets : ~Unclosed(s)', \A a \in Attempts : ~Live(a)'
  PROVE  TicketInv'
  <1>1. \A r \in Rotations : (Rotating(r)' <=> Rotating(r)) /\ (Replaced(r)' <=> Replaced(r))
    BY DEF Rotating, Replaced
  <1>2. AttemptTickets' /\ SocketTickets' /\ ConnectedSocket' /\ TicketIsTended'
    BY DEF AttemptTickets, HasTicket, SocketTickets, Unclosed, ConnectedSocket, TicketIsTended
  <1>3. HeldTickets' /\ NextTickets'
    BY <1>1 DEF TicketInv, HeldTickets, NextTickets
  <1> QED BY <1>2, <1>3 DEF TicketInv

(* A ticket just issued is nobody's.                                         *)
LEMMA IssuedIsFresh ==
  ASSUME IssueTicket
  PROVE  /\ FreshTicket \in Tickets /\ FreshTicket # None /\ FreshTicket # pairing
         /\ \A a \in Attempts : attempt[a].ticket # FreshTicket
         /\ \A r \in Rotations : FreshTicket \notin {rotate[r].held, rotate[r].next}
  <1>1. FreshTicket \in FreshTickets
    BY AnyIsMember DEF IssueTicket, FreshTicket
  <1> QED BY <1>1, BridgeAssumption DEF FreshTickets

(* A live attempt has neither a socket nor a connection.                     *)
LEMMA LiveIsAlone ==
  ASSUME Core, NEW a \in Attempts, Live(a)
  PROVE  /\ socket = None /\ ~connected
         /\ \A s \in Sockets : ~Unclosed(s)
         /\ \A b \in Attempts : Live(b) => b = a
  BY BridgeAssumption DEF Core, OneConnection, KnowsSocket, Unclosed

LEMMA StartServedTickets ==
  ASSUME TypeOK, Core, TicketInv, NEW a \in Attempts, StartServed(a)
  PROVE  TicketInv'
  <1>1. PICK t : t = FreshTicket
    OBVIOUS
  <1>2. /\ attempt' = [attempt EXCEPT ![a].at = "answer", ![a].ticket = t] /\ IssueTicket
        /\ UNCHANGED <<desk, view, rotate, wire>> /\ attempt[a].at = "start"
    BY <1>1 DEF StartServed
  <1>3. t # None /\ \A r \in Rotations : t \notin {rotate[r].held, rotate[r].next}
    BY <1>1, <1>2, IssuedIsFresh
  <1>4. /\ attempt'[a].at = "answer" /\ attempt'[a].ticket = t
        /\ \A b \in Attempts : b # a => attempt'[b] = attempt[b]
    BY <1>2 DEF TypeOK, Attempt
  <1>5. \A b \in Attempts : b # a => (HasTicket(b)' <=> HasTicket(b))
    BY <1>2, <1>4 DEF HasTicket, Live, Current, desk
  <1>6. AttemptTickets'
    <2>1. \A r \in Rotations : (Rotating(r)' <=> Rotating(r)) /\ (Replaced(r)' <=> Replaced(r))
      BY <1>2 DEF Rotating, Replaced
    <2>2. ASSUME NEW b \in Attempts, HasTicket(b)'
          PROVE  /\ attempt'[b].ticket # None
                 /\ attempt'[b].at = "deriving" => pairing' = attempt'[b].ticket
                 /\ \A r \in Rotations : /\ Rotating(r)' => rotate'[r].held # attempt'[b].ticket
                                         /\ Replaced(r)' => rotate'[r].next # attempt'[b].ticket
      <3>1. CASE b = a
        BY <1>2, <1>3, <1>4, <3>1 DEF view
      <3>2. CASE b # a
        BY <1>2, <1>4, <1>5, <2>1, <2>2, <3>2 DEF TicketInv, AttemptTickets, view
      <3> QED BY <3>1, <3>2
    <2> QED BY <2>2 DEF AttemptTickets
  <1>7. HeldTickets' /\ NextTickets' /\ SocketTickets' /\ ConnectedSocket' /\ TicketIsTended'
    BY <1>2 DEF TicketInv, HeldTickets, NextTickets, SocketTickets, ConnectedSocket, TicketIsTended,
                Rotating, Replaced, view, wire, desk
  <1> QED BY <1>6, <1>7 DEF TicketInv

LEMMA StartAnsweredTickets ==
  ASSUME TypeOK, Core, TicketInv, NEW a \in Attempts, StartAnswered(a)
  PROVE  TicketInv'
  <1>1. /\ attempt[a].at = "answer"
        /\ UNCHANGED <<desk, socket, connected, rotation, rotate, wire>>
    BY DEF StartAnswered
  <1>2. CASE Current(a)
    <2>1. /\ attempt' = [attempt EXCEPT ![a].at = "deriving"]
          /\ pairing' = attempt[a].ticket
      BY <1>2 DEF StartAnswered
    <2>2. HasTicket(a) /\ Live(a)
      BY <1>1, <1>2 DEF HasTicket, Live
    <2>3. /\ attempt'[a].at = "deriving" /\ attempt'[a].ticket = attempt[a].ticket
          /\ \A b \in Attempts : b # a => attempt'[b] = attempt[b]
      BY <2>1 DEF TypeOK, Attempt
    <2>4. \A b \in Attempts : b # a => ~HasTicket(b)'
      <3>1. \A b \in Attempts : b # a => ~Live(b)
        BY <2>2, LiveIsAlone
      <3> QED BY <1>1, <2>3, <3>1 DEF HasTicket, Live, Current, desk
    <2>5. \A r \in Rotations : (Rotating(r)' <=> Rotating(r)) /\ (Replaced(r)' <=> Replaced(r))
      BY <1>1 DEF Rotating, Replaced
    <2>6. /\ attempt[a].ticket # None
          /\ \A r \in Rotations : /\ Rotating(r) => rotate[r].held # attempt[a].ticket
                                  /\ Replaced(r) => rotate[r].next # attempt[a].ticket
      BY <2>2 DEF TicketInv, AttemptTickets
    <2>7. AttemptTickets'
      BY <1>1, <2>1, <2>3, <2>4, <2>5, <2>6 DEF AttemptTickets
    <2>8. HeldTickets' /\ NextTickets'
      BY <1>1, <2>1, <2>5, <2>6 DEF TicketInv, HeldTickets, NextTickets
    <2>9. SocketTickets' /\ ConnectedSocket' /\ TicketIsTended'
      BY <1>1, <2>2, LiveIsAlone DEF SocketTickets, ConnectedSocket, TicketIsTended, Unclosed, wire
    <2> QED BY <2>7, <2>8, <2>9 DEF TicketInv
  <1>3. CASE ~Current(a)
    <2>1. attempt' = [attempt EXCEPT ![a] = NoAttempt] /\ UNCHANGED <<pairing, shown>>
      BY <1>3 DEF StartAnswered
    <2>2. \A b \in Attempts : HasTicket(b)' => HasTicket(b) /\ attempt'[b] = attempt[b]
      BY <1>1, <2>1 DEF HasTicket, Live, Current, NoAttempt, TypeOK, desk
    <2> QED BY <1>1, <2>1, <2>2, TicketsAlone DEF desk, wire
  <1> QED BY <1>2, <1>3

LEMMA KeyDerivedTickets ==
  ASSUME TypeOK, Core, TicketInv, NEW a \in Attempts, KeyDerived(a)
  PROVE  TicketInv'
  <1>1. /\ attempt[a].at = "deriving" /\ attempt' = [attempt EXCEPT ![a] = NoAttempt]
        /\ UNCHANGED <<desk, connected, pairing, shown, rotation, rotate>>
    BY DEF KeyDerived
  <1>2. \A b \in Attempts : HasTicket(b)' => b # a /\ HasTicket(b) /\ attempt'[b] = attempt[b]
    BY <1>1 DEF HasTicket, Live, Current, NoAttempt, TypeOK, desk
  <1>3. CASE Current(a)
    <2>1. PICK n : n = Any(FreshSockets)
      OBVIOUS
    <2>2. n \in Sockets
      BY <2>1, AnyIsMember DEF KeyDerived, FreshSockets
    <2>3. /\ socket' = n /\ ready' = [ready EXCEPT ![n] = "connecting"]
          /\ token' = [token EXCEPT ![n] = attempt[a].ticket]
      BY <1>3, <2>1 DEF KeyDerived
    <2>4. HasTicket(a) /\ Live(a)
      BY <1>1, <1>3 DEF HasTicket, Live
    <2>5. /\ pairing # None /\ pairing = attempt[a].ticket
          /\ \A r \in Rotations : Rotating(r) => rotate[r].held # pairing
      BY <1>1, <2>4 DEF TicketInv, AttemptTickets
    <2>6. ~connected /\ \A s \in Sockets : ready[s] # "connecting"
      BY <2>4, LiveIsAlone DEF Unclosed
    <2>7. \A b \in Attempts : ~HasTicket(b)'
      <3>1. \A b \in Attempts : b # a => ~HasTicket(b)
        BY <2>4, LiveIsAlone DEF HasTicket
      <3> QED BY <1>2, <3>1
    <2>8. \A r \in Rotations : (Rotating(r)' <=> Rotating(r)) /\ (Replaced(r)' <=> Replaced(r))
      BY <1>1 DEF Rotating, Replaced
    <2>9. AttemptTickets' /\ ConnectedSocket' /\ TicketIsTended'
      BY <1>1, <2>6, <2>7 DEF AttemptTickets, ConnectedSocket, TicketIsTended
    <2>10. HeldTickets' /\ NextTickets'
      BY <1>1, <2>5, <2>8 DEF TicketInv, HeldTickets, NextTickets
    <2>11. SocketTickets'
      <3>1. ASSUME NEW s \in Sockets, ready'[s] = "connecting" PROVE token'[s] = pairing
        BY <2>2, <2>3, <2>5, <2>6, <3>1 DEF TypeOK
      <3> QED BY <1>1, <2>5, <2>8, <3>1 DEF SocketTickets
    <2> QED BY <2>9, <2>10, <2>11 DEF TicketInv
  <1>4. CASE ~Current(a)
    <2>1. UNCHANGED <<socket, wire>>
      BY <1>4 DEF KeyDerived
    <2> QED BY <1>1, <1>2, <2>1, TicketsAlone DEF desk, wire
  <1> QED BY <1>3, <1>4

LEMMA OnOpenTickets ==
  ASSUME TypeOK, Core, TicketInv, NEW s \in Sockets, OnOpen(s)
  PROVE  TicketInv'
  <1>1. UNCHANGED <<desk, socket, pairing, attempt, rotate, token>>
    BY DEF OnOpen
  <1>2. \A b \in Attempts : HasTicket(b)' <=> HasTicket(b)
    BY <1>1 DEF HasTicket, Live, Current, desk
  <1>3. CASE ready[s] = "connecting"
    <2>1. /\ ready' = [ready EXCEPT ![s] = "open"] /\ connected' = TRUE /\ shown' = token[s]
          /\ rotation' = (rotation \/ ~disposed)
      BY <1>3 DEF OnOpen, ScheduleRotation
    <2>2. s = socket
      BY <1>3 DEF Core, OneConnection
    <2>3. token[s] = pairing /\ pairing # None
      BY <1>3 DEF TicketInv, SocketTickets
    <2>4. \A r \in Rotations : (Rotating(r)' <=> Rotating(r)) /\ (Replaced(r)' <=> Replaced(r))
      BY <1>1 DEF Rotating, Replaced
    <2>5. AttemptTickets' /\ HeldTickets' /\ NextTickets'
      BY <1>1, <1>2, <2>4 DEF TicketInv, AttemptTickets, HeldTickets, NextTickets
    <2>6. SocketTickets' /\ ConnectedSocket'
      <3>1. \A d \in Sockets : ready'[d] = "connecting" => ready[d] = "connecting"
        BY <2>1 DEF TypeOK
      <3>2. ready'[s] = "open"
        BY <2>1 DEF TypeOK
      <3> QED BY <1>1, <2>2, <2>4, <3>1, <3>2 DEF TicketInv, SocketTickets, ConnectedSocket
    <2>7. TicketIsTended'
      BY <1>1, <2>1, <2>3 DEF TicketIsTended, desk
    <2> QED BY <2>5, <2>6, <2>7 DEF TicketInv
  <1>4. CASE ready[s] # "connecting"
    <2>1. UNCHANGED <<ready, connected, shown, rotation>>
      BY <1>4 DEF OnOpen
    <2> QED BY <1>1, <1>2, <2>1, TicketsAlone DEF desk
  <1> QED BY <1>3, <1>4

(* rotatePairing of a connected desktop tends its ticket, whoever calls it.  *)
LEMMA RotatePairingTickets ==
  ASSUME TypeOK, Core, TicketInv, RotatePairing,
         UNCHANGED <<desk, socket, connected, pairing, shown, attempt, ready, token>>
  PROVE  TicketInv'
  <1>1. PICK n : n = Any(FreshRotates)
    OBVIOUS
  <1>2. n \in Rotations /\ rotate[n].at = "none"
    BY <1>1, AnyIsMember DEF RotatePairing, FreshRotates
  <1>3. \A b \in Attempts : HasTicket(b)' <=> HasTicket(b)
    BY DEF HasTicket, Live, Current, desk
  <1>4. CASE disposed \/ pairing = None \/ socket = None \/ (socket # None /\ ready[socket] # "open")
    <2>1. UNCHANGED rotate
      BY <1>4 DEF RotatePairing
    <2>2. \A r \in Rotations : (Rotating(r)' <=> Rotating(r)) /\ (Replaced(r)' <=> Replaced(r))
      BY <2>1 DEF Rotating, Replaced
    <2>3. AttemptTickets' /\ HeldTickets' /\ NextTickets' /\ SocketTickets' /\ ConnectedSocket'
      BY <1>3, <2>1, <2>2 DEF TicketInv, AttemptTickets, HeldTickets, NextTickets, SocketTickets,
                              ConnectedSocket
    <2>4. TicketIsTended'
      <3>1. ASSUME connected, ~disposed
            PROVE  pairing # None /\ shown = pairing /\ ready[socket] = "closing"
        BY <1>4, <3>1 DEF TicketInv, TicketIsTended, ConnectedSocket, Core, KnowsSocket
      <3> QED BY <3>1 DEF TicketIsTended, desk
    <2> QED BY <2>3, <2>4 DEF TicketInv
  <1>5. CASE ~(disposed \/ pairing = None \/ socket = None \/ (socket # None /\ ready[socket] # "open"))
    <2>1. PICK x : x = [at |-> "sent", held |-> pairing, next |-> None, sock |-> socket]
      OBVIOUS
    <2>2. rotate' = [rotate EXCEPT ![n] = x]
      BY <1>1, <1>5, <2>1 DEF RotatePairing
    <2>3. /\ rotate'[n] = x /\ x.at = "sent" /\ x.held = pairing /\ x.sock = socket
          /\ \A r \in Rotations : r # n => rotate'[r] = rotate[r]
      BY <1>2, <2>1, <2>2 DEF TypeOK
    <2>4. /\ Rotating(n)' /\ ~Replaced(n)'
          /\ \A r \in Rotations : r # n => (Rotating(r)' <=> Rotating(r)) /\ (Replaced(r)' <=> Replaced(r))
      BY <2>3 DEF Rotating, Replaced
    <2>5. pairing # None /\ socket # None /\ ready[socket] = "open" /\ ~disposed /\ socket \in Sockets
      BY <1>5 DEF TypeOK
    <2>6. \A b \in Attempts : ~HasTicket(b)
      BY <2>5 DEF HasTicket, Core, OneConnection
    <2>7. AttemptTickets'
      BY <1>3, <2>6 DEF AttemptTickets
    <2>8. HeldTickets' /\ NextTickets'
      BY <2>3, <2>4, <2>5 DEF TicketInv, HeldTickets, NextTickets
    <2>9. SocketTickets'
      <3>1. \A s \in Sockets : ready[s] # "connecting"
        BY <2>5 DEF Core, OneConnection
      <3> QED BY <3>1 DEF SocketTickets
    <2>10. ConnectedSocket'
      BY DEF TicketInv, ConnectedSocket
    <2>11. TicketIsTended'
      <3>1. connected => shown = pairing
        BY <2>5 DEF TicketInv, TicketIsTended
      <3>2. rotate'[n].at # "none" /\ rotate'[n].held = pairing'
        BY <2>3
      <3> QED BY <1>2, <2>5, <3>1, <3>2 DEF TicketIsTended, desk
    <2> QED BY <2>7, <2>8, <2>9, <2>10, <2>11 DEF TicketInv
  <1> QED BY <1>4, <1>5

LEMMA RotateServedTickets ==
  ASSUME TypeOK, Core, TicketInv, NEW r \in Rotations, RotateServed(r)
  PROVE  TicketInv'
  <1>1. /\ rotate[r].at = "sent" /\ rotate[r] \in Rotate
        /\ UNCHANGED <<desk, view, attempt, wire>>
    BY DEF RotateServed, TypeOK
  <1>2. \A b \in Attempts : HasTicket(b)' <=> HasTicket(b)
    BY <1>1 DEF HasTicket, Live, Current, desk
  <1>3. PICK t : t = FreshTicket
    OBVIOUS
  <1>4. \/ rotate' = [rotate EXCEPT ![r].at = "failed"]
        \/ IssueTicket /\ rotate' = [rotate EXCEPT ![r].at = "answer", ![r].next = t]
    BY <1>3 DEF RotateServed
  <1>5. /\ rotate'[r].at \in {"answer", "failed"} /\ rotate'[r].held = rotate[r].held
        /\ rotate'[r].sock = rotate[r].sock
        /\ \A q \in Rotations : q # r => rotate'[q] = rotate[q]
    BY <1>1, <1>4 DEF TypeOK, Rotate
  <1>6. /\ \A q \in Rotations : /\ (Rotating(q)' <=> Rotating(q)) /\ rotate'[q].held = rotate[q].held
                                /\ rotate'[q].sock = rotate[q].sock
        /\ \A q \in Rotations : q # r => /\ (Replaced(q)' <=> Replaced(q))
                                         /\ rotate'[q].next = rotate[q].next
    BY <1>1, <1>5 DEF Rotating, Replaced
  <1>7. Replaced(r)' =>
          /\ rotate'[r].next = t /\ t # None /\ t # pairing
          /\ \A a \in Attempts : attempt[a].ticket # t
          /\ \A q \in Rotations : t \notin {rotate[q].held, rotate[q].next}
    <2>1. CASE rotate' = [rotate EXCEPT ![r].at = "failed"]
      BY <1>1, <2>1 DEF Replaced, TypeOK, Rotate
    <2>2. CASE IssueTicket /\ rotate' = [rotate EXCEPT ![r].at = "answer", ![r].next = t]
      <3>1. rotate'[r].next = t
        BY <1>1, <2>2 DEF TypeOK, Rotate
      <3> QED BY <1>3, <2>2, <3>1, IssuedIsFresh
    <2> QED BY <1>4, <2>1, <2>2
  <1>8. AttemptTickets'
    <2>1. ASSUME NEW b \in Attempts, HasTicket(b)', NEW q \in Rotations
          PROVE  /\ Rotating(q)' => rotate'[q].held # attempt'[b].ticket
                 /\ Replaced(q)' => rotate'[q].next # attempt'[b].ticket
      <3>1. HasTicket(b) /\ attempt' = attempt
        BY <1>1, <1>2, <2>1
      <3>2. Rotating(q)' => rotate'[q].held # attempt'[b].ticket
        BY <1>6, <3>1 DEF TicketInv, AttemptTickets
      <3>3. Replaced(q)' => rotate'[q].next # attempt'[b].ticket
        BY <1>6, <1>7, <3>1 DEF TicketInv, AttemptTickets
      <3> QED BY <3>2, <3>3
    <2> QED BY <1>1, <1>2, <2>1 DEF TicketInv, AttemptTickets, view
  <1>9. HeldTickets' /\ SocketTickets' /\ ConnectedSocket'
    BY <1>1, <1>6 DEF TicketInv, HeldTickets, SocketTickets, ConnectedSocket, view, wire
  <1>10. NextTickets'
    <2>1. ASSUME NEW q \in Rotations, Replaced(q)' PROVE rotate'[q].next \notin {None, pairing'}
      BY <1>1, <1>6, <1>7, <2>1 DEF TicketInv, NextTickets, view
    <2>2. ASSUME NEW q \in Rotations, Replaced(q)', NEW p \in Rotations, Rotating(p)'
          PROVE  rotate'[p].held # rotate'[q].next
      BY <1>6, <1>7, <2>2 DEF TicketInv, NextTickets
    <2>3. ASSUME NEW q \in Rotations, Replaced(q)', NEW p \in Rotations, Replaced(p)', p # q
          PROVE  rotate'[p].next # rotate'[q].next
      <3>1. CASE q = r
        BY <1>6, <1>7, <2>3, <3>1
      <3>2. CASE p = r
        BY <1>6, <1>7, <2>3, <3>2
      <3>3. CASE q # r /\ p # r
        BY <1>6, <2>3, <3>3 DEF TicketInv, NextTickets
      <3> QED BY <3>1, <3>2, <3>3
    <2> QED BY <2>1, <2>2, <2>3 DEF NextTickets
  <1>11. TicketIsTended'
    BY <1>1, <1>6 DEF TicketInv, TicketIsTended, Rotating, view, wire, desk
  <1> QED BY <1>8, <1>9, <1>10, <1>11 DEF TicketInv

(* A rotation that has ended is nobody's any more.                           *)
LEMMA EndedRotation ==
  ASSUME TypeOK, TicketInv, NEW r \in Rotations, rotate' = [rotate EXCEPT ![r] = NoRotate]
  PROVE  /\ ~Rotating(r)' /\ ~Replaced(r)'
         /\ \A q \in Rotations : q # r => rotate'[q] = rotate[q]
         /\ \A q \in Rotations : (Rotating(q)' => q # r /\ Rotating(q))
                                 /\ (Replaced(q)' => q # r /\ Replaced(q))
  <1>1. rotate'[r] = NoRotate /\ \A q \in Rotations : q # r => rotate'[q] = rotate[q]
    BY DEF TypeOK
  <1> QED BY <1>1 DEF Rotating, Replaced, NoRotate

LEMMA RotateAnsweredTickets ==
  ASSUME TypeOK, Core, TicketInv, NEW r \in Rotations, RotateAnswered(r)
  PROVE  TicketInv'
  <1>1. /\ rotate[r].at = "answer" /\ rotate' = [rotate EXCEPT ![r] = NoRotate]
        /\ UNCHANGED <<desk, socket, connected, attempt, wire>>
    BY DEF RotateAnswered
  <1>2. \A b \in Attempts : HasTicket(b)' <=> HasTicket(b)
    BY <1>1 DEF HasTicket, Live, Current, desk
  <1>3. /\ \A q \in Rotations : q # r => rotate'[q] = rotate[q]
        /\ \A q \in Rotations : (Rotating(q)' => q # r /\ Rotating(q))
                                /\ (Replaced(q)' => q # r /\ Replaced(q))
    BY <1>1, EndedRotation
  <1>4. Replaced(r) /\ Rotating(r)
    BY <1>1 DEF Replaced, Rotating
  <1>5. CASE pairing = rotate[r].held
    <2>1. pairing' = rotate[r].next /\ shown' = rotate[r].next /\ rotation' = (rotation \/ ~disposed)
      BY <1>5 DEF RotateAnswered, ScheduleRotation
    <2>2. /\ rotate[r].next # None
          /\ \A q \in Rotations : /\ Rotating(q) => rotate[q].held # rotate[r].next
                                  /\ Replaced(q) /\ q # r => rotate[q].next # rotate[r].next
      BY <1>4 DEF TicketInv, NextTickets
    <2>3. \A s \in Sockets : ready[s] # "connecting"
      BY <1>4, <1>5 DEF TicketInv, SocketTickets
    <2>4. \A b \in Attempts : HasTicket(b) => attempt[b].at # "deriving"
      BY <1>4, <1>5 DEF TicketInv, AttemptTickets
    <2>5. AttemptTickets'
      BY <1>1, <1>2, <1>3, <2>4 DEF TicketInv, AttemptTickets
    <2>6. HeldTickets' /\ NextTickets'
      BY <1>1, <1>3, <2>1, <2>2 DEF TicketInv, HeldTickets, NextTickets
    <2>7. SocketTickets' /\ ConnectedSocket' /\ TicketIsTended'
      BY <1>1, <2>1, <2>2, <2>3 DEF TicketInv, SocketTickets, ConnectedSocket, TicketIsTended, wire, desk
    <2> QED BY <2>5, <2>6, <2>7 DEF TicketInv
  <1>6. CASE pairing # rotate[r].held
    <2>1. UNCHANGED <<pairing, shown, rotation>>
      BY <1>6 DEF RotateAnswered
    <2>2. AttemptTickets'
      BY <1>1, <1>2, <1>3, <2>1 DEF TicketInv, AttemptTickets
    <2>3. HeldTickets' /\ NextTickets'
      BY <1>1, <1>3, <2>1 DEF TicketInv, HeldTickets, NextTickets
    <2>4. SocketTickets' /\ ConnectedSocket'
      BY <1>1, <1>3, <2>1 DEF TicketInv, SocketTickets, ConnectedSocket, wire
    <2>5. TicketIsTended'
      BY <1>1, <1>3, <1>6, <2>1 DEF TicketInv, TicketIsTended, wire, desk
    <2> QED BY <2>2, <2>3, <2>4, <2>5 DEF TicketInv
  <1> QED BY <1>5, <1>6

LEMMA RotateFailedTickets ==
  ASSUME TypeOK, Core, TicketInv, NEW r \in Rotations, NEW expired \in BOOLEAN, RotateFailed(r, expired)
  PROVE  TicketInv'
  <1>1. /\ rotate[r].at = "failed" /\ rotate' = [rotate EXCEPT ![r] = NoRotate]
        /\ UNCHANGED <<requested, generation, disposed, socket, connected, pairing, shown, attempt>>
    BY DEF RotateFailed
  <1>2. \A b \in Attempts : HasTicket(b)' <=> HasTicket(b)
    BY <1>1 DEF HasTicket, Live, Current
  <1>3. /\ \A q \in Rotations : q # r => rotate'[q] = rotate[q]
        /\ \A q \in Rotations : (Rotating(q)' => q # r /\ Rotating(q))
                                /\ (Replaced(q)' => q # r /\ Replaced(q))
    BY <1>1, EndedRotation
  <1>4. AttemptTickets'
    BY <1>1, <1>2, <1>3 DEF TicketInv, AttemptTickets
  <1>5. HeldTickets' /\ NextTickets'
    BY <1>1, <1>3 DEF TicketInv, HeldTickets, NextTickets
  <1>6. CASE UNCHANGED <<ready, token>> /\ (pairing # rotate[r].held => UNCHANGED rotation)
             /\ (pairing = rotate[r].held => rotation' = (rotation \/ ~disposed))
    <2>1. SocketTickets' /\ ConnectedSocket'
      BY <1>1, <1>3, <1>6 DEF TicketInv, SocketTickets, ConnectedSocket
    <2>2. TicketIsTended'
      <3>1. SUFFICES ASSUME connected, ~disposed PROVE TicketIsTended'
        BY <1>1 DEF TicketIsTended
      <3>2. /\ pairing # None /\ shown = pairing
            /\ \/ rotation
               \/ ready[socket] = "closing"
               \/ \E q \in Rotations : rotate[q].at # "none" /\ rotate[q].held = pairing
        BY <3>1 DEF TicketInv, TicketIsTended
      <3>3. CASE pairing = rotate[r].held
        BY <1>1, <1>6, <3>1, <3>2, <3>3 DEF TicketIsTended
      <3>4. CASE pairing # rotate[r].held
        <4>1. \A q \in Rotations : rotate[q].held = pairing => rotate'[q] = rotate[q]
          BY <1>3, <3>4
        <4> QED BY <1>1, <1>6, <3>2, <3>4, <4>1 DEF TicketIsTended
      <3> QED BY <3>3, <3>4
    <2> QED BY <1>4, <1>5, <2>1, <2>2 DEF TicketInv
  <1>7. CASE pairing = rotate[r].held /\ Close(rotate[r].sock)
    <2>1. rotate[r].sock = socket
      BY <1>1, <1>7 DEF TicketInv, HeldTickets, Rotating
    <2>2. /\ \A d \in Sockets : Unclosed(d)' => Unclosed(d) /\ d # socket
          /\ token' = token
      BY <1>7, <2>1, Closing DEF TypeOK
    <2>3. \A d \in Sockets : ~Unclosed(d)'
      BY <2>2 DEF Core, OneConnection, Unclosed
    <2>4. connected => socket \in Sockets /\ ready'[socket] = "closing"
      <3>1. ASSUME connected PROVE socket \in Sockets /\ ready'[socket] = "closing"
        <4>1. socket \in Sockets /\ ready[socket] \in {"open", "closing"}
          BY <3>1 DEF TicketInv, ConnectedSocket, Core, KnowsSocket, TypeOK
        <4> QED BY <1>7, <2>1, <4>1 DEF Close, wire, TypeOK
      <3> QED BY <3>1
    <2>5. SocketTickets' /\ ConnectedSocket'
      BY <1>1, <2>3, <2>4 DEF SocketTickets, ConnectedSocket, Unclosed
    <2>6. TicketIsTended'
      BY <1>1, <2>4 DEF TicketInv, TicketIsTended
    <2> QED BY <1>4, <1>5, <2>5, <2>6 DEF TicketInv
  <1> QED BY <1>6, <1>7 DEF RotateFailed, wire, ScheduleRotation

LEMMA RequestLostTickets == TypeOK /\ Core /\ TicketInv /\ RequestLost => TicketInv'
  <1> SUFFICES ASSUME TypeOK, Core, TicketInv, RequestLost PROVE TicketInv'
    OBVIOUS
  <1>1. UNCHANGED <<desk, view, wire>>
    BY DEF RequestLost
  <1>2. ASSUME NEW a \in Attempts, UNCHANGED rotate,
               attempt' = [attempt EXCEPT ![a].at = "failed", ![a].ticket = None]
        PROVE  TicketInv'
    <2>1. /\ attempt'[a].at = "failed" /\ \A b \in Attempts : b # a => attempt'[b] = attempt[b]
      BY <1>2 DEF TypeOK, Attempt
    <2>2. \A b \in Attempts : HasTicket(b)' => HasTicket(b) /\ attempt'[b] = attempt[b]
      BY <1>1, <2>1 DEF HasTicket, Live, Current, desk
    <2> QED BY <1>1, <1>2, <2>2, TicketsAlone DEF desk, view, wire
  <1>3. ASSUME NEW r \in Rotations, UNCHANGED attempt, rotate[r].at \in {"sent", "answer"},
               rotate' = [rotate EXCEPT ![r].at = "failed", ![r].next = None]
        PROVE  TicketInv'
    <2>1. /\ rotate'[r].at = "failed" /\ rotate'[r].held = rotate[r].held
          /\ rotate'[r].sock = rotate[r].sock
          /\ \A q \in Rotations : q # r => rotate'[q] = rotate[q]
      BY <1>3 DEF TypeOK, Rotate
    <2>2. /\ \A q \in Rotations : /\ (Rotating(q)' <=> Rotating(q)) /\ rotate'[q].held = rotate[q].held
                                  /\ rotate'[q].sock = rotate[q].sock
          /\ \A q \in Rotations : Replaced(q)' => Replaced(q) /\ rotate'[q].next = rotate[q].next
      BY <1>3, <2>1 DEF Rotating, Replaced
    <2>3. \A b \in Attempts : HasTicket(b)' <=> HasTicket(b)
      BY <1>1, <1>3 DEF HasTicket, Live, Current, desk
    <2>4. AttemptTickets'
      BY <1>1, <1>3, <2>2, <2>3 DEF TicketInv, AttemptTickets, view
    <2>5. HeldTickets' /\ NextTickets'
      BY <1>1, <2>2 DEF TicketInv, HeldTickets, NextTickets, view
    <2>6. SocketTickets' /\ ConnectedSocket'
      BY <1>1, <2>2 DEF TicketInv, SocketTickets, ConnectedSocket, view, wire
    <2>7. TicketIsTended'
      BY <1>1, <2>2 DEF TicketInv, TicketIsTended, Rotating, view, wire, desk
    <2> QED BY <2>4, <2>5, <2>6, <2>7 DEF TicketInv
  <1> QED BY <1>2, <1>3 DEF RequestLost

(* A command that starts a generation leaves no attempt alive.               *)
LEMMA SupersededAttempts ==
  ASSUME TypeOK, Core, Supersede, UNCHANGED attempt
  PROVE  \A a \in Attempts : ~Live(a)'
  <1>1. generation \in Nat /\ generation' = generation + 1
    BY DEF TypeOK, Supersede
  <1>2. ASSUME NEW a \in Attempts, InProgress(a) PROVE attempt[a].gen # generation'
    <2>1. attempt[a].gen \in Nat
      BY DEF TypeOK, Attempt
    <2>2. attempt[a].gen <= generation
      BY <1>2 DEF Core, OldAttempts
    <2> QED BY <1>1, <2>1, <2>2
  <1> QED BY <1>2 DEF Live, Current, InProgress

LEMMA TicketNext == TypeOK /\ Core /\ TicketInv /\ [Next]_vars => TicketInv'
  <1> SUFFICES ASSUME TypeOK, Core, TicketInv, [Next]_vars PROVE TicketInv'
    OBVIOUS
  <1>1. CASE Dial
    <2>1. UNCHANGED <<desk, pairing, shown, rotate, socket, connected, rotation, wire>>
      BY <1>1 DEF Dial, view
    <2>2. \A b \in Attempts : HasTicket(b)' => HasTicket(b) /\ attempt'[b] = attempt[b]
      <3>1. CASE UNCHANGED attempt
        BY <2>1, <3>1 DEF HasTicket, Live, Current, desk
      <3>2. ASSUME NEW n, n = Any(FreshAttempts),
                   attempt' = [attempt EXCEPT ![n] =
                                 [at |-> "start", gen |-> generation, ticket |-> None]]
            PROVE  \A b \in Attempts : HasTicket(b)' => HasTicket(b) /\ attempt'[b] = attempt[b]
        <4>1. n \in Attempts
          BY <1>1, <3>2, AnyIsMember DEF Dial, FreshAttempts
        <4>2. attempt'[n].at = "start" /\ \A b \in Attempts : b # n => attempt'[b] = attempt[b]
          BY <3>2, <4>1 DEF TypeOK
        <4> QED BY <2>1, <4>2 DEF HasTicket, Live, Current, desk
      <3> QED BY <1>1, <3>1, <3>2 DEF Dial
    <2> QED BY <2>1, <2>2, TicketsAlone DEF desk, wire
  <1>2. CASE RotateTimer
    BY <1>2, RotatePairingTickets DEF RotateTimer, wire
  <1>3. ASSUME NEW a \in Attempts, StartFailed(a) PROVE TicketInv'
    <2>0. /\ attempt' = [attempt EXCEPT ![a] = NoAttempt] /\ attempt[a].at = "failed"
          /\ UNCHANGED <<desk, rotate>>
      BY <1>3 DEF StartFailed
    <2>1. \A b \in Attempts : b # a => attempt'[b] = attempt[b]
      BY <2>0 DEF TypeOK
    <2>2. ~Live(a)'
      BY <2>0 DEF Live, NoAttempt, TypeOK
    <2>3. CASE Current(a)
      <3>1. Live(a)
        BY <2>0, <2>3 DEF Live
      <3>2. ClearConnectionState /\ Close(socket)
        BY <1>3, <2>3 DEF StartFailed
      <3>3. \A s \in Sockets : ~Unclosed(s)'
        BY <3>1, <3>2, LiveIsAlone, Closing DEF TypeOK
      <3>4. \A b \in Attempts : ~Live(b)'
        <4>1. ASSUME NEW b \in Attempts, b # a PROVE ~Live(b)'
          <5>1. ~Live(b)
            BY <3>1, <4>1, LiveIsAlone
          <5> QED BY <2>0, <2>1, <4>1, <5>1 DEF Live, Current, desk
        <4> QED BY <2>2, <4>1
      <3> QED BY <2>0, <3>2, <3>3, <3>4, TicketsDropped DEF ClearConnectionState
    <2>4. CASE ~Current(a)
      <3>1. UNCHANGED <<view, wire>>
        BY <1>3, <2>4 DEF StartFailed
      <3>2. \A b \in Attempts : HasTicket(b)' => HasTicket(b) /\ attempt'[b] = attempt[b]
        BY <2>0, <2>1, <2>2 DEF HasTicket, Live, Current, desk
      <3> QED BY <2>0, <3>1, <3>2, TicketsAlone DEF desk, view, wire
    <2> QED BY <2>3, <2>4
  <1>4. ASSUME NEW s \in Sockets, Upgrade(s) \/ RelayCloses(s) \/ SocketLost(s) PROVE TicketInv'
    <2>1. UNCHANGED <<desk, view, attempt, rotate, ready, token>>
      BY <1>4 DEF Upgrade, RelayCloses, SocketLost
    <2>2. \A b \in Attempts : HasTicket(b)' <=> HasTicket(b)
      BY <2>1 DEF HasTicket, Live, Current, desk
    <2> QED BY <2>1, <2>2, TicketsAlone DEF desk, view
  <1>5. ASSUME NEW s \in Sockets, OnPaired(s) PROVE TicketInv'
    <2>1. UNCHANGED <<desk, socket, connected, pairing, shown, rotation, attempt, ready, token>>
      BY <1>5 DEF OnPaired
    <2>2. CASE RotatePairing
      BY <2>1, <2>2, RotatePairingTickets
    <2>3. CASE UNCHANGED rotate
      <3>1. \A b \in Attempts : HasTicket(b)' <=> HasTicket(b)
        BY <2>1 DEF HasTicket, Live, Current, desk
      <3> QED BY <2>1, <2>3, <3>1, TicketsAlone DEF desk
    <2> QED BY <1>5, <2>2, <2>3 DEF OnPaired
  <1>6. ASSUME NEW s \in Sockets, OnClose(s) PROVE TicketInv'
    <2>1. /\ UNCHANGED <<requested, generation, disposed, attempt, rotate>>
          /\ ready' = [ready EXCEPT ![s] = "closed"]
          /\ \A d \in Sockets : d # s => token'[d] = token[d]
      BY <1>6 DEF OnClose, TypeOK, desk
    <2>2. \A d \in Sockets : Unclosed(d)' => Unclosed(d) /\ d # s
      BY <2>1 DEF Unclosed, TypeOK
    <2>3. \A b \in Attempts : Live(b)' <=> Live(b)
      BY <2>1 DEF Live, Current
    <2>4. CASE socket = s
      <3>1. ClearConnectionState
        BY <1>6, <2>4 DEF OnClose
      <3>2. \A d \in Sockets : ~Unclosed(d)'
        BY <2>2, <2>4 DEF Core, OneConnection, Unclosed
      <3>3. \A b \in Attempts : ~Live(b)'
        BY <2>3, <2>4, BridgeAssumption DEF Core, OneConnection
      <3> QED BY <2>1, <3>1, <3>2, <3>3, TicketsDropped DEF ClearConnectionState
    <2>5. CASE socket # s
      <3>1. UNCHANGED <<desk, view>>
        BY <1>6, <2>5 DEF OnClose
      <3>2. \A b \in Attempts : HasTicket(b)' => HasTicket(b) /\ attempt'[b] = attempt[b]
        BY <2>1, <2>3 DEF HasTicket
      <3>3. \A d \in Sockets : d # s => ready'[d] = ready[d]
        BY <2>1 DEF TypeOK
      <3>4. \A d \in Sockets :
              /\ ready'[d] = "connecting" => ready[d] = "connecting" /\ token'[d] = token[d]
              /\ d = socket /\ ready[d] = "open" => ready'[d] \in {"open", "closing"}
              /\ d = socket /\ ready[d] = "closing" => ready'[d] = "closing"
        BY <2>1, <2>2, <2>5, <3>3 DEF Unclosed
      <3> QED BY <2>1, <3>1, <3>2, <3>4, TicketsAlone DEF desk, view
    <2> QED BY <2>4, <2>5
  <1>7. CASE ConnectNow
    <2>1. /\ requested' = TRUE /\ UNCHANGED <<disposed, view, attempt, rotate, wire>>
      BY <1>7 DEF ConnectNow
    <2>2. \A b \in Attempts : Live(b)' => Live(b)
      <3>1. CASE connected \/ socket # None
        <4>1. UNCHANGED generation
          BY <1>7, <3>1 DEF ConnectNow
        <4>2. ASSUME NEW b \in Attempts, Live(b)' PROVE Live(b)
          <5>1. InProgress(b) /\ attempt[b].gen = generation /\ generation \in Nat
            BY <2>1, <4>1, <4>2 DEF Live, Current, InProgress, TypeOK
          <5>2. requested
            BY <5>1 DEF Core, OldAttempts
          <5> QED BY <5>1, <5>2 DEF Live, Current, InProgress
        <4> QED BY <4>2
      <3>2. CASE ~(connected \/ socket # None)
        <4>1. Supersede
          BY <1>7, <3>2 DEF ConnectNow
        <4> QED BY <2>1, <4>1, SupersededAttempts
      <3> QED BY <3>1, <3>2
    <2>3. \A b \in Attempts : HasTicket(b)' => HasTicket(b) /\ attempt'[b] = attempt[b]
      BY <2>1, <2>2 DEF HasTicket
    <2> QED BY <2>1, <2>3, TicketsAlone DEF view, wire
  <1>8. ASSUME DisconnectNow \/ \E c \in Configs : ChangeSettings(c) PROVE TicketInv'
    <2>1. ClearConnectionState /\ Close(socket) /\ Supersede /\ UNCHANGED <<attempt, rotate>>
      BY <1>8 DEF DisconnectNow, ChangeSettings
    <2>2. \A b \in Attempts : ~Live(b)'
      BY <2>1, SupersededAttempts
    <2>3. \A s \in Sockets : ~Unclosed(s)'
      BY <2>1, Closing DEF Core, OneConnection, Unclosed, TypeOK
    <2> QED BY <2>1, <2>2, <2>3, TicketsDropped DEF ClearConnectionState
  <1>9. CASE Dispose
    <2>1. /\ Supersede /\ Close(socket) /\ disposed' = TRUE
          /\ UNCHANGED <<pairing, shown, rotate, socket, connected, attempt>>
      BY <1>9 DEF Dispose
    <2>2. \A b \in Attempts : ~Live(b)'
      BY <2>1, SupersededAttempts
    <2>3. /\ \A d \in Sockets : Unclosed(d)' => Unclosed(d) /\ d # socket
          /\ token' = token
      BY <2>1, Closing DEF TypeOK
    <2>4. \A d \in Sockets :
            /\ ready'[d] = "connecting" => ready[d] = "connecting" /\ token'[d] = token[d]
            /\ d = socket /\ ready[d] = "open" => ready'[d] \in {"open", "closing"}
            /\ d = socket /\ ready[d] = "closing" => ready'[d] = "closing"
      <3>1. ASSUME NEW d \in Sockets, d = socket, ready[d] \in {"open", "closing"}
            PROVE  ready'[d] = "closing"
        BY <2>1, <3>1 DEF Close, wire, TypeOK
      <3>2. \A d \in Sockets : ~Unclosed(d)'
        BY <2>3 DEF Core, OneConnection, Unclosed
      <3> QED BY <3>1, <3>2 DEF Unclosed
    <2> QED BY <2>1, <2>2, <2>4, TicketsAlone DEF HasTicket
  <1>10. CASE Pair \/ TakeoverStart \/ TakeoverOpen \/ RelayRestarts \/ UNCHANGED vars
    <2>1. UNCHANGED <<desk, view, attempt, rotate, ready, token>>
      BY <1>10 DEF Pair, TakeoverStart, TakeoverOpen, RelayRestarts, vars, wire
    <2>2. \A b \in Attempts : HasTicket(b)' <=> HasTicket(b)
      BY <2>1 DEF HasTicket, Live, Current, desk
    <2> QED BY <2>1, <2>2, TicketsAlone DEF desk, view
  <1> QED
    BY <1>1, <1>2, <1>3, <1>4, <1>5, <1>6, <1>7, <1>8, <1>9, <1>10, StartServedTickets,
       StartAnsweredTickets, KeyDerivedTickets, OnOpenTickets, RotateServedTickets,
       RotateAnsweredTickets, RotateFailedTickets, RequestLostTickets DEF Next

(* The QR code cannot go stale silently: while the desktop is connected it   *)
(* shows the ticket it holds, whose replacement is scheduled, under way or   *)
(* given up for a new connection, however commands, answers, timers, faults  *)
(* and takeovers interleave (index.ts:603-640).                              *)
THEOREM BridgeTicketIsTended == Spec => []TicketIsTended
  <1>1. Init => BInv /\ TicketInv
    BY TypeInit, CoreInit, TicketInit DEF BInv
  <1>2. BInv /\ TicketInv /\ [Next]_vars => (BInv /\ TicketInv)'
    BY TypeNext, CoreNext, TicketNext DEF BInv
  <1>3. TicketInv => TicketIsTended
    BY DEF TicketInv
  <1> QED BY <1>1, <1>2, <1>3, PTL DEF Spec

=============================================================================
