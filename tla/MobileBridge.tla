---------------------------- MODULE MobileBridge -----------------------------
(***************************************************************************)
(* The desktop's connection to the public relay (packages/mobile-bridge/    *)
(* src/index.ts, connect .. disconnectNow) and the relay's side of it        *)
(* (packages/mobile-bridge-server/src/server.ts).  The desktop asks for a    *)
(* pairing ticket, opens a WebSocket with it and shows it as a QR code; the  *)
(* ticket is replaced before it expires and after every pairing.  User       *)
(* commands, settings, answers, socket events and timers interleave; the     *)
(* relay knows one ticket and one socket per desktop identity, and another   *)
(* instance may take that identity over.  The list of phones and the         *)
(* tunnelled traffic are not part of this module.                            *)
(***************************************************************************)
EXTENDS Naturals, Sequences, FiniteSets

CONSTANTS Tickets,     \* pairing tickets; one nobody refers to is issued again
          Sockets,     \* bound: WebSockets of this desktop at a time, reused likewise
          Attempts,    \* bound: connect() calls in progress at a time
          Rotations,   \* bound: rotatePairing() calls in progress at a time
          None,        \* undefined
          Other,       \* the socket of another instance with the same identity
          Configs,     \* the settings in play
          MaxEvents    \* bound: commands, pairings, takeovers and faults together

Config == [connect : BOOLEAN, reconnect : BOOLEAN]  \* autoConnect, autoReconnect

ASSUME BridgeAssumption ==
    /\ MaxEvents \in Nat /\ Configs \subseteq Config
    /\ None \notin Tickets \cup Sockets /\ Other \notin Sockets /\ Other # None

VARIABLES
    conf,       \* current()
    requested,  \* connectionRequested
    generation, \* connectionGeneration
    immediate,  \* reconnectImmediately
    disposed,
    retry,      \* retryTimer is set
    rotation,   \* pairingTimer is set
    socket,     \* state.socket
    connected,  \* state.connected
    pairing,    \* state.pairing
    shown,      \* state.lastQrUrl: the ticket in the QR code
    refreshing, \* state.pairingRefreshing
    displaced,  \* history: the relay closed us with 4001 and no command since
    attempt,    \* connect() calls: where each awaits, and what it captured
    rotate,     \* rotatePairing() calls: likewise
    ready,      \* a socket's readyState on the desktop
    token,      \* the ticket a socket was opened with
    toRelay, toDesk, \* what is on its way on a socket
    ticket, used,    \* the relay: the current ticket, and whether a phone used it
    bridge,          \* the relay: the socket in bridges
    other,           \* the other instance: the ticket it is about to open with
    events

desk == <<conf, requested, generation, immediate, disposed, displaced>>
view == <<socket, connected, pairing, shown, refreshing, rotation>>
wire == <<ready, token, toRelay, toDesk>>
relay == <<ticket, used, bridge>>
bounds == <<other, events>>
vars == <<desk, view, retry, attempt, rotate, wire, relay, bounds>>

NoAttempt == [at |-> "none", gen |-> 0, ticket |-> None]
NoRotate == [at |-> "none", held |-> None, next |-> None, sock |-> None]

Init ==
    /\ conf \in Configs
    /\ requested = conf.connect
    /\ generation = 0 /\ immediate = FALSE /\ disposed = FALSE /\ displaced = FALSE
    /\ retry = FALSE /\ rotation = FALSE
    /\ socket = None /\ connected = FALSE /\ pairing = None /\ shown = None
    /\ refreshing = conf.connect
    /\ attempt = [a \in Attempts |->
                    IF conf.connect /\ a = CHOOSE b \in Attempts : TRUE
                      THEN [NoAttempt EXCEPT !.at = "start"] ELSE NoAttempt]
    /\ rotate = [r \in Rotations |-> NoRotate]
    /\ ready = [s \in Sockets |-> "closed"]
    /\ token = [s \in Sockets |-> None]
    /\ toRelay = [s \in Sockets |-> <<>>] /\ toDesk = [s \in Sockets |-> <<>>]
    /\ ticket = None /\ used = FALSE /\ bridge = None
    /\ other = None /\ events = 0

-----------------------------------------------------------------------------
(* Identities nobody refers to any more *)
FreshTickets == {t \in Tickets :
    /\ t \notin {ticket, pairing, shown, other}
    /\ \A a \in Attempts : attempt[a].ticket # t
    /\ \A r \in Rotations : t \notin {rotate[r].held, rotate[r].next}
    /\ \A s \in Sockets : token[s] = t => ready[s] = "closed" /\ toRelay[s] = <<>>}

FreshSockets == {s \in Sockets : /\ s # bridge /\ ready[s] = "closed"
                                 /\ toRelay[s] = <<>> /\ toDesk[s] = <<>>}
FreshAttempts == {a \in Attempts : attempt[a].at = "none"}
FreshRotates == {r \in Rotations : rotate[r].at = "none"}
Any(S) == CHOOSE x \in S : TRUE

(* issueTicket: the previous ticket of this identity is gone. *)
FreshTicket == Any(FreshTickets)
IssueTicket ==
    /\ FreshTickets # {}
    /\ ticket' = FreshTicket
    /\ used' = FALSE

ClearConnectionState ==
    /\ socket' = None /\ connected' = FALSE
    /\ pairing' = None /\ shown' = None /\ refreshing' = FALSE
    /\ rotation' = FALSE

(* scheduleConnect.  Mutant: it looks at the wish of before the command. *)
BugScheduleConnect(wanted) == retry' = (wanted /\ ~disposed /\ requested)
ScheduleConnect(wanted) == retry' = (wanted /\ ~disposed /\ requested')

(* socket.close() on the desktop *)
Close(s) ==
    IF s \in Sockets /\ ready[s] \in {"connecting", "open"}
      THEN /\ ready' = [ready EXCEPT ![s] = "closing"]
           /\ toRelay' = [toRelay EXCEPT ![s] = Append(@, "close")]
           /\ UNCHANGED <<token, toDesk>>
      ELSE UNCHANGED wire

(* schedulePairingRotation.  Mutant: not called. *)
BugScheduleRotation == UNCHANGED rotation
ScheduleRotation == rotation' = (rotation \/ ~disposed)

(* A command makes every attempt under way an old one.                       *)
Supersede == generation' = generation + 1

(* Mutant: an attempt only asks whether a connection is wanted. *)
BugCurrent(a) == requested
Current(a) == attempt[a].gen = generation /\ requested

-----------------------------------------------------------------------------
(* Connecting.  connect() awaits the ticket and then the key; after each it  *)
(* gives up when a command has started another generation.                   *)
Dial ==
    /\ retry /\ FreshAttempts # {}
    /\ retry' = FALSE
    /\ IF disposed \/ ~requested \/ socket # None
         THEN UNCHANGED <<attempt, view>>
         ELSE /\ attempt' = [attempt EXCEPT ![Any(FreshAttempts)] =
                               [at |-> "start", gen |-> generation, ticket |-> None]]
              /\ refreshing' = TRUE
              /\ UNCHANGED <<socket, connected, pairing, shown, rotation>>
    /\ UNCHANGED <<desk, rotate, wire, relay, bounds>>

(* The relay: POST /bridge/api/bridge/start *)
StartServed(a) ==
    /\ attempt[a].at = "start"
    /\ IssueTicket
    /\ attempt' = [attempt EXCEPT ![a].at = "answer", ![a].ticket = FreshTicket]
    /\ UNCHANGED <<desk, view, retry, rotate, wire, bridge, bounds>>

StartAnswered(a) ==
    /\ attempt[a].at = "answer"
    /\ IF Current(a)
         THEN /\ attempt' = [attempt EXCEPT ![a].at = "deriving"]
              /\ pairing' = attempt[a].ticket
              /\ shown' = None
         ELSE attempt' = [attempt EXCEPT ![a] = NoAttempt] /\ UNCHANGED <<pairing, shown>>
    /\ UNCHANGED <<desk, socket, connected, refreshing, rotation, retry, rotate, wire, relay,
                   bounds>>

KeyDerived(a) ==
    /\ attempt[a].at = "deriving" /\ FreshSockets # {}
    /\ attempt' = [attempt EXCEPT ![a] = NoAttempt]
    /\ IF Current(a)
         THEN LET s == Any(FreshSockets) IN
              /\ socket' = s
              /\ ready' = [ready EXCEPT ![s] = "connecting"]
              /\ token' = [token EXCEPT ![s] = attempt[a].ticket]
              /\ toRelay' = [toRelay EXCEPT ![s] = <<"upgrade">>]
              /\ UNCHANGED toDesk
         ELSE UNCHANGED <<socket, wire>>
    /\ UNCHANGED <<desk, connected, pairing, shown, refreshing, rotation, retry, rotate, relay,
                   bounds>>

(* The catch of connect() *)
StartFailed(a) ==
    /\ attempt[a].at = "failed"
    /\ attempt' = [attempt EXCEPT ![a] = NoAttempt]
    /\ UNCHANGED desk
    /\ IF Current(a)
         THEN ClearConnectionState /\ Close(socket) /\ ScheduleConnect(conf.reconnect)
         ELSE UNCHANGED <<view, wire, retry>>
    /\ UNCHANGED <<rotate, relay, bounds>>

-----------------------------------------------------------------------------
(* The sockets *)

(* The relay: upgrade of /ws/bridge.  A token that is not the current        *)
(* ticket's is refused; a socket that is already there is closed with 4001.  *)
Upgrade(s) ==
    /\ toRelay[s] # <<>> /\ Head(toRelay[s]) = "upgrade"
    /\ toRelay' = [toRelay EXCEPT ![s] = Tail(@)]
    /\ IF ticket # None /\ token[s] = ticket
         THEN /\ bridge' = s
              /\ toDesk' = [d \in Sockets |-> CASE d = s -> Append(toDesk[d], "open")
                                                [] d # s /\ d = bridge -> Append(toDesk[d], "displaced")
                                                [] OTHER -> toDesk[d]]
         ELSE toDesk' = [toDesk EXCEPT ![s] = Append(@, "lost")] /\ UNCHANGED bridge
    /\ UNCHANGED <<desk, view, retry, attempt, rotate, ready, token, ticket, used, bounds>>

(* The relay's close event; a close frame is answered, a broken socket not. *)
RelayCloses(s) ==
    /\ toRelay[s] # <<>> /\ Head(toRelay[s]) \in {"close", "gone"}
    /\ toRelay' = [toRelay EXCEPT ![s] = Tail(@)]
    /\ toDesk' = IF Head(toRelay[s]) = "gone" THEN toDesk
                 ELSE [toDesk EXCEPT ![s] = Append(@, "bye")]
    /\ bridge' = IF bridge = s THEN None ELSE bridge
    /\ UNCHANGED <<desk, view, retry, attempt, rotate, ready, token, ticket, used, bounds>>

Received(s) == toDesk' = [toDesk EXCEPT ![s] = Tail(@)]

OnOpen(s) ==
    /\ toDesk[s] # <<>> /\ Head(toDesk[s]) = "open"
    /\ Received(s)
    /\ IF ready[s] = "connecting"
         THEN /\ ready' = [ready EXCEPT ![s] = "open"]
              /\ connected' = TRUE
              /\ shown' = token[s]
              /\ refreshing' = FALSE
              /\ ScheduleRotation
         ELSE UNCHANGED <<ready, connected, shown, refreshing, rotation>>
    /\ UNCHANGED <<desk, socket, pairing, retry, attempt, rotate, token, toRelay, relay, bounds>>

(* rotatePairing up to its request *)
RotatePairing ==
    /\ FreshRotates # {}
    /\ IF disposed \/ pairing = None \/ socket = None \/ (socket # None /\ ready[socket] # "open")
         THEN UNCHANGED <<refreshing, rotate>>
         ELSE /\ refreshing' = TRUE
              /\ rotate' = [rotate EXCEPT ![Any(FreshRotates)] =
                             [at |-> "sent", held |-> pairing, next |-> None, sock |-> socket]]

OnPaired(s) ==
    /\ toDesk[s] # <<>> /\ Head(toDesk[s]) = "paired"
    /\ Received(s)
    /\ IF ready[s] = "closed" THEN UNCHANGED <<refreshing, rotate>> ELSE RotatePairing
    /\ UNCHANGED <<desk, socket, connected, pairing, shown, rotation, retry, attempt, ready, token,
                   toRelay, relay, bounds>>

(* Mutant: a displaced desktop reconnects too. *)
BugReconnects(kind) == immediate \/ conf.reconnect
Reconnects(kind) == kind # "displaced" /\ (immediate \/ conf.reconnect)

(* The close event: only the current socket's one changes the state.  4001   *)
(* means that another instance has taken over: no reconnection.              *)
OnClose(s) ==
    /\ toDesk[s] # <<>> /\ Head(toDesk[s]) \in {"displaced", "lost", "bye"}
    /\ Received(s)
    /\ ready' = [ready EXCEPT ![s] = "closed"]
    /\ token' = IF toRelay[s] = <<>> THEN [token EXCEPT ![s] = None] ELSE token
    /\ IF socket = s
         THEN /\ immediate' = FALSE
              /\ ClearConnectionState
              /\ displaced' = (Head(toDesk[s]) = "displaced")
              /\ UNCHANGED <<conf, requested, generation, disposed>>
              /\ IF Reconnects(Head(toDesk[s]))
                   THEN ScheduleConnect(TRUE) ELSE UNCHANGED retry
         ELSE UNCHANGED <<desk, view, retry>>
    /\ UNCHANGED <<attempt, rotate, toRelay, relay, bounds>>

-----------------------------------------------------------------------------
(* Replacing the ticket *)

RotateTimer ==
    /\ rotation
    /\ rotation' = FALSE
    /\ RotatePairing
    /\ UNCHANGED <<desk, socket, connected, pairing, shown, retry, attempt, wire, relay, bounds>>

(* The relay: POST /bridge/api/bridge/rotate *)
RotateServed(r) ==
    /\ rotate[r].at = "sent"
    /\ IF ticket # None /\ rotate[r].held = ticket /\ bridge # None
         THEN /\ IssueTicket
              /\ rotate' = [rotate EXCEPT ![r].at = "answer", ![r].next = FreshTicket]
         ELSE rotate' = [rotate EXCEPT ![r].at = "failed"] /\ UNCHANGED <<ticket, used>>
    /\ UNCHANGED <<desk, view, retry, attempt, wire, bridge, bounds>>

RotateAnswered(r) ==
    /\ rotate[r].at = "answer"
    /\ rotate' = [rotate EXCEPT ![r] = NoRotate]
    /\ IF pairing = rotate[r].held
         THEN /\ pairing' = rotate[r].next
              /\ shown' = rotate[r].next
              /\ refreshing' = FALSE
              /\ ScheduleRotation
         ELSE UNCHANGED <<pairing, shown, refreshing, rotation>>
    /\ UNCHANGED <<desk, socket, connected, retry, attempt, wire, relay, bounds>>

(* The desktop reads the clock: past expiresAt only a new connection helps.  *)
RotateFailed(r, expired) ==
    /\ rotate[r].at = "failed"
    /\ rotate' = [rotate EXCEPT ![r] = NoRotate]
    /\ CASE pairing # rotate[r].held -> UNCHANGED <<immediate, refreshing, rotation, wire>>
         [] pairing = rotate[r].held /\ expired ->
              immediate' = TRUE /\ Close(rotate[r].sock) /\ UNCHANGED <<refreshing, rotation>>
         [] OTHER ->
              /\ refreshing' = FALSE /\ ScheduleRotation
              /\ UNCHANGED <<immediate, wire>>
    /\ UNCHANGED <<conf, requested, generation, disposed, displaced, socket, connected, pairing,
                   shown, retry, attempt, relay, bounds>>

-----------------------------------------------------------------------------
(* The user, through the local routes and the settings *)

(* Commands, pairings, takeovers and faults share one bound. *)
Happens == events < MaxEvents /\ events' = events + 1
Command == ~disposed /\ Happens

ConnectNow ==
    /\ Command
    /\ requested' = TRUE
    /\ displaced' = FALSE
    /\ IF connected \/ socket # None
         THEN UNCHANGED <<generation, retry>>
         ELSE Supersede /\ ScheduleConnect(TRUE)
    /\ UNCHANGED <<conf, immediate, disposed, view, attempt, rotate, wire, relay, other>>

DisconnectNow ==
    /\ Command
    /\ requested' = FALSE /\ Supersede /\ immediate' = FALSE
    /\ displaced' = FALSE
    /\ retry' = FALSE
    /\ ClearConnectionState
    /\ Close(socket)
    /\ UNCHANGED <<conf, disposed, attempt, rotate, relay, other>>

(* handleSettingsChange with a changed connection, and restartConnection *)
ChangeSettings(c) ==
    /\ Command
    /\ conf' = c
    /\ requested' = c.connect /\ Supersede /\ immediate' = FALSE
    /\ displaced' = FALSE
    /\ ClearConnectionState
    /\ Close(socket)
    /\ ScheduleConnect(TRUE)
    /\ UNCHANGED <<disposed, attempt, rotate, relay, other>>

Dispose ==
    /\ Command
    /\ disposed' = TRUE /\ requested' = FALSE /\ Supersede
    /\ retry' = FALSE /\ rotation' = FALSE
    /\ Close(socket)
    /\ UNCHANGED <<conf, immediate, displaced, socket, connected, pairing, shown, refreshing,
                   attempt, rotate, relay, other>>

-----------------------------------------------------------------------------
(* What else happens *)

(* pairDevice: a phone that has scanned the QR code uses the live ticket. *)
Pair ==
    /\ Happens
    /\ ticket # None /\ ticket = shown /\ ~used
    /\ bridge # None
    /\ used' = TRUE
    /\ toDesk' = [s \in Sockets |-> IF s = bridge THEN Append(toDesk[s], "paired") ELSE toDesk[s]]
    /\ UNCHANGED <<desk, view, retry, attempt, rotate, ready, token, toRelay, ticket, bridge,
                   other>>

(* Another instance of the host with the same identity connects. *)
TakeoverStart ==
    /\ Happens
    /\ other = None
    /\ IssueTicket
    /\ other' = FreshTicket
    /\ UNCHANGED <<desk, view, retry, attempt, rotate, wire, bridge>>

TakeoverOpen ==
    /\ other # None
    /\ other' = None
    /\ IF other = ticket
         THEN /\ bridge' = Other
              /\ toDesk' = [s \in Sockets |->
                              IF s = bridge THEN Append(toDesk[s], "displaced") ELSE toDesk[s]]
         ELSE UNCHANGED <<bridge, toDesk>>
    /\ UNCHANGED <<desk, view, retry, attempt, rotate, ready, token, toRelay, ticket, used,
                   events>>

(* A request or its answer is lost. *)
RequestLost ==
    /\ Happens
    /\ \/ \E a \in Attempts : /\ attempt[a].at \in {"start", "answer"}
                              /\ attempt' = [attempt EXCEPT ![a].at = "failed", ![a].ticket = None]
                              /\ UNCHANGED rotate
       \/ \E r \in Rotations : /\ rotate[r].at \in {"sent", "answer"}
                               /\ rotate' = [rotate EXCEPT ![r].at = "failed", ![r].next = None]
                               /\ UNCHANGED attempt
    /\ UNCHANGED <<desk, view, retry, wire, relay, other>>

(* A socket breaks: what was under way on it is lost, a close frame too. *)
SocketLost(s) ==
    /\ Happens
    /\ ready[s] \in {"connecting", "open"}
    /\ toDesk' = [toDesk EXCEPT ![s] = <<"lost">>]
    /\ toRelay' = [toRelay EXCEPT ![s] = <<"gone">>]
    /\ UNCHANGED <<desk, view, retry, attempt, rotate, ready, token, relay, other>>

(* The relay restarts: its tickets and sockets are only in memory. *)
RelayRestarts ==
    /\ Happens
    /\ ticket' = None /\ used' = FALSE /\ bridge' = None
    /\ toDesk' = [s \in Sockets |-> IF ready[s] = "closed" THEN <<>> ELSE <<"lost">>]
    /\ toRelay' = [s \in Sockets |-> <<>>]
    /\ UNCHANGED <<desk, view, retry, attempt, rotate, ready, token, other>>

Next ==
    \/ Dial \/ RotateTimer
    \/ \E a \in Attempts : StartServed(a) \/ StartAnswered(a) \/ KeyDerived(a) \/ StartFailed(a)
    \/ \E s \in Sockets : Upgrade(s) \/ RelayCloses(s) \/ OnOpen(s) \/ OnPaired(s) \/ OnClose(s)
                          \/ SocketLost(s)
    \/ \E r \in Rotations : RotateServed(r) \/ RotateAnswered(r)
                             \/ \E expired \in BOOLEAN : RotateFailed(r, expired)
    \/ ConnectNow \/ DisconnectNow \/ Dispose \/ \E c \in Configs : ChangeSettings(c)
    \/ Pair \/ TakeoverStart \/ TakeoverOpen \/ RequestLost \/ RelayRestarts

(* Timers fire, requests and frames arrive or fail, and time passes. *)
Fairness ==
    /\ WF_vars(Dial) /\ WF_vars(RotateTimer)
    /\ \A a \in Attempts : WF_vars(StartServed(a) \/ StartAnswered(a) \/ KeyDerived(a)
                                   \/ StartFailed(a))
    /\ \A s \in Sockets : /\ WF_vars(Upgrade(s) \/ RelayCloses(s))
                          /\ WF_vars(OnOpen(s) \/ OnPaired(s) \/ OnClose(s))
    /\ \A r \in Rotations : /\ WF_vars(RotateServed(r) \/ RotateAnswered(r)
                                       \/ \E expired \in BOOLEAN : RotateFailed(r, expired))
                            /\ SF_vars(RotateFailed(r, TRUE))

Spec == Init /\ [][Next]_vars /\ Fairness

-----------------------------------------------------------------------------
MaybeTicket == Tickets \cup {None}
Attempt == [at : {"none", "start", "answer", "deriving", "failed"}, gen : Nat,
            ticket : MaybeTicket]
Rotate == [at : {"none", "sent", "answer", "failed"}, held : MaybeTicket,
           next : MaybeTicket, sock : Sockets \cup {None}]
ToRelay == {"upgrade", "close", "gone"}
ToDesk == {"open", "paired", "displaced", "lost", "bye"}

(* Types of the state *)
TypeOK ==
    /\ conf \in Config /\ requested \in BOOLEAN /\ generation \in Nat
    /\ immediate \in BOOLEAN /\ disposed \in BOOLEAN /\ displaced \in BOOLEAN
    /\ retry \in BOOLEAN /\ rotation \in BOOLEAN /\ connected \in BOOLEAN
    /\ refreshing \in BOOLEAN /\ used \in BOOLEAN
    /\ socket \in Sockets \cup {None}
    /\ pairing \in MaybeTicket /\ shown \in MaybeTicket
    /\ ticket \in MaybeTicket /\ other \in MaybeTicket
    /\ attempt \in [Attempts -> Attempt] /\ rotate \in [Rotations -> Rotate]
    /\ ready \in [Sockets -> {"closed", "connecting", "open", "closing"}]
    /\ token \in [Sockets -> MaybeTicket]
    /\ toRelay \in [Sockets -> Seq(ToRelay)] /\ toDesk \in [Sockets -> Seq(ToDesk)]
    /\ bridge \in Sockets \cup {None, Other}
    /\ events \in Nat

Live(a) == attempt[a].at # "none" /\ Current(a)

(* However commands, settings, failures and timers interleave, the desktop   *)
(* works on at most one connection: one attempt of the current generation,   *)
(* or one socket, or one retry timer; and a socket it has not closed is the  *)
(* one it knows: an abandoned attempt never leaves a second connection       *)
(* behind (index.ts:366-369, 532-539, 687-806).                              *)
OneConnection ==
    /\ \A a, b \in Attempts : Live(a) /\ Live(b) => a = b
    /\ \A a \in Attempts : Live(a) => socket = None /\ ~retry
    /\ retry => socket = None
    /\ \A s \in Sockets : ready[s] \in {"connecting", "open"} => s = socket

(* After the relay has closed the desktop with 4001 nothing brings it back   *)
(* but a command: two instances do not compete (index.ts:773-775).           *)
StaysDown ==
    displaced => socket = None /\ ~retry /\ \A a \in Attempts : ~Live(a)

(* While the desktop is connected it shows the ticket it holds, and the      *)
(* replacement of that ticket is scheduled, under way, or given up for a new *)
(* connection: the QR code cannot go stale silently (index.ts:603-640).      *)
TicketIsTended ==
    connected /\ ~disposed =>
        /\ pairing # None /\ shown = pairing
        /\ \/ rotation
           \/ ready[socket] = "closing"
           \/ \E r \in Rotations : rotate[r].at # "none" /\ rotate[r].held = pairing

Usable == connected /\ ~refreshing /\ bridge = socket /\ shown = ticket /\ ~used
Resting == ~refreshing /\ (~requested \/ ~conf.reconnect \/ displaced)

(* Whatever was lost, reordered or restarted, a desktop that is to stay      *)
(* connected always gets back to showing a ticket the relay accepts, and one *)
(* that is not ends its progress indicator (docs/mobile-bridge-device-model  *)
(* .md:19, index.ts:503-508).                                                *)
ComesBack == []<>(Usable \/ Resting \/ disposed)
=============================================================================
