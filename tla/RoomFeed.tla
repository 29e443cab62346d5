------------------------------ MODULE RoomFeed -------------------------------
(***************************************************************************)
(* How the messages of one room reach this workspace's agent               *)
(* (packages/group-chat/src: index.ts, stream.ts).  The room server is the *)
(* authority on order: message i is its i-th event.  It pushes new events   *)
(* over a socket and answers cursor reads; the plugin de-duplicates both    *)
(* by id (RoomEventTracker), decides whether the message wakes the agent    *)
(* and hands it over as a follow-up turn or as context.  The events here    *)
(* are members' messages: an agent's reply is accepted like them, and then  *)
(* dropped because it is not a user message (see RoomUplink).               *)
(***************************************************************************)
EXTENDS Naturals, FiniteSets

CONSTANTS MaxMsgs,      \* bound: messages ever posted
          MaxRestarts,  \* bound: crashes of this workspace
          Mentions,     \* messages of this member that mention themselves
          PageSize,     \* events in one answer of listEvents
          Faults        \* what may happen: "push", "page", "resolve",
                        \* "throw", "members", "open", "whoami"

Ids == 1..MaxMsgs
Items == Ids \X {"followup", "inject"}

ASSUME FeedAssumption ==
    /\ MaxMsgs \in Nat /\ MaxRestarts \in Nat
    /\ PageSize \in Nat \ {0}
    /\ Mentions \subseteq Ids

VARIABLES
    log,          \* the server: number of events committed to the room
    connected,    \* the socket is up
    subscribed,   \* the server has processed this socket's follow
    pushes,       \* events on the socket
    phase,        \* "closed", "opening" or "open" (runtimes has the room)
    followed,     \* stream.ts: the room is in followed
    members,      \* runtime.members was read (a failed read leaves none)
    seen,         \* tracker: accepted ids
    poll,         \* sync(): where it is, its cursor and the answer it got
    booted,       \* the first discover has returned
    selfKnown,    \* selfId is known
    selfAsked,    \* selfIdResolved
    whoami,       \* the whoami request is in flight
    awaiting,     \* deliveries that wait for resolveSelfId
    agentLive,    \* ctx.agents has the room session's agent
    resolving,    \* deliveries that wait for resolveAgent: <<id, channel>>
    inbox,        \* handed to the agent, not yet in the log: <<id, channel>>
    read,         \* copies of each message in the room's session log
    restarts,
    linked,       \* history: the socket was up at some time
    dropped       \* history: accepted, and then given up by deliverToAgent

serverVars == <<log, connected, subscribed, pushes, linked>>
roomVars == <<phase, followed, members, poll, booted>>
selfVars == <<selfKnown, selfAsked, whoami, awaiting>>
agentVars == <<agentLive, resolving, inbox, dropped>>
vars == <<serverVars, roomVars, seen, selfVars, agentVars, read, restarts>>

PollState == [at : {"idle", "asked", "answered"}, cursor : 0..MaxMsgs,
              upTo : 0..MaxMsgs, more : BOOLEAN]
NoPoll == [at |-> "idle", cursor |-> 0, upTo |-> 0, more |-> FALSE]

Init ==
    /\ log = 0
    /\ connected = FALSE /\ subscribed = FALSE /\ pushes = {}
    /\ phase = "closed" /\ followed = FALSE /\ members = FALSE
    /\ poll = NoPoll /\ booted = FALSE
    /\ seen = {}
    /\ selfKnown = FALSE /\ selfAsked = FALSE /\ whoami = FALSE /\ awaiting = {}
    /\ agentLive = FALSE /\ resolving = {} /\ inbox = {}
    /\ read = [i \in Ids |-> 0]
    /\ restarts = 0
    /\ linked = FALSE /\ dropped = {}

-----------------------------------------------------------------------------
(* Operators named Bug... are faulty variants of the definition that follows *)
(* them, used only to show that the properties notice such a fault.          *)

(* RoomEventTracker.cursorOf: the highest accepted id.                       *)
CursorOf(s) == IF s = {} THEN 0 ELSE CHOOSE m \in s : \A k \in s : k <= m

(* RoomEventTracker.accept: only an id that was not accepted before is new.  *)
BugAcceptAgain(ids) == ids
BugAcceptNewest(ids) == {i \in ids \ seen : \A k \in ids : k <= i}

Accepted(ids) == ids \ seen

(* shouldTriggerAgent once the account is known: the sender is this member,  *)
(* mentions themselves and is in the roster the runtime has.                 *)
Wakes(i, known) == known /\ members /\ i \in Mentions

(* The two ways into the agent: a turn of its own, or context for a later    *)
(* one.                                                                      *)
Channel(i, known) == IF Wakes(i, known) THEN "followup" ELSE "inject"

(* deliverToAgent for each of these messages: a live agent gets it at once,  *)
(* otherwise resolveAgent is awaited first.  When followup() or inject()     *)
(* throws, the message is given up without a word.                           *)
BugHandNothing(ids, known) == UNCHANGED <<resolving, inbox, dropped>>

Hand(ids, known) ==
    LET items(s) == {<<i, Channel(i, known)>> : i \in s}
    IN  \/ /\ agentLive
           /\ \E refused \in SUBSET ids :
                 /\ refused # {} => "throw" \in Faults
                 /\ inbox' = inbox \cup items(ids \ refused)
                 /\ dropped' = dropped \cup refused
           /\ UNCHANGED resolving
        \/ /\ ~agentLive
           /\ resolving' = resolving \cup items(ids)
           /\ UNCHANGED <<inbox, dropped>>

(* deliver() for a batch of records, lowest id first.  The first delivery    *)
(* that finds the account unknown starts whoami and waits for it; the ones   *)
(* after it find selfIdResolved set and are routed at once.                  *)
Deliver(ids) ==
    LET new == Accepted(ids)
        first == CHOOSE i \in new : \A k \in new : i <= k
    IN  IF phase # "open" \/ new = {}
        THEN UNCHANGED <<seen, selfVars, resolving, inbox, dropped>>
        ELSE /\ seen' = seen \cup new
             /\ UNCHANGED selfKnown
             /\ IF selfAsked
                THEN /\ Hand(new, selfKnown)
                     /\ UNCHANGED <<selfAsked, whoami, awaiting>>
                ELSE /\ selfAsked' = TRUE
                     /\ whoami' = TRUE
                     /\ awaiting' = {first}
                     /\ Hand(new \ {first}, FALSE)

-----------------------------------------------------------------------------
(* The server commits an event and pushes it to the socket that follows.     *)
Post ==
    /\ log < MaxMsgs
    /\ log' = log + 1
    /\ pushes' = IF subscribed THEN pushes \cup {log'} ELSE pushes
    /\ UNCHANGED <<connected, subscribed, linked, roomVars, seen, selfVars, agentVars,
                   read, restarts>>

(* The socket connects, or reconnects as a new socket, and follows again.    *)
Connect ==
    /\ "push" \in Faults /\ ~connected
    /\ connected' = TRUE /\ linked' = TRUE
    /\ UNCHANGED <<log, subscribed, pushes, roomVars, seen, selfVars, agentVars,
                   read, restarts>>

ServerFollow ==
    /\ connected /\ followed /\ ~subscribed
    /\ subscribed' = TRUE
    /\ UNCHANGED <<log, connected, pushes, linked, roomVars, seen, selfVars, agentVars,
                   read, restarts>>

Disconnect ==
    /\ connected
    /\ connected' = FALSE /\ subscribed' = FALSE /\ pushes' = {}
    /\ UNCHANGED <<log, linked, roomVars, seen, selfVars, agentVars, read, restarts>>

(* socket.on('event'): the oldest pushed event is delivered.                 *)
Pushed ==
    /\ pushes # {}
    /\ LET i == CHOOSE k \in pushes : \A l \in pushes : k <= l
       IN  /\ pushes' = pushes \ {i}
           /\ Deliver({i})
    /\ UNCHANGED <<log, connected, subscribed, linked, roomVars, agentLive, read,
                   restarts>>

-----------------------------------------------------------------------------
(* open(): follow the room, then wait for the session and the roster.        *)
Open ==
    /\ phase = "closed"
    /\ phase' = "opening"
    /\ followed' = TRUE
    /\ UNCHANGED <<serverVars, members, poll, booted, seen, selfVars, agentVars,
                   read, restarts>>

(* sessions.ensure threw: discover gives up and tries again next time.       *)
OpenFails ==
    /\ phase = "opening" /\ "open" \in Faults
    /\ phase' = "closed"
    /\ booted' = TRUE
    /\ UNCHANGED <<serverVars, followed, members, poll, seen, selfVars, agentVars,
                   read, restarts>>

(* seedFromSession: what the session log already holds counts as accepted.   *)
BugNoSeed == seen

Seeded == seen \cup {i \in Ids : read[i] > 0}

(* The rest of open(): seed, register the runtime, start the first sync.     *)
OpenReady(roster) ==
    /\ phase = "opening"
    /\ roster \/ "members" \in Faults
    /\ phase' = "open"
    /\ members' = roster
    /\ seen' = Seeded
    /\ poll' = [NoPoll EXCEPT !.at = "asked", !.cursor = CursorOf(seen')]
    /\ UNCHANGED <<serverVars, followed, booted, selfVars, agentVars, read, restarts>>

(* The interval fires and sync() finds no other sync of this room running.   *)
StartSync ==
    /\ phase = "open" /\ poll.at = "idle"
    /\ poll' = [NoPoll EXCEPT !.at = "asked", !.cursor = CursorOf(seen)]
    /\ UNCHANGED <<serverVars, phase, followed, members, booted, seen, selfVars,
                   agentVars, read, restarts>>

(* The server reads one page of events after the cursor.                     *)
Answer ==
    /\ poll.at = "asked"
    /\ LET end == IF poll.cursor + PageSize < log THEN poll.cursor + PageSize ELSE log
       IN  poll' = [poll EXCEPT !.at = "answered", !.upTo = end, !.more = end < log]
    /\ UNCHANGED <<serverVars, phase, followed, members, booted, seen, selfVars,
                   agentVars, read, restarts>>

(* The finally of sync(): the room may be synced again.                      *)
BugStaysSyncing == [poll EXCEPT !.at = "failed"]

NotSyncing == NoPoll

(* listEvents threw: the sync ends, the next one starts from the cursor.     *)
PageFails ==
    /\ poll.at # "idle" /\ "page" \in Faults
    /\ poll' = NotSyncing
    /\ booted' = TRUE
    /\ UNCHANGED <<serverVars, phase, followed, members, seen, selfVars, agentVars,
                   read, restarts>>

(* The cursor of the next page.                                              *)
NextCursor == poll.upTo

(* The page arrives: deliver its events, then read on or end.                *)
Page ==
    /\ poll.at = "answered"
    /\ Deliver((poll.cursor + 1)..poll.upTo)
    /\ IF poll.more /\ poll.upTo > poll.cursor
       THEN /\ poll' = [NoPoll EXCEPT !.at = "asked", !.cursor = NextCursor]
            /\ UNCHANGED booted
       ELSE poll' = NotSyncing /\ booted' = TRUE
    /\ UNCHANGED <<serverVars, phase, followed, members, agentLive, read, restarts>>

-----------------------------------------------------------------------------
(* After the first discover the account is asked for, unless a delivery      *)
(* already did.                                                              *)
BootIdentity ==
    /\ booted /\ ~selfAsked
    /\ selfAsked' = TRUE /\ whoami' = TRUE
    /\ UNCHANGED <<serverVars, roomVars, seen, selfKnown, awaiting, agentVars, read,
                   restarts>>

(* whoami answers; it answers undefined when the request failed.  What       *)
(* waited for it is routed now.                                              *)
Identity(ok) ==
    /\ whoami
    /\ ok \/ "whoami" \in Faults
    /\ whoami' = FALSE
    /\ selfKnown' = ok
    /\ awaiting' = {}
    /\ Hand(awaiting, ok)
    /\ UNCHANGED <<serverVars, roomVars, seen, selfAsked, agentLive, read, restarts>>

(* resolveAgent binds an agent and the delivery goes on (the agent may still *)
(* throw), or it fails and the delivery ends with a warning in the log.      *)
Resolved(item) ==
    /\ item \in resolving
    /\ resolving' = resolving \ {item}
    /\ agentLive' = TRUE
    /\ \/ inbox' = inbox \cup {item} /\ UNCHANGED dropped
       \/ /\ "throw" \in Faults
          /\ dropped' = dropped \cup {item[1]}
          /\ UNCHANGED inbox
    /\ UNCHANGED <<serverVars, roomVars, seen, selfVars, read, restarts>>

ResolveFails(item) ==
    /\ item \in resolving /\ "resolve" \in Faults
    /\ resolving' = resolving \ {item}
    /\ dropped' = dropped \cup {item[1]}
    /\ UNCHANGED <<serverVars, roomVars, seen, selfVars, agentLive, inbox, read,
                   restarts>>

(* warmUp() of a session without a turn binds an agent before any message    *)
(* needs one.                                                                *)
WarmUp ==
    /\ phase = "open" /\ ~agentLive
    /\ \A i \in Ids : read[i] = 0
    /\ agentLive' = TRUE
    /\ UNCHANGED <<serverVars, roomVars, seen, selfVars, resolving, inbox, dropped,
                   read, restarts>>

(* The host's driver: a follow-up becomes the message of its own turn; a     *)
(* pre-step takes all queued context.  Both write the session log.           *)
RunFollowup(i) ==
    /\ <<i, "followup">> \in inbox
    /\ inbox' = inbox \ {<<i, "followup">>}
    /\ read' = [read EXCEPT ![i] = @ + 1]
    /\ UNCHANGED <<serverVars, roomVars, seen, selfVars, agentLive, resolving,
                   dropped, restarts>>

PreStep ==
    LET context == {i \in Ids : <<i, "inject">> \in inbox}
    IN  /\ context # {}
        /\ inbox' = inbox \ {<<i, "inject">> : i \in context}
        /\ read' = [i \in Ids |-> IF i \in context THEN read[i] + 1 ELSE read[i]]
        /\ UNCHANGED <<serverVars, roomVars, seen, selfVars, agentLive, resolving,
                       dropped, restarts>>

(* The workspace crashes and starts again: only the server's events and the  *)
(* session log survive.                                                      *)
Restart ==
    /\ restarts < MaxRestarts
    /\ restarts' = restarts + 1
    /\ connected' = FALSE /\ subscribed' = FALSE /\ pushes' = {}
    /\ phase' = "closed" /\ followed' = FALSE /\ members' = FALSE
    /\ poll' = NoPoll /\ booted' = FALSE
    /\ seen' = {}
    /\ selfKnown' = FALSE /\ selfAsked' = FALSE /\ whoami' = FALSE /\ awaiting' = {}
    /\ agentLive' = FALSE /\ resolving' = {} /\ inbox' = {} /\ dropped' = {}
    /\ UNCHANGED <<log, linked, read>>

Next ==
    \/ Post \/ Connect \/ ServerFollow \/ Disconnect \/ Pushed
    \/ Open \/ OpenFails \/ \E roster \in BOOLEAN : OpenReady(roster)
    \/ StartSync \/ Answer \/ PageFails \/ Page
    \/ BootIdentity \/ \E ok \in BOOLEAN : Identity(ok)
    \/ \E item \in Items : Resolved(item) \/ ResolveFails(item)
    \/ WarmUp
    \/ \E i \in Ids : RunFollowup(i)
    \/ PreStep
    \/ Restart

(* Intervals fire, requests end, and a server that is asked again and again  *)
(* answers in the end.  Nothing forces the socket or the driver to move.     *)
Fairness ==
    /\ WF_vars(Open) /\ SF_vars(OpenReady(TRUE)) /\ WF_vars(StartSync)
    /\ SF_vars(Answer) /\ SF_vars(Page)
    /\ WF_vars(BootIdentity) /\ WF_vars(\E ok \in BOOLEAN : Identity(ok))
    /\ \A item \in Items :
          WF_vars(Resolved(item) \/ ResolveFails(item))

Spec == Init /\ [][Next]_vars
FairSpec == Spec /\ Fairness

-----------------------------------------------------------------------------
(* The types of the variables.                                               *)
TypeOK ==
    /\ log \in 0..MaxMsgs
    /\ connected \in BOOLEAN /\ subscribed \in BOOLEAN
    /\ pushes \subseteq Ids
    /\ phase \in {"closed", "opening", "open"}
    /\ followed \in BOOLEAN /\ members \in BOOLEAN
    /\ seen \subseteq Ids
    /\ poll \in PollState
    /\ booted \in BOOLEAN
    /\ selfKnown \in BOOLEAN /\ selfAsked \in BOOLEAN /\ whoami \in BOOLEAN
    /\ awaiting \subseteq Ids
    /\ agentLive \in BOOLEAN
    /\ resolving \subseteq Items /\ inbox \subseteq Items
    /\ read \in [Ids -> Nat]
    /\ restarts \in 0..MaxRestarts
    /\ linked \in BOOLEAN /\ dropped \subseteq Ids

(* Where a message can be between the tracker and the session log.           *)
Queued(i) == \E item \in resolving \cup inbox : item[1] = i
OnItsWay(i) == i \in awaiting \/ Queued(i)

(* The model reads no message twice: pushed, polled, pushed again after a    *)
(* reconnect, polled again after a crash, a message enters the session log   *)
(* once ("an event that arrives both ways is appended once", stream.ts).     *)
ReadOnce == \A i \in Ids : read[i] <= 1

(* A message is not queued for the model in two ways, and not again once it  *)
(* is in the log: the same text never starts a turn and rides along as       *)
(* context.                                                                  *)
HandedOnce ==
    /\ \A i \in Ids : OnItsWay(i) => read[i] = 0
    /\ \A i \in awaiting : ~Queued(i)
    /\ resolving \cap inbox = {}
    /\ \A a, b \in resolving \cup inbox : a[1] = b[1] => a = b

(* In each life of the workspace, what the tracker accepted is in the log or *)
(* still on its way, so moving the cursor past it loses nothing: waiting for *)
(* the account, for an agent and for a turn keeps every message, and only    *)
(* deliverToAgent itself gives one up, when resolveAgent fails or when       *)
(* followup() or inject() throws (deliver, resolveSelfId, deliverToAgent).   *)
AcceptedIsKept == \A i \in seen : read[i] > 0 \/ OnItsWay(i) \/ i \in dropped

(* While the room was fed by its cursor alone, in one life of the workspace, *)
(* nothing below the cursor is missing (cursorOf, sync).                     *)
NoGapBelowCursor ==
    ~linked /\ restarts = 0 => \A i \in 1..CursorOf(seen) : i \in seen

(* Every message posted to the room reaches this workspace's agent, its own  *)
(* "copy of every message" (README of the plugin).                           *)
EveryMessageArrives ==
    \A i \in Ids : (log >= i) ~> (read[i] > 0 \/ OnItsWay(i))

(* Below the cursor and never accepted: after a crash, a message that was    *)
(* still on its way while a later one was in the log.                        *)
Skipped(i) == i <= CursorOf(seen) /\ i \notin seen

(* The polling fallback alone gets every message there, whatever requests    *)
(* fail on the way and through crashes ("the polling loop stays as the       *)
(* fallback", stream.ts).  The exceptions are what the code loses: a message *)
(* deliverToAgent gave up, and one that a crash took from its way while a    *)
(* later one was in the log, which the seeded cursor then skips.             *)
PollingDelivers ==
    \A i \in Ids : (log >= i) ~> (\/ read[i] > 0 \/ OnItsWay(i)
                                  \/ i \in dropped \/ Skipped(i) \/ linked)
=============================================================================
