---------------------------- MODULE RoomLifecycle ----------------------------
(***************************************************************************)
(* Which rooms a workspace has open (packages/group-chat/src/index.ts).      *)
(* Every three seconds a discover pass reads the joined rooms, refreshes the *)
(* reply policy and the model of the open ones and opens the others; a slow  *)
(* pass and the next one overlap.  Opening a room resolves or creates its    *)
(* session, installs the room's model and starts its poll loop.  Dissolving  *)
(* a room closes it.  Selecting a model goes through the host, which takes   *)
(* every selection for the user's default, so the plugin puts that back.     *)
(* RoomFeed has what an open room does.                                      *)
(***************************************************************************)
EXTENDS Naturals

CONSTANTS Rooms,     \* numbers: the order in which the server lists them
          Passes,    \* bound: discover passes under way at one time
          Applies,   \* bound: applyModelSelection calls under way at one time
          Policies,  \* reply policies
          Models,    \* model selections (modelKeyOf)
          None,      \* no runtime; no model
          Initial,   \* settings of the rooms at the start
          Defaults,  \* default models at the start
          Faults,    \* what may happen: "list", "resolve", "create", "select",
                     \* "restore", "restart", "user" (who chooses a default)
          MaxChanges, \* bound: changes of rooms and choices of the user
          MaxFailures \* bound: failures and restarts

ASSUME LifecycleAssumption ==
    /\ Rooms \subseteq Nat
    /\ Initial \subseteq [policy : Policies, model : Models \cup {None}]
    /\ Defaults \subseteq Models
    /\ None \notin Models /\ None \notin [policy : Policies, model : Models \cup {None}]
    /\ Passes \subseteq Nat /\ Rooms \cap Applies = {}
    /\ MaxChanges \in Nat /\ MaxFailures \in Nat

VARIABLES
    room,       \* the server: this member's standing in each room, its settings
    stored,     \* the host: each room's session, "absent", "blank" or "used"
    live,       \* the host: rooms whose session is in the process's registry
    chosen,     \* the host: the model each room's session runs on
    default,    \* the host: agent-default-model
    users,      \* history: the default the user last chose, or None when calls
                \* overlapped since, or one was cut off
    minted,     \* history: a create gave another session than the room's
    runtimes,   \* open rooms, with the settings they were given last
    loops,      \* poll intervals of each room that run
    pass,       \* discover passes: where each awaits and what it has to do
    opening,    \* RoomSessions.pending: where the open of a session awaits
    sel,        \* selectRoomModel calls, of an open session or an apply
    dissolving, \* rooms whose dissolution was answered, before closeRoom
    overlapped, \* history: two passes were under way at one time
    changes, failures

hostVars == <<stored, live, chosen, default, users, minted>>
openVars == <<runtimes, loops>>
vars == <<room, hostVars, openVars, pass, opening, sel, dissolving, overlapped, changes,
          failures>>

Settings == [policy : Policies, model : Models \cup {None}]
NoPass == [at |-> "idle", list |-> [r \in Rooms |-> None], on |-> None]
NoOpening == [at |-> "none", model |-> None]
NoSel == [at |-> "none", room |-> None, model |-> None, before |-> None]

Init ==
    /\ \E i \in [Rooms -> Initial] :
         room = [r \in Rooms |-> [standing |-> "joined", policy |-> i[r].policy,
                                 model |-> i[r].model]]
    /\ stored = [r \in Rooms |-> "absent"] /\ live = {}
    /\ chosen = [r \in Rooms |-> None]
    /\ default \in Defaults /\ users = default /\ minted = FALSE
    /\ runtimes = [r \in Rooms |-> None] /\ loops = [r \in Rooms |-> 0]
    /\ pass = [p \in Passes |-> NoPass]
    /\ opening = [r \in Rooms |-> NoOpening]
    /\ sel = [o \in Rooms \cup Applies |-> NoSel]
    /\ dissolving = {} /\ overlapped = FALSE
    /\ changes = 0 /\ failures = 0

Happens == changes < MaxChanges /\ changes' = changes + 1 /\ UNCHANGED failures
Fails(f) ==
    /\ f \in Faults /\ failures < MaxFailures
    /\ failures' = failures + 1 /\ UNCHANGED changes
Quietly == UNCHANGED <<changes, failures>>

-----------------------------------------------------------------------------
(* Other members and this one change what the server knows, and the user     *)
(* chooses a default model.                                                  *)
Change(r) ==
    /\ Happens
    /\ room[r].standing # "gone"
    /\ \/ \E p \in Policies : room' = [room EXCEPT ![r].policy = p]
       \/ \E m \in Models \cup {None} : room' = [room EXCEPT ![r].model = m]
       \/ \E s \in {"joined", "away"} : room' = [room EXCEPT ![r].standing = s]
    /\ room' # room
    /\ UNCHANGED <<hostVars, openVars, pass, opening, sel, dissolving, overlapped>>

UserChooses ==
    /\ "user" \in Faults /\ Happens
    /\ \E m \in Models :
         /\ default' = m
         /\ users' = IF \E o \in DOMAIN sel : sel[o] # NoSel THEN None ELSE m
    /\ UNCHANGED <<room, stored, live, chosen, minted, openVars, pass, opening, sel,
                   dissolving, overlapped>>

-----------------------------------------------------------------------------
(* Selecting a model (selectRoomModel).                                      *)

(* Mutant: the default is read after the selection.                          *)
BugSelecting(r, m) == [at |-> "asked", room |-> r, model |-> m, before |-> m]
Selecting(r, m) == [at |-> "asked", room |-> r, model |-> m, before |-> default]

(* Every pass that waits for the session of r has it, or fails with it.      *)
Waits(p, r) == pass[p].at = "ensure" /\ pass[p].on = r

(* Mutant: a failed open stays pending. *)
BugOpeningEnds(r, ok) ==
    /\ opening' = IF ok THEN [opening EXCEPT ![r] = NoOpening] ELSE opening
    /\ pass' = [p \in Passes |->
                  IF ~Waits(p, r) THEN pass[p]
                  ELSE IF ok THEN [pass[p] EXCEPT !.at = "members"] ELSE NoPass]

OpeningEnds(r, ok) ==
    /\ opening' = [opening EXCEPT ![r] = NoOpening]
    /\ pass' = [p \in Passes |->
                  IF ~Waits(p, r) THEN pass[p]
                  ELSE IF ok THEN [pass[p] EXCEPT !.at = "members"] ELSE NoPass]

(* The call of o is over; it was the last await of an open, or an apply.     *)
SelectEnds(o, ok) ==
    /\ sel' = [sel EXCEPT ![o] = NoSel]
    /\ IF o \in Rooms THEN OpeningEnds(o, ok) ELSE UNCHANGED <<opening, pass>>

(* Another call under way while this one ends.                               *)
Undisturbed(o) ==
    IF \E q \in DOMAIN sel \ {o} : sel[q] # NoSel THEN None ELSE users

(* The host selects the model, and saves it as the default.                  *)
Selected(o) ==
    /\ sel[o].at = "asked"
    /\ chosen' = [chosen EXCEPT ![sel[o].room] = sel[o].model]
    /\ default' = sel[o].model
    /\ IF sel[o].before = sel[o].model
         THEN SelectEnds(o, TRUE)
         ELSE sel' = [sel EXCEPT ![o].at = "saved"] /\ UNCHANGED <<opening, pass>>
    /\ users' = Undisturbed(o)
    /\ UNCHANGED <<room, stored, live, minted, openVars, dissolving, overlapped>>
    /\ Quietly

(* 60 ms later the default of before is put back.                            *)
Restore(o) ==
    /\ sel[o].at = "saved"
    /\ \/ default' = sel[o].before /\ users' = Undisturbed(o) /\ Quietly
       \/ Fails("restore") /\ users' = None /\ UNCHANGED default
    /\ SelectEnds(o, TRUE)
    /\ UNCHANGED <<room, stored, live, chosen, minted, openVars, dissolving, overlapped>>

(* The host refuses.  Only the open of a new session fails with it.          *)
SelectFails(o) ==
    /\ sel[o].at = "asked" /\ Fails("select")
    /\ SelectEnds(o, o \in Applies \/ opening[o].at = "install")
    /\ users' = Undisturbed(o)
    /\ UNCHANGED <<room, stored, live, chosen, default, minted, openVars, dissolving,
                   overlapped>>

-----------------------------------------------------------------------------
(* RoomSessions.open.                                                        *)

(* installRoomModel with the model the first pass asked for, unless the      *)
(* session runs on it already.                                               *)
Install(r, how) ==
    IF opening[r].model \in {None, chosen[r]}
      THEN OpeningEnds(r, TRUE) /\ UNCHANGED sel
      ELSE /\ opening' = [opening EXCEPT ![r].at = how]
           /\ sel' = [sel EXCEPT ![r] = Selecting(r, opening[r].model)]
           /\ UNCHANGED pass

(* resolvePersisted: a stored session is loaded.  Mutant: only the registry  *)
(* is asked, and a session it does not have is created.                      *)
BugResolve(r) ==
    /\ opening[r].at = "resolve"
    /\ opening' = [opening EXCEPT ![r].at = "create"]
    /\ UNCHANGED <<room, hostVars, openVars, pass, sel, dissolving, overlapped>>
    /\ Quietly

Resolve(r) ==
    /\ opening[r].at = "resolve"
    /\ IF stored[r] = "absent"
         THEN /\ opening' = [opening EXCEPT ![r].at = "create"]
              /\ UNCHANGED <<live, pass, sel>>
         ELSE /\ live' = live \cup {r}
              /\ Install(r, "install")
    /\ UNCHANGED <<room, stored, chosen, default, users, minted, openVars, dissolving,
                   overlapped>>
    /\ Quietly

(* sessionController.create: a session that has run a turn is not given out  *)
(* again, a new one takes its place; the plugin archives that one and fails. *)
Create(r) ==
    /\ opening[r].at = "create"
    /\ IF stored[r] = "used"
         THEN /\ minted' = TRUE
              /\ OpeningEnds(r, FALSE)
              /\ UNCHANGED <<stored, live, sel>>
         ELSE /\ stored' = [stored EXCEPT ![r] = "blank"]
              /\ live' = live \cup {r}
              /\ Install(r, "installNew")
              /\ UNCHANGED minted
    /\ UNCHANGED <<room, chosen, default, users, openVars, dissolving, overlapped>>
    /\ Quietly

OpeningFails(r) ==
    /\ \/ opening[r].at = "resolve" /\ Fails("resolve")
       \/ opening[r].at = "create" /\ Fails("create")
    /\ OpeningEnds(r, FALSE)
    /\ UNCHANGED <<room, hostVars, openVars, sel, dissolving, overlapped>>

(* A turn runs in the session of a room: a warm-up or a member's message.    *)
Turn(r) ==
    /\ r \in live /\ stored[r] = "blank"
    /\ stored' = [stored EXCEPT ![r] = "used"]
    /\ UNCHANGED <<room, live, chosen, default, users, minted, openVars, pass, opening, sel,
                   dissolving, overlapped>>
    /\ Quietly

-----------------------------------------------------------------------------
(* discover.                                                                 *)

UnderWay == {p \in Passes : pass[p].at # "idle"}

(* The interval fires; a pass takes the least number that is free. *)
Discover(p) ==
    /\ pass[p].at = "idle"
    /\ \A q \in Passes : q < p => q \in UnderWay
    /\ pass' = [pass EXCEPT ![p].at = "list"]
    /\ overlapped' = (overlapped \/ UnderWay # {})
    /\ UNCHANGED <<room, hostVars, openVars, opening, sel, dissolving>>
    /\ Quietly

Listed(p) ==
    /\ pass[p].at = "list"
    /\ pass' = [pass EXCEPT ![p] =
                   [at |-> "listed", on |-> None,
                    list |-> [r \in Rooms |->
                                IF room[r].standing = "joined"
                                  THEN [policy |-> room[r].policy, model |-> room[r].model]
                                  ELSE None]]]
    /\ UNCHANGED <<room, hostVars, openVars, opening, sel, dissolving, overlapped>>
    /\ Quietly

ListFails(p) ==
    /\ pass[p].at = "list" /\ Fails("list")
    /\ pass' = [pass EXCEPT ![p] = NoPass]
    /\ UNCHANGED <<room, hostVars, openVars, opening, sel, dissolving, overlapped>>

(* What remains of the list is gone through up to the next room that is not  *)
(* open.  An open room takes over its settings, and a model that is not the  *)
(* one it was given last is applied, by a call nobody waits for.             *)
(* Mutant: the policy an open room was opened with stays.                    *)
BugRefreshed(r, with) == [with EXCEPT !.policy = runtimes[r].policy]
Refreshed(r, with) == with

NextClosed(todo) ==
    {r \in todo : /\ runtimes[r] = None
                  /\ \A s \in todo : s < r => runtimes[s] # None}

(* Free places for the calls of applyModelSelection to these rooms.          *)
Placings(apply) ==
    {place \in [apply -> {a \in Applies : sel[a] = NoSel}] :
        \A r, s \in apply : r # s => place[r] # place[s]}
Places(apply) == CHOOSE place \in Placings(apply) : TRUE

Advance(p) ==
    /\ pass[p].at \in {"listed", "synced"}
    /\ LET list == pass[p].list
           todo == {r \in Rooms : list[r] # None}
           next == NextClosed(todo)
           open == {r \in todo : \A n \in next : r < n}
           apply == {r \in open : list[r].model \notin {runtimes[r].model, None}}
           after == [r \in Rooms |-> IF r \in open THEN None ELSE list[r]]
       IN /\ Placings(apply) # {}
          /\ runtimes' = [r \in Rooms |-> IF r \in open THEN Refreshed(r, list[r])
                                          ELSE runtimes[r]]
          /\ sel' = [o \in DOMAIN sel |->
                       IF \E r \in apply : Places(apply)[r] = o
                         THEN LET r == CHOOSE r \in apply : Places(apply)[r] = o
                              IN Selecting(r, list[r].model)
                         ELSE sel[o]]
          /\ IF next = {}
               THEN pass' = [pass EXCEPT ![p] = NoPass] /\ UNCHANGED opening
               ELSE LET r == CHOOSE r \in next : TRUE IN
                    /\ pass' = [pass EXCEPT ![p] =
                                  [at |-> IF r \in live THEN "members" ELSE "ensure",
                                   list |-> after, on |-> r]]
                    /\ opening' = IF r \notin live /\ opening[r] = NoOpening
                                    THEN [opening EXCEPT ![r] = [at |-> "resolve",
                                                                 model |-> list[r].model]]
                                    ELSE opening
    /\ UNCHANGED <<room, hostVars, loops, dissolving, overlapped>>
    /\ Quietly

(* The rest of open(): the roster has come or not, the poll loop starts, the *)
(* room is registered and its first sync awaited.                            *)
Register(p) ==
    /\ pass[p].at = "members"
    /\ LET r == pass[p].on IN
       /\ runtimes' = [runtimes EXCEPT ![r] = pass[p].list[r]]
       /\ loops' = [loops EXCEPT ![r] = @ + 1]
       /\ pass' = [pass EXCEPT ![p].at = "synced", ![p].on = None, ![p].list[r] = None]
    /\ UNCHANGED <<room, hostVars, opening, sel, dissolving, overlapped>>
    /\ Quietly

-----------------------------------------------------------------------------
(* DELETE rooms/<id>: the server dissolves the room, then it is closed.      *)
Dissolve(r) ==
    /\ Happens
    /\ room[r].standing = "joined"
    /\ room' = [room EXCEPT ![r].standing = "gone"]
    /\ dissolving' = dissolving \cup {r}
    /\ UNCHANGED <<hostVars, openVars, pass, opening, sel, overlapped>>

(* Mutant: the interval runs on.                                             *)
BugStopLoop(r) == loops
StopLoop(r) == [loops EXCEPT ![r] = @ - 1]

CloseRoom(r) ==
    /\ r \in dissolving
    /\ dissolving' = dissolving \ {r}
    /\ IF runtimes[r] = None THEN UNCHANGED openVars
       ELSE loops' = StopLoop(r) /\ runtimes' = [runtimes EXCEPT ![r] = None]
    /\ UNCHANGED <<room, hostVars, pass, opening, sel, overlapped>>
    /\ Quietly

(* The host process ends and starts again; sessions and the default are kept.*)
Restart ==
    /\ Fails("restart")
    /\ live' = {}
    /\ runtimes' = [r \in Rooms |-> None] /\ loops' = [r \in Rooms |-> 0]
    /\ pass' = [p \in Passes |-> NoPass]
    /\ opening' = [r \in Rooms |-> NoOpening]
    /\ sel' = [o \in DOMAIN sel |-> NoSel]
    /\ dissolving' = {}
    /\ users' = IF \E o \in DOMAIN sel : sel[o].at = "saved" THEN None ELSE users
    /\ UNCHANGED <<room, stored, chosen, default, minted, overlapped>>

Select(o) == Selected(o) \/ Restore(o)
PassStep(p) == Listed(p) \/ Advance(p) \/ Register(p)

Next ==
    \/ \E r \in Rooms : \/ Change(r) \/ Resolve(r) \/ Create(r) \/ OpeningFails(r)
                        \/ Turn(r) \/ Dissolve(r) \/ CloseRoom(r)
    \/ UserChooses
    \/ \E o \in Rooms \cup Applies : Select(o) \/ SelectFails(o)
    \/ \E p \in Passes : Discover(p) \/ PassStep(p) \/ ListFails(p)
    \/ Restart

(* The interval fires, and what is awaited ends.  Nobody has to change a     *)
(* room, and no turn has to run.                                             *)
Fairness ==
    /\ \A p \in Passes : WF_vars(Discover(p)) /\ WF_vars(PassStep(p))
    /\ \A r \in Rooms : WF_vars(Resolve(r) \/ Create(r)) /\ WF_vars(CloseRoom(r))
    /\ \A o \in Rooms \cup Applies : WF_vars(Select(o))

Spec == Init /\ [][Next]_vars
FairSpec == Spec /\ Fairness

-----------------------------------------------------------------------------
(* Types of the state *)
TypeOK ==
    /\ room \in [Rooms -> [standing : {"joined", "away", "gone"}, policy : Policies,
                           model : Models \cup {None}]]
    /\ stored \in [Rooms -> {"absent", "blank", "used"}]
    /\ live \subseteq Rooms
    /\ chosen \in [Rooms -> Models \cup {None}]
    /\ default \in Models /\ users \in Models \cup {None} /\ minted \in BOOLEAN
    /\ runtimes \in [Rooms -> Settings \cup {None}]
    /\ loops \in [Rooms -> Nat]
    /\ pass \in [Passes -> [at : {"idle", "list", "listed", "ensure", "members", "synced"},
                            list : [Rooms -> Settings \cup {None}],
                            on : Rooms \cup {None}]]
    /\ opening \in [Rooms -> [at : {"none", "resolve", "create", "install", "installNew"},
                               model : Models \cup {None}]]
    /\ sel \in [Rooms \cup Applies -> [at : {"none", "asked", "saved"},
                                       room : Rooms \cup {None}, model : Models \cup {None},
                                       before : Models \cup {None}]]
    /\ dissolving \subseteq Rooms /\ overlapped \in BOOLEAN
    /\ changes \in 0..MaxChanges /\ failures \in 0..MaxFailures

(* A room keeps one session: whatever passes overlap, opens fail and hosts   *)
(* restart, the host is never asked to create one that has run a turn, which *)
(* would mint another (the 16,004 directories of index.ts:388-394).          *)
NoReplacement == ~minted

(* "One in-flight open per room" (index.ts:400): a session is created by one *)
(* open, for which a pass waits, and an open that waits for nothing is over. *)
OpeningIsWatched ==
    \A r \in Rooms :
        /\ (opening[r].at # "none") <=> \E p \in Passes : Waits(p, r)
        /\ (opening[r].at \in {"install", "installNew"}) <=> (sel[r].at # "none")

(* Unless two passes overlapped, an open room has one poll loop, and a       *)
(* closed one none (index.ts:803-817).                                       *)
LoopIsOwned ==
    ~overlapped => \A r \in Rooms : loops[r] = IF runtimes[r] = None THEN 0 ELSE 1

(* A room this member is in ends up open, with the policy the server has and *)
(* its model noted, whatever stale lists the passes still work through ("a   *)
(* room nobody opened is a room whose messages never reach the agent",       *)
(* index.ts:1266-1271).                                                      *)
UpToDate(r) ==
    room[r].standing = "joined" =>
        runtimes[r] = [policy |-> room[r].policy, model |-> room[r].model]
RoomsCatchUp == \A r \in Rooms : <>[]UpToDate(r)

(* A room's session ends up on the room's model: "The next `discover`        *)
(* retries because `modelKey` is only advanced on success"                   *)
(* (index.ts:933-934).                                                       *)
ModelCatchesUp ==
    \A r \in Rooms :
        <>[](room[r].standing = "joined" /\ room[r].model # None
               => chosen[r] = room[r].model)

(* "Apply a room's model without changing the user's deployment default"     *)
(* (index.ts:269): when no selection is under way, the default is the one    *)
(* the user chose last, unless selections overlapped, the user chose during  *)
(* one, or one was cut off before its end.                                   *)
DefaultIsKept ==
    (\A o \in DOMAIN sel : sel[o] = NoSel) /\ users # None => default = users
=============================================================================
