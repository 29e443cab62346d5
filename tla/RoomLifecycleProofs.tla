------------------------- MODULE RoomLifecycleProofs --------------------------
(***************************************************************************)
(* For any set of rooms, number of overlapping passes, settings, failures    *)
(* and restarts: the types; no session is replaced; an open is watched by a  *)
(* pass; a room has one poll loop while passes do not overlap; and the       *)
(* user's default model survives selections that run alone.                  *)
(***************************************************************************)
EXTENDS RoomLifecycle, WellFoundedInduction, TLAPS

Sels == Rooms \cup Applies
PassRec == [at : {"idle", "list", "listed", "ensure", "members", "synced"},
            list : [Rooms -> Settings \cup {None}], on : Rooms \cup {None}]
OpeningRec == [at : {"none", "resolve", "create", "install", "installNew"},
               model : Models \cup {None}]
SelRec == [at : {"none", "asked", "saved"}, room : Rooms \cup {None},
           model : Models \cup {None}, before : Models \cup {None}]

(* The parts of the types *)
RoomType == room \in [Rooms -> [standing : {"joined", "away", "gone"}, policy : Policies,
                                model : Models \cup {None}]]
HostType ==
    /\ stored \in [Rooms -> {"absent", "blank", "used"}]
    /\ live \subseteq Rooms
    /\ chosen \in [Rooms -> Models \cup {None}]
    /\ default \in Models /\ users \in Models \cup {None}
WorkType ==
    /\ pass \in [Passes -> PassRec]
    /\ opening \in [Rooms -> OpeningRec]
    /\ sel \in [Sels -> SelRec]

(* A session is asked for with a model, and an idle place is empty.          *)
Asked == \A o \in Sels :
    IF sel[o].at = "none" THEN sel[o] = NoSel
    ELSE sel[o].model \in Models /\ sel[o].before \in Models /\ sel[o].room \in Rooms

Types ==
    /\ RoomType /\ HostType /\ WorkType /\ Asked
    /\ \A r \in Rooms : opening[r].at = "none" => opening[r] = NoOpening
    /\ runtimes \in [Rooms -> Settings \cup {None}]
    /\ dissolving \subseteq Rooms
    /\ changes \in 0..MaxChanges /\ failures \in 0..MaxFailures
    /\ minted \in BOOLEAN /\ overlapped \in BOOLEAN

LEMMA NoRecs ==
  /\ NoPass \in PassRec /\ NoPass.at = "idle"
  /\ NoOpening \in OpeningRec /\ NoOpening.at = "none"
  /\ NoSel \in SelRec /\ NoSel.at = "none"
  BY DEF NoPass, PassRec, NoOpening, OpeningRec, NoSel, SelRec

(* What the work in progress is after a step, and what a step may not touch. *)
LEMMA OpeningEndsTypes ==
  ASSUME Types, NEW r \in Rooms, NEW ok \in BOOLEAN, OpeningEnds(r, ok)
  PROVE  /\ pass' \in [Passes -> PassRec]
         /\ opening' \in [Rooms -> OpeningRec]
         /\ opening'[r] = NoOpening
         /\ \A s \in Rooms : s # r => opening'[s] = opening[s]
         /\ \A p \in Passes :
              IF Waits(p, r)
                THEN \/ pass'[p] = NoPass
                     \/ /\ pass'[p].at = "members" /\ pass'[p].on = pass[p].on
                        /\ pass'[p].list = pass[p].list
                ELSE pass'[p] = pass[p]
  <1>1. pass \in [Passes -> PassRec] /\ opening \in [Rooms -> OpeningRec]
    BY DEF Types, WorkType
  <1>2. opening' = [opening EXCEPT ![r] = NoOpening]
    BY DEF OpeningEnds
  <1>3. ASSUME NEW p \in Passes
        PROVE  [pass[p] EXCEPT !.at = "members"] \in PassRec
    BY <1>1 DEF PassRec
  <1>4. pass' = [p \in Passes |->
                  IF ~Waits(p, r) THEN pass[p]
                  ELSE IF ok THEN [pass[p] EXCEPT !.at = "members"] ELSE NoPass]
    BY DEF OpeningEnds
  <1>5. ASSUME NEW p \in Passes
        PROVE  /\ [pass[p] EXCEPT !.at = "members"].at = "members"
               /\ [pass[p] EXCEPT !.at = "members"].on = pass[p].on
               /\ [pass[p] EXCEPT !.at = "members"].list = pass[p].list
    BY <1>1 DEF PassRec
  <1> QED BY <1>1, <1>2, <1>3, <1>4, <1>5, NoRecs

LEMMA SelectEndsTypes ==
  ASSUME Types, NEW o \in Sels, NEW ok \in BOOLEAN, SelectEnds(o, ok)
  PROVE  /\ WorkType' /\ Asked'
         /\ \A r \in Rooms : opening'[r].at = "none" => opening'[r] = NoOpening
         /\ sel'[o] = NoSel /\ \A q \in Sels : q # o => sel'[q] = sel[q]
  <1>1. sel' = [sel EXCEPT ![o] = NoSel] /\ sel \in [Sels -> SelRec]
    BY DEF SelectEnds, Types, WorkType
  <1>2. sel' \in [Sels -> SelRec] /\ sel'[o] = NoSel /\ \A q \in Sels : q # o => sel'[q] = sel[q]
    BY <1>1, NoRecs
  <1>3. Asked'
    BY <1>2, NoRecs DEF Asked, Types
  <1>4. CASE o \in Rooms
    BY <1>2, <1>3, <1>4, OpeningEndsTypes, NoRecs DEF SelectEnds, WorkType, Types
  <1>5. CASE o \notin Rooms
    BY <1>2, <1>3, <1>5 DEF SelectEnds, WorkType, Types
  <1> QED BY <1>4, <1>5

LEMMA SelectingType ==
  ASSUME Types, NEW r \in Rooms, NEW m \in Models
  PROVE  /\ Selecting(r, m) \in SelRec /\ Selecting(r, m).at = "asked"
         /\ Selecting(r, m).model \in Models /\ Selecting(r, m).before = default
         /\ Selecting(r, m).room \in Rooms /\ default \in Models
  BY DEF Selecting, SelRec, Types, HostType

LEMMA InstallTypes ==
  ASSUME Types, NEW r \in Rooms, NEW how \in {"install", "installNew"}, Install(r, how)
  PROVE  /\ WorkType' /\ Asked'
         /\ \A s \in Rooms : opening'[s].at = "none" => opening'[s] = NoOpening
         /\ \/ OpeningEnds(r, TRUE) /\ sel' = sel
            \/ /\ opening'[r].at = how /\ \A s \in Rooms : s # r => opening'[s] = opening[s]
               /\ sel'[r].at = "asked" /\ sel'[r].before = default /\ pass' = pass
               /\ \A q \in Sels : q # r => sel'[q] = sel[q]
  <1>1. /\ opening \in [Rooms -> OpeningRec] /\ sel \in [Sels -> SelRec]
        /\ pass \in [Passes -> PassRec]
    BY DEF Types, WorkType
  <1>2. CASE opening[r].model \in {None, chosen[r]}
    <2>1. OpeningEnds(r, TRUE) /\ sel' = sel
      BY <1>2 DEF Install
    <2> QED BY <1>1, <2>1, OpeningEndsTypes, NoRecs DEF WorkType, Types, Asked
  <1>3. CASE opening[r].model \notin {None, chosen[r]}
    <2>1. PICK m : m = opening[r].model
      OBVIOUS
    <2>2. m \in Models
      BY <1>1, <1>3, <2>1 DEF OpeningRec
    <2>3. PICK x : x = Selecting(r, m)
      OBVIOUS
    <2>4. /\ opening' = [opening EXCEPT ![r].at = how] /\ sel' = [sel EXCEPT ![r] = x]
          /\ pass' = pass
      BY <1>3, <2>1, <2>3 DEF Install
    <2>5. /\ x \in SelRec /\ x.at = "asked" /\ x.model \in Models /\ x.before = default
          /\ x.room \in Rooms /\ default \in Models
      BY <2>2, <2>3, SelectingType
    <2>6. /\ sel' \in [Sels -> SelRec] /\ sel'[r] = x
          /\ \A q \in Sels : q # r => sel'[q] = sel[q]
      BY <1>1, <2>4, <2>5 DEF Sels
    <2>7. /\ opening' \in [Rooms -> OpeningRec] /\ opening'[r].at = how
          /\ \A s \in Rooms : s # r => opening'[s] = opening[s]
      BY <1>1, <2>4 DEF OpeningRec
    <2>8. Asked'
      BY <2>5, <2>6 DEF Asked, Types
    <2>9. \A s \in Rooms : opening'[s].at = "none" => opening'[s] = NoOpening
      BY <2>7 DEF Types
    <2> QED BY <1>1, <2>4, <2>5, <2>6, <2>7, <2>8, <2>9 DEF WorkType
  <1> QED BY <1>2, <1>3

-----------------------------------------------------------------------------
(* What Advance does *)

LEMMA Smallest ==
  ASSUME NEW T, T \subseteq Nat, T # {}
  PROVE  \E x \in T : \A y \in T : ~(y < x)
  <1>1. \E x \in T : \A y \in T : <<y, x>> \notin OpToRel(<, Nat)
    BY NatLessThanWellFounded, WFMin
  <1> QED BY <1>1 DEF OpToRel

(* Before the first closed room of a list, all are open.                     *)
LEMMA OpenBefore ==
  ASSUME NEW todo, todo \subseteq Rooms, NEW r \in todo, \A n \in NextClosed(todo) : r < n
  PROVE  runtimes[r] # None
  <1> DEFINE T == {s \in todo : runtimes[s] = None /\ s <= r}
  <1> SUFFICES ASSUME runtimes[r] = None PROVE FALSE
    OBVIOUS
  <1>0. Rooms \subseteq Nat
    BY LifecycleAssumption
  <1>a. r \in Nat /\ todo \subseteq Nat
    BY <1>0
  <1>1. T \subseteq Nat /\ r \in T /\ r \in Nat /\ todo \subseteq Nat
    <2>1. r <= r
      BY <1>a
    <2> QED BY <1>a, <2>1
  <1>2. PICK x \in T : \A y \in T : ~(y < x)
    BY <1>1, Smallest
  <1>3. x \in Nat /\ x \in todo /\ runtimes[x] = None /\ x <= r
    BY <1>1
  <1>4. \A s \in todo : s < x => runtimes[s] # None
    BY <1>1, <1>2, <1>3
  <1>5. x \in NextClosed(todo)
    BY <1>3, <1>4 DEF NextClosed
  <1> QED BY <1>1, <1>3, <1>5

(* The calls it starts take free places, none of them that of an open.       *)
LEMMA PlacesAreFree ==
  ASSUME NEW apply, Placings(apply) # {}, NEW r \in apply
  PROVE  Places(apply)[r] \in Applies /\ sel[Places(apply)[r]] = NoSel
  <1>1. Places(apply) \in Placings(apply)
    BY DEF Places
  <1> QED BY <1>1 DEF Placings

Todo(p) == {r \in Rooms : pass[p].list[r] # None}
OpenOf(p) == {r \in Todo(p) : \A n \in NextClosed(Todo(p)) : r < n}
ApplyOf(p) == {r \in OpenOf(p) : pass[p].list[r].model \notin {runtimes[r].model, None}}

LEMMA AdvanceSel ==
  ASSUME Types, NEW p \in Passes, Advance(p)
  PROVE  /\ sel' \in [Sels -> SelRec]
         /\ \A o \in Sels :
              \/ sel'[o] = sel[o]
              \/ /\ o \in Applies /\ sel[o] = NoSel
                 /\ sel'[o].at = "asked" /\ sel'[o].before = default
                 /\ sel'[o].model \in Models /\ sel'[o].room \in Rooms
  <1> DEFINE apply == ApplyOf(p)
             list == pass[p].list
             Pick(o) == CHOOSE r \in apply : Places(apply)[r] = o
  <1>1. /\ Placings(apply) # {}
        /\ sel' = [o \in DOMAIN sel |->
                     IF \E r \in apply : Places(apply)[r] = o
                       THEN Selecting(Pick(o), list[Pick(o)].model) ELSE sel[o]]
    BY DEF Advance, ApplyOf, OpenOf, Todo
  <1>2. DOMAIN sel = Sels /\ sel \in [Sels -> SelRec]
    BY DEF Types, WorkType
  <1>3. list \in [Rooms -> Settings \cup {None}]
    BY DEF Types, WorkType, PassRec
  <1>4. ASSUME NEW r \in apply PROVE r \in Rooms /\ list[r].model \in Models
    <2>1. r \in Rooms /\ list[r] # None /\ list[r].model # None
      BY DEF ApplyOf, OpenOf, Todo
    <2>2. list[r] \in Settings
      BY <1>3, <2>1
    <2>3. list[r].model \in Models \cup {None}
      BY <2>2 DEF Settings
    <2> QED BY <2>1, <2>3
  <1> HIDE DEF apply, list
  <1>5. ASSUME NEW o \in Sels, NEW r \in apply, Places(apply)[r] = o
        PROVE  /\ o \in Applies /\ sel[o] = NoSel /\ sel'[o] \in SelRec
               /\ sel'[o].at = "asked" /\ sel'[o].before = default
               /\ sel'[o].model \in Models /\ sel'[o].room \in Rooms
    <2>1. o \in Applies /\ sel[o] = NoSel
      BY <1>1, <1>5, PlacesAreFree
    <2>2. PICK q : q = Pick(o)
      OBVIOUS
    <2>3. q \in apply
      BY <1>5, <2>2
    <2>4. sel'[o] = Selecting(q, list[q].model)
      BY <1>1, <1>2, <1>5, <2>2
    <2> QED BY <1>4, <2>1, <2>3, <2>4, SelectingType
  <1>6. ASSUME NEW o \in Sels, ~\E r \in apply : Places(apply)[r] = o PROVE sel'[o] = sel[o]
    BY <1>1, <1>2, <1>6
  <1>7. \A o \in Sels : sel'[o] \in SelRec
    BY <1>2, <1>5, <1>6
  <1>8. sel' \in [Sels -> SelRec]
    BY <1>1, <1>2, <1>7
  <1> QED BY <1>5, <1>6, <1>8

Next1(p, r) ==
    /\ r \in Rooms /\ runtimes[r] = None /\ pass[p].list[r] # None
    /\ pass' = [pass EXCEPT ![p] =
                  [at |-> IF r \in live THEN "members" ELSE "ensure",
                   list |-> [s \in Rooms |-> IF s \in OpenOf(p) THEN None ELSE pass[p].list[s]],
                   on |-> r]]
    /\ r \notin OpenOf(p)
    /\ opening' = IF r \notin live /\ opening[r] = NoOpening
                    THEN [opening EXCEPT ![r] = [at |-> "resolve", model |-> pass[p].list[r].model]]
                    ELSE opening

LEMMA AdvancePass ==
  ASSUME Types, NEW p \in Passes, Advance(p)
  PROVE  /\ runtimes' = [r \in Rooms |-> IF r \in OpenOf(p) THEN pass[p].list[r] ELSE runtimes[r]]
         /\ \A r \in OpenOf(p) : runtimes[r] # None /\ pass[p].list[r] # None
         /\ pass[p].at \in {"listed", "synced"}
         /\ \/ pass' = [pass EXCEPT ![p] = NoPass] /\ opening' = opening
            \/ \E r \in Rooms : Next1(p, r)
  <1> DEFINE next == NextClosed(Todo(p))
  <1>1. /\ pass[p].at \in {"listed", "synced"}
        /\ runtimes' = [r \in Rooms |-> IF r \in OpenOf(p) THEN pass[p].list[r] ELSE runtimes[r]]
    BY DEF Advance, OpenOf, Todo, Refreshed
  <1>2. \A r \in OpenOf(p) : runtimes[r] # None /\ pass[p].list[r] # None
    <2>1. Todo(p) \subseteq Rooms
      BY DEF Todo
    <2> QED BY <2>1, OpenBefore DEF OpenOf, Todo
  <1>3. CASE next = {}
    BY <1>1, <1>2, <1>3 DEF Advance, Todo
  <1>4. CASE next # {}
    <2>1. PICK r : r = CHOOSE x \in next : TRUE
      OBVIOUS
    <2>2. r \in next
      BY <1>4, <2>1
    <2>3. r \in Rooms /\ runtimes[r] = None /\ pass[p].list[r] # None
      BY <2>2 DEF NextClosed, Todo
    <2>4. r \notin OpenOf(p)
      BY <1>2, <2>3
    <2>5. /\ pass' = [pass EXCEPT ![p] =
                      [at |-> IF r \in live THEN "members" ELSE "ensure",
                       list |-> [s \in Rooms |-> IF s \in OpenOf(p) THEN None ELSE pass[p].list[s]],
                       on |-> r]]
          /\ opening' = IF r \notin live /\ opening[r] = NoOpening
                          THEN [opening EXCEPT ![r] = [at |-> "resolve",
                                                       model |-> pass[p].list[r].model]]
                          ELSE opening
      BY <1>4, <2>1 DEF Advance, Todo, OpenOf
    <2> QED BY <1>1, <1>2, <2>3, <2>4, <2>5 DEF Next1
  <1> QED BY <1>3, <1>4

-----------------------------------------------------------------------------
(* Types *)

LEMMA TypesInit == Init => Types
  <1> SUFFICES ASSUME Init PROVE Types
    OBVIOUS
  <1>1. RoomType
    <2>1. PICK i \in [Rooms -> Initial] :
            room = [r \in Rooms |-> [standing |-> "joined", policy |-> i[r].policy,
                                    model |-> i[r].model]]
      BY DEF Init
    <2>2. Initial \subseteq [policy : Policies, model : Models \cup {None}]
      BY LifecycleAssumption
    <2>3. ASSUME NEW r \in Rooms PROVE i[r].policy \in Policies /\ i[r].model \in Models \cup {None}
      BY <2>1, <2>2
    <2> QED BY <2>1, <2>3 DEF RoomType
  <1>2. Defaults \subseteq Models /\ MaxChanges \in Nat /\ MaxFailures \in Nat
    BY LifecycleAssumption
  <1>3. HostType /\ minted \in BOOLEAN /\ overlapped \in BOOLEAN
    BY <1>2 DEF Init, HostType
  <1>4. WorkType /\ Asked /\ \A r \in Rooms : opening[r].at = "none" => opening[r] = NoOpening
    BY NoRecs DEF Init, WorkType, Asked, Sels
  <1>5. runtimes \in [Rooms -> Settings \cup {None}] /\ dissolving \subseteq Rooms
    BY DEF Init
  <1>6. changes \in 0..MaxChanges /\ failures \in 0..MaxFailures
    BY <1>2 DEF Init
  <1> QED BY <1>1, <1>3, <1>4, <1>5, <1>6 DEF Types

(* Counting of changes and failures *)
LEMMA Counts ==
  ASSUME Types, Happens \/ Quietly \/ \E f \in Faults : Fails(f)
  PROVE  changes' \in 0..MaxChanges /\ failures' \in 0..MaxFailures
  <1>1. MaxChanges \in Nat /\ MaxFailures \in Nat
    BY LifecycleAssumption
  <1> QED BY <1>1 DEF Types, Happens, Quietly, Fails

(* What a step leaves alone keeps its type.                                  *)
LEMMA SameWork ==
  ASSUME Types, UNCHANGED <<pass, opening, sel>>
  PROVE  WorkType' /\ Asked' /\ \A r \in Rooms : opening'[r].at = "none" => opening'[r] = NoOpening
  BY DEF Types, WorkType, Asked

LEMMA TypesNext == Types /\ [Next]_vars => Types'
  <1> SUFFICES ASSUME Types, [Next]_vars PROVE Types'
    OBVIOUS
  <1>t. /\ RoomType /\ HostType /\ runtimes \in [Rooms -> Settings \cup {None}]
        /\ dissolving \subseteq Rooms /\ minted \in BOOLEAN /\ overlapped \in BOOLEAN
        /\ pass \in [Passes -> PassRec] /\ opening \in [Rooms -> OpeningRec]
        /\ sel \in [Sels -> SelRec]
    BY DEF Types, WorkType
  <1>1. ASSUME NEW r \in Rooms, Change(r) PROVE Types'
    <2>1. RoomType'
      <3>1. \/ \E v \in Policies : room' = [room EXCEPT ![r].policy = v]
            \/ \E m \in Models \cup {None} : room' = [room EXCEPT ![r].model = m]
            \/ \E v \in {"joined", "away"} : room' = [room EXCEPT ![r].standing = v]
        BY <1>1 DEF Change
      <3>2. ASSUME NEW v \in Policies, room' = [room EXCEPT ![r].policy = v] PROVE RoomType'
        BY <1>t, <3>2 DEF RoomType
      <3>3. ASSUME NEW v \in Models \cup {None}, room' = [room EXCEPT ![r].model = v] PROVE RoomType'
        BY <1>t, <3>3 DEF RoomType
      <3>4. ASSUME NEW v \in {"joined", "away"}, room' = [room EXCEPT ![r].standing = v]
            PROVE  RoomType'
        BY <1>t, <3>4 DEF RoomType
      <3> QED BY <3>1, <3>2, <3>3, <3>4
    <2>2. Happens /\ UNCHANGED <<hostVars, openVars, pass, opening, sel, dissolving, overlapped>>
      BY <1>1 DEF Change
    <2>3. HostType' /\ minted' \in BOOLEAN
      BY <1>t, <2>2 DEF hostVars, HostType
    <2> QED BY <1>t, <2>1, <2>2, <2>3, Counts, SameWork DEF Types, openVars
  <1>2. CASE UserChooses
    <2>1. /\ Happens /\ UNCHANGED <<room, stored, live, chosen, minted, openVars, pass, opening, sel,
                                    dissolving, overlapped>>
          /\ default' \in Models /\ users' \in Models \cup {None}
      BY <1>2 DEF UserChooses
    <2>2. HostType' /\ RoomType'
      BY <1>t, <2>1 DEF HostType, RoomType
    <2> QED BY <1>t, <2>1, <2>2, Counts, SameWork DEF Types, openVars
  <1>3. ASSUME NEW o \in Sels, Selected(o) PROVE Types'
    <2>1. /\ sel[o].at = "asked" /\ sel[o].model \in Models
      BY <1>3 DEF Selected, Types, Asked
    <2>2. /\ chosen' = [chosen EXCEPT ![sel[o].room] = sel[o].model] /\ default' = sel[o].model
          /\ users' = Undisturbed(o) /\ Quietly
          /\ UNCHANGED <<room, stored, live, minted, openVars, dissolving, overlapped>>
      BY <1>3 DEF Selected
    <2>3. Undisturbed(o) \in Models \cup {None}
      BY <1>t DEF Undisturbed, HostType
    <2>4. HostType' /\ RoomType'
      BY <1>t, <2>1, <2>2, <2>3 DEF HostType, RoomType
    <2>5. /\ WorkType' /\ Asked'
          /\ \A r \in Rooms : opening'[r].at = "none" => opening'[r] = NoOpening
      <3>1. CASE SelectEnds(o, TRUE)
        BY <3>1, SelectEndsTypes
      <3>2. CASE sel' = [sel EXCEPT ![o].at = "saved"] /\ UNCHANGED <<opening, pass>>
        <4>1. /\ sel' \in [Sels -> SelRec] /\ sel'[o].at = "saved"
              /\ sel'[o].model = sel[o].model /\ sel'[o].before = sel[o].before
              /\ sel'[o].room = sel[o].room
              /\ \A q \in Sels : q # o => sel'[q] = sel[q]
          BY <1>t, <3>2 DEF SelRec
        <4>2. Asked'
          BY <2>1, <4>1 DEF Asked, Types
        <4> QED BY <1>t, <3>2, <4>1, <4>2 DEF WorkType, Types
      <3> QED BY <1>3, <3>1, <3>2 DEF Selected
    <2> QED BY <1>t, <2>2, <2>4, <2>5, Counts DEF Types, openVars
  <1>4. ASSUME NEW o \in Sels, Restore(o) PROVE Types'
    <2>1. /\ sel[o].at = "saved" /\ sel[o].before \in Models
      BY <1>4 DEF Restore, Types, Asked
    <2>2. /\ Quietly \/ Fails("restore")
          /\ SelectEnds(o, TRUE)
          /\ UNCHANGED <<room, stored, live, chosen, minted, openVars, dissolving, overlapped>>
      BY <1>4 DEF Restore
    <2>3. default' \in Models /\ users' \in Models \cup {None}
      BY <1>4, <1>t, <2>1 DEF Restore, Undisturbed, HostType
    <2>4. HostType' /\ RoomType'
      BY <1>t, <2>2, <2>3 DEF HostType, RoomType
    <2>5. Quietly \/ \E f \in Faults : Fails(f)
      BY <2>2 DEF Fails
    <2> QED BY <1>t, <2>2, <2>4, <2>5, Counts, SelectEndsTypes DEF Types, openVars
  <1>5. ASSUME NEW o \in Sels, SelectFails(o) PROVE Types'
    <2>1. /\ Fails("select") /\ users' = Undisturbed(o)
          /\ UNCHANGED <<room, stored, live, chosen, default, minted, openVars, dissolving, overlapped>>
          /\ \E ok \in BOOLEAN : SelectEnds(o, ok)
      BY <1>5 DEF SelectFails
    <2>2. Undisturbed(o) \in Models \cup {None}
      BY <1>t DEF Undisturbed, HostType
    <2>3. HostType' /\ RoomType'
      BY <1>t, <2>1, <2>2 DEF HostType, RoomType
    <2>4. \E f \in Faults : Fails(f)
      BY <2>1 DEF Fails
    <2> QED BY <1>t, <2>1, <2>3, <2>4, Counts, SelectEndsTypes DEF Types, openVars
  <1>6. ASSUME NEW r \in Rooms, Resolve(r) PROVE Types'
    <2>1. /\ opening[r].at = "resolve" /\ Quietly /\ live' \subseteq Rooms
          /\ UNCHANGED <<room, stored, chosen, default, users, minted, openVars, dissolving, overlapped>>
      BY <1>6, <1>t DEF Resolve, HostType
    <2>2. HostType' /\ RoomType'
      BY <1>t, <2>1 DEF HostType, RoomType
    <2>3. /\ WorkType' /\ Asked'
          /\ \A s \in Rooms : opening'[s].at = "none" => opening'[s] = NoOpening
      <3>1. CASE opening' = [opening EXCEPT ![r].at = "create"] /\ UNCHANGED <<pass, sel>>
        <4>1. /\ opening' \in [Rooms -> OpeningRec] /\ opening'[r].at = "create"
              /\ \A s \in Rooms : s # r => opening'[s] = opening[s]
          BY <1>t, <3>1 DEF OpeningRec
        <4> QED BY <1>t, <3>1, <4>1 DEF WorkType, Types, Asked
      <3>2. CASE Install(r, "install")
        BY <3>2, InstallTypes
      <3> QED BY <1>6, <3>1, <3>2 DEF Resolve
    <2> QED BY <1>t, <2>1, <2>2, <2>3, Counts DEF Types, openVars
  <1>7. ASSUME NEW r \in Rooms, Create(r) PROVE Types'
    <2>1. /\ Quietly /\ minted' \in BOOLEAN
          /\ UNCHANGED <<room, chosen, default, users, openVars, dissolving, overlapped>>
      BY <1>7, <1>t DEF Create
    <2>2. CASE stored[r] = "used"
      <3>1. OpeningEnds(r, FALSE) /\ UNCHANGED <<stored, live, sel>>
        BY <1>7, <2>2 DEF Create
      <3>2. HostType' /\ RoomType'
        BY <1>t, <2>1, <3>1 DEF HostType, RoomType
      <3>3. /\ WorkType' /\ Asked'
            /\ \A s \in Rooms : opening'[s].at = "none" => opening'[s] = NoOpening
        BY <1>t, <3>1, OpeningEndsTypes DEF WorkType, Types, Asked
      <3> QED BY <1>t, <2>1, <3>2, <3>3, Counts DEF Types, openVars
    <2>3. CASE stored[r] # "used"
      <3>1. /\ Install(r, "installNew") /\ live' = live \cup {r}
            /\ stored' = [stored EXCEPT ![r] = "blank"]
        BY <1>7, <2>3 DEF Create
      <3>2. HostType' /\ RoomType'
        BY <1>t, <2>1, <3>1 DEF HostType, RoomType
      <3> QED BY <1>t, <2>1, <3>1, <3>2, Counts, InstallTypes DEF Types, openVars
    <2> QED BY <2>2, <2>3
  <1>8. ASSUME NEW r \in Rooms, OpeningFails(r) PROVE Types'
    <2>1. /\ OpeningEnds(r, FALSE)
          /\ Fails("resolve") \/ Fails("create")
          /\ UNCHANGED <<room, hostVars, openVars, sel, dissolving, overlapped>>
      BY <1>8 DEF OpeningFails
    <2>2. HostType' /\ RoomType' /\ minted' \in BOOLEAN
      BY <1>t, <2>1 DEF HostType, RoomType, hostVars
    <2>3. /\ WorkType' /\ Asked'
          /\ \A s \in Rooms : opening'[s].at = "none" => opening'[s] = NoOpening
      BY <1>t, <2>1, OpeningEndsTypes DEF WorkType, Types, Asked
    <2>4. \E f \in Faults : Fails(f)
      BY <2>1 DEF Fails
    <2> QED BY <1>t, <2>1, <2>2, <2>3, <2>4, Counts DEF Types, openVars
  <1>9. ASSUME NEW r \in Rooms, Turn(r) PROVE Types'
    <2>1. /\ stored' = [stored EXCEPT ![r] = "used"] /\ Quietly
          /\ UNCHANGED <<room, live, chosen, default, users, minted, openVars, pass, opening, sel,
                        dissolving, overlapped>>
      BY <1>9 DEF Turn
    <2>2. HostType' /\ RoomType'
      BY <1>t, <2>1 DEF HostType, RoomType
    <2> QED BY <1>t, <2>1, <2>2, Counts, SameWork DEF Types, openVars
  <1>10. ASSUME NEW p \in Passes, Discover(p) \/ Listed(p) \/ ListFails(p) PROVE Types'
    <2>1. /\ overlapped' \in BOOLEAN /\ UNCHANGED <<room, hostVars, openVars, opening, sel, dissolving>>
          /\ Quietly \/ Fails("list")
      BY <1>10, <1>t DEF Discover, Listed, ListFails
    <2>2. HostType' /\ RoomType' /\ minted' \in BOOLEAN
      BY <1>t, <2>1 DEF HostType, RoomType, hostVars
    <2>3. pass' \in [Passes -> PassRec]
      <3>1. CASE Discover(p)
        BY <1>t, <3>1 DEF Discover, PassRec
      <3>2. CASE Listed(p)
        <4>1. PICK l : l = [r \in Rooms |->
                             IF room[r].standing = "joined"
                               THEN [policy |-> room[r].policy, model |-> room[r].model]
                               ELSE None]
          OBVIOUS
        <4>2. l \in [Rooms -> Settings \cup {None}]
          BY <1>t, <4>1 DEF RoomType, Settings
        <4>3. PICK x : x = [at |-> "listed", on |-> None, list |-> l]
          OBVIOUS
        <4>4. x \in PassRec
          BY <4>2, <4>3 DEF PassRec
        <4>5. pass' = [pass EXCEPT ![p] = x]
          BY <3>2, <4>1, <4>3 DEF Listed
        <4> QED BY <1>t, <4>4, <4>5
      <3>3. CASE ListFails(p)
        BY <1>t, <3>3, NoRecs DEF ListFails
      <3> QED BY <1>10, <3>1, <3>2, <3>3
    <2>4. /\ WorkType' /\ Asked'
          /\ \A s \in Rooms : opening'[s].at = "none" => opening'[s] = NoOpening
      BY <1>t, <2>1, <2>3 DEF WorkType, Types, Asked
    <2>5. Quietly \/ \E f \in Faults : Fails(f)
      BY <2>1 DEF Fails
    <2> QED BY <1>t, <2>1, <2>2, <2>4, <2>5, Counts DEF Types, openVars
  <1>11. ASSUME NEW p \in Passes, Advance(p) PROVE Types'
    <2>1. Quietly /\ UNCHANGED <<room, hostVars, loops, dissolving, overlapped>>
      BY <1>11 DEF Advance
    <2>2. HostType' /\ RoomType' /\ minted' \in BOOLEAN
      BY <1>t, <2>1 DEF HostType, RoomType, hostVars
    <2>3. /\ pass[p].list \in [Rooms -> Settings \cup {None}]
      BY <1>t DEF PassRec
    <2>4. runtimes' \in [Rooms -> Settings \cup {None}]
      BY <1>11, <1>t, <2>3, AdvancePass
    <2>5. sel' \in [Sels -> SelRec] /\ Asked'
      <3>1. sel' \in [Sels -> SelRec]
        BY <1>11, AdvanceSel
      <3>2. ASSUME NEW o \in Sels
            PROVE IF sel'[o].at = "none" THEN sel'[o] = NoSel
                  ELSE sel'[o].model \in Models /\ sel'[o].before \in Models /\ sel'[o].room \in Rooms
        <4>1. CASE sel'[o] = sel[o]
          BY <4>1 DEF Types, Asked
        <4>2. CASE sel'[o] # sel[o]
          BY <1>11, <1>t, <4>2, AdvanceSel DEF HostType
        <4> QED BY <4>1, <4>2
      <3> QED BY <3>1, <3>2 DEF Asked
    <2>6. /\ pass' \in [Passes -> PassRec] /\ opening' \in [Rooms -> OpeningRec]
          /\ \A s \in Rooms : opening'[s].at = "none" => opening'[s] = NoOpening
      <3>1. CASE pass' = [pass EXCEPT ![p] = NoPass] /\ opening' = opening
        BY <1>t, <3>1, NoRecs DEF Types
      <3>2. CASE \E r \in Rooms : Next1(p, r)
        <4>1. PICK r \in Rooms : Next1(p, r)
          BY <3>2
        <4>2. PICK l : l = [s \in Rooms |-> IF s \in OpenOf(p) THEN None ELSE pass[p].list[s]]
          OBVIOUS
        <4>3. l \in [Rooms -> Settings \cup {None}]
          BY <2>3, <4>2
        <4>4. PICK x : x = [at |-> IF r \in live THEN "members" ELSE "ensure", list |-> l, on |-> r]
          OBVIOUS
        <4>5. x \in PassRec
          BY <4>3, <4>4 DEF PassRec
        <4>6. pass' = [pass EXCEPT ![p] = x]
          BY <4>1, <4>2, <4>4 DEF Next1
        <4>7. PICK y : y = [at |-> "resolve", model |-> pass[p].list[r].model]
          OBVIOUS
        <4>8. y \in OpeningRec /\ y.at = "resolve"
          <5>1. pass[p].list[r] \in Settings
            BY <2>3, <4>1 DEF Next1
          <5> QED BY <4>7, <5>1 DEF Settings, OpeningRec
        <4>9. opening' = [opening EXCEPT ![r] = y] \/ opening' = opening
          BY <4>1, <4>7 DEF Next1
        <4> QED BY <1>t, <4>5, <4>6, <4>8, <4>9 DEF Types
      <3> QED BY <1>11, <3>1, <3>2, AdvancePass
    <2> QED BY <1>t, <2>1, <2>2, <2>4, <2>5, <2>6, Counts DEF Types, WorkType
  <1>12. ASSUME NEW p \in Passes, Register(p) PROVE Types'
    <2>1. PICK r : r = pass[p].on
      OBVIOUS
    <2>2. /\ Quietly /\ UNCHANGED <<room, hostVars, opening, sel, dissolving, overlapped>>
          /\ runtimes' = [runtimes EXCEPT ![r] = pass[p].list[r]]
          /\ pass' = [pass EXCEPT ![p].at = "synced", ![p].on = None, ![p].list[r] = None]
      BY <1>12, <2>1 DEF Register
    <2>3. HostType' /\ RoomType' /\ minted' \in BOOLEAN
      BY <1>t, <2>2 DEF HostType, RoomType, hostVars
    <2>4. pass[p] \in PassRec /\ pass[p].list \in [Rooms -> Settings \cup {None}]
      BY <1>t DEF PassRec
    <2>5. runtimes' \in [Rooms -> Settings \cup {None}]
      <3>1. CASE r \in Rooms
        BY <1>t, <2>2, <2>4, <3>1
      <3>2. CASE r \notin Rooms
        BY <1>t, <2>2, <3>2
      <3> QED BY <3>1, <3>2
    <2>6. pass' \in [Passes -> PassRec]
      <3>1. PICK l : l = [pass[p].list EXCEPT ![r] = None]
        OBVIOUS
      <3>2. l \in [Rooms -> Settings \cup {None}]
        BY <2>4, <3>1
      <3>3. pass' = [pass EXCEPT ![p] = [pass[p] EXCEPT !.at = "synced", !.on = None, !.list = l]]
        BY <1>t, <2>2, <2>4, <3>1 DEF PassRec
      <3>4. [pass[p] EXCEPT !.at = "synced", !.on = None, !.list = l] \in PassRec
        BY <2>4, <3>2 DEF PassRec
      <3> QED BY <1>t, <3>3, <3>4
    <2>7. /\ WorkType' /\ Asked'
          /\ \A s \in Rooms : opening'[s].at = "none" => opening'[s] = NoOpening
      BY <1>t, <2>2, <2>6 DEF WorkType, Types, Asked
    <2> QED BY <1>t, <2>2, <2>3, <2>5, <2>7, Counts DEF Types
  <1>13. ASSUME NEW r \in Rooms, Dissolve(r) PROVE Types'
    <2>1. /\ Happens /\ room' = [room EXCEPT ![r].standing = "gone"]
          /\ dissolving' = dissolving \cup {r}
          /\ UNCHANGED <<hostVars, openVars, pass, opening, sel, overlapped>>
      BY <1>13 DEF Dissolve
    <2>2. HostType' /\ RoomType' /\ minted' \in BOOLEAN
      BY <1>t, <2>1 DEF HostType, RoomType, hostVars
    <2>3. dissolving' \subseteq Rooms
      BY <1>t, <2>1
    <2> QED BY <1>t, <2>1, <2>2, <2>3, Counts, SameWork DEF Types, openVars
  <1>14. ASSUME NEW r \in Rooms, CloseRoom(r) PROVE Types'
    <2>1. /\ Quietly /\ dissolving' = dissolving \ {r}
          /\ UNCHANGED <<room, hostVars, pass, opening, sel, overlapped>>
          /\ runtimes' = runtimes \/ runtimes' = [runtimes EXCEPT ![r] = None]
      BY <1>14 DEF CloseRoom, openVars
    <2>2. HostType' /\ RoomType' /\ minted' \in BOOLEAN
      BY <1>t, <2>1 DEF HostType, RoomType, hostVars
    <2>3. runtimes' \in [Rooms -> Settings \cup {None}] /\ dissolving' \subseteq Rooms
      BY <1>t, <2>1
    <2> QED BY <1>t, <2>1, <2>2, <2>3, Counts, SameWork DEF Types
  <1>15. CASE Restart
    <2>1. /\ \E f \in Faults : Fails(f)
          /\ UNCHANGED <<room, stored, chosen, default, minted, overlapped>>
          /\ live' = {} /\ dissolving' = {} /\ runtimes' = [r \in Rooms |-> None]
      BY <1>15 DEF Restart, Fails
    <2>2. users' \in Models \cup {None}
      BY <1>15, <1>t DEF Restart, HostType
    <2>3. HostType' /\ RoomType'
      BY <1>t, <2>1, <2>2 DEF HostType, RoomType
    <2>4. /\ pass' = [p \in Passes |-> NoPass] /\ opening' = [r \in Rooms |-> NoOpening]
          /\ sel' = [o \in Sels |-> NoSel]
      BY <1>15, <1>t DEF Restart
    <2>5. /\ WorkType' /\ Asked'
          /\ \A s \in Rooms : opening'[s].at = "none" => opening'[s] = NoOpening
      BY <2>4, NoRecs DEF WorkType, Asked
    <2> QED BY <1>t, <2>1, <2>3, <2>5, Counts DEF Types
  <1>16. CASE UNCHANGED vars
    BY <1>16, <1>t, SameWork DEF vars, hostVars, openVars, Types, RoomType, HostType
  <1> QED BY <1>1, <1>2, <1>3, <1>4, <1>5, <1>6, <1>7, <1>8, <1>9, <1>10, <1>11, <1>12, <1>13,
             <1>14, <1>15, <1>16 DEF Next, Select, PassStep, Sels

-----------------------------------------------------------------------------
(* No session is replaced *)

(* Who is about to create a session found none.                              *)
Unminted == ~minted /\ \A r \in Rooms : opening[r].at = "create" => stored[r] = "absent"

LEMMA UnmintedNext == Types /\ Unminted /\ [Next]_vars => Unminted'
  <1> SUFFICES ASSUME Types, Unminted, [Next]_vars PROVE Unminted'
    OBVIOUS
  <1>t. opening \in [Rooms -> OpeningRec] /\ stored \in [Rooms -> {"absent", "blank", "used"}]
    BY DEF Types, WorkType, HostType
  <1>1. ASSUME UNCHANGED <<minted, stored, opening>> PROVE Unminted'
    BY <1>1 DEF Unminted
  <1>2. ASSUME NEW r \in Rooms, NEW ok \in BOOLEAN, OpeningEnds(r, ok), UNCHANGED <<minted, stored>>
        PROVE  Unminted'
    BY <1>2, OpeningEndsTypes, NoRecs DEF Unminted
  <1>3. ASSUME NEW o \in Sels, NEW ok \in BOOLEAN, SelectEnds(o, ok), UNCHANGED <<minted, stored>>
        PROVE  Unminted'
    BY <1>1, <1>2, <1>3 DEF SelectEnds
  <1>4. ASSUME NEW r \in Rooms, Turn(r) PROVE Unminted'
    <2>1. /\ stored[r] = "blank" /\ stored' = [stored EXCEPT ![r] = "used"]
          /\ UNCHANGED <<minted, opening>>
      BY <1>4 DEF Turn
    <2> QED BY <1>t, <2>1 DEF Unminted
  <1>5. ASSUME NEW r \in Rooms, Resolve(r) PROVE Unminted'
    <2>1. UNCHANGED <<minted, stored>>
      BY <1>5 DEF Resolve
    <2>2. CASE stored[r] = "absent"
      <3>1. opening' = [opening EXCEPT ![r].at = "create"]
        BY <1>5, <2>2 DEF Resolve
      <3> QED BY <1>t, <2>1, <2>2, <3>1 DEF Unminted
    <2>3. CASE stored[r] # "absent"
      <3>1. Install(r, "install")
        BY <1>5, <2>3 DEF Resolve
      <3>2. CASE OpeningEnds(r, TRUE)
        BY <1>2, <2>1, <3>2
      <3>3. CASE opening'[r].at = "install" /\ \A s \in Rooms : s # r => opening'[s] = opening[s]
        BY <2>1, <3>3 DEF Unminted
      <3> QED BY <3>1, <3>2, <3>3, InstallTypes
    <2> QED BY <2>2, <2>3
  <1>6. ASSUME NEW r \in Rooms, Create(r) PROVE Unminted'
    <2>1. stored[r] = "absent"
      BY <1>6 DEF Create, Unminted
    <2>2. /\ stored' = [stored EXCEPT ![r] = "blank"] /\ minted' = minted
          /\ Install(r, "installNew")
      BY <1>6, <2>1 DEF Create
    <2>3. \A s \in Rooms : s # r => opening'[s] = opening[s] /\ stored'[s] = stored[s]
      BY <1>t, <2>2, InstallTypes, OpeningEndsTypes
    <2>4. opening'[r].at # "create"
      BY <2>2, InstallTypes, OpeningEndsTypes, NoRecs
    <2> QED BY <2>2, <2>3, <2>4 DEF Unminted
  <1>7. ASSUME NEW p \in Passes, Advance(p) PROVE Unminted'
    <2>1. UNCHANGED <<minted, stored>>
      BY <1>7 DEF Advance, hostVars
    <2>2. \A s \in Rooms : opening'[s].at = "create" => opening[s].at = "create"
      <3>1. CASE opening' = opening
        BY <3>1
      <3>2. CASE \E r \in Rooms : Next1(p, r)
        <4>1. PICK r \in Rooms : Next1(p, r)
          BY <3>2
        <4>2. \/ opening' = opening
              \/ opening' = [opening EXCEPT ![r] = [at |-> "resolve", model |-> pass[p].list[r].model]]
          BY <4>1 DEF Next1
        <4> QED BY <1>t, <4>2
      <3> QED BY <1>7, <3>1, <3>2, AdvancePass
    <2> QED BY <2>1, <2>2 DEF Unminted
  <1>8. CASE Restart
    BY <1>8, NoRecs DEF Restart, Unminted
  <1>9. ASSUME NEW r \in Rooms, Change(r) \/ Dissolve(r) \/ CloseRoom(r) PROVE Unminted'
    BY <1>1, <1>9 DEF Change, Dissolve, CloseRoom, hostVars
  <1>10. ASSUME NEW r \in Rooms, OpeningFails(r) PROVE Unminted'
    BY <1>2, <1>10 DEF OpeningFails, hostVars
  <1>11. ASSUME NEW o \in Sels, Select(o) \/ SelectFails(o) PROVE Unminted'
    <2>1. CASE Selected(o)
      BY <1>1, <1>3, <2>1 DEF Selected
    <2>2. CASE Restore(o)
      BY <1>3, <2>2 DEF Restore
    <2>3. CASE SelectFails(o)
      BY <1>3, <2>3 DEF SelectFails
    <2> QED BY <1>11, <2>1, <2>2, <2>3 DEF Select
  <1>12. ASSUME NEW p \in Passes, Discover(p) \/ Listed(p) \/ Register(p) \/ ListFails(p) PROVE Unminted'
    BY <1>1, <1>12 DEF Discover, Listed, Register, ListFails, hostVars
  <1>13. CASE UserChooses \/ UNCHANGED vars
    BY <1>1, <1>13 DEF UserChooses, vars, hostVars
  <1> QED BY <1>4, <1>5, <1>6, <1>7, <1>8, <1>9, <1>10, <1>11, <1>12, <1>13 DEF Next, PassStep, Sels

-----------------------------------------------------------------------------
(* Every open is watched *)

LEMMA WatchEnds ==
  ASSUME Types, OpeningIsWatched, NEW r \in Rooms, NEW ok \in BOOLEAN, OpeningEnds(r, ok),
         sel'[r].at = "none", \A s \in Rooms : s # r => sel'[s] = sel[s]
  PROVE  OpeningIsWatched'
  <1>1. \A p \in Passes, s \in Rooms : Waits(p, s)' <=> Waits(p, s) /\ s # r
    BY OpeningEndsTypes, NoRecs DEF Waits
  <1>2. opening'[r].at = "none" /\ \A s \in Rooms : s # r => opening'[s] = opening[s]
    BY OpeningEndsTypes, NoRecs
  <1> QED BY <1>1, <1>2 DEF OpeningIsWatched

LEMMA WatchedNext == Types /\ OpeningIsWatched /\ [Next]_vars => OpeningIsWatched'
  <1> SUFFICES ASSUME Types, OpeningIsWatched, [Next]_vars PROVE OpeningIsWatched'
    OBVIOUS
  <1>t. /\ opening \in [Rooms -> OpeningRec] /\ sel \in [Sels -> SelRec]
        /\ pass \in [Passes -> PassRec] /\ Rooms \cap Applies = {} /\ Rooms \subseteq Sels
    BY LifecycleAssumption DEF Types, WorkType, Sels
  <1>1. ASSUME UNCHANGED <<pass, opening, sel>> PROVE OpeningIsWatched'
    BY <1>1 DEF OpeningIsWatched, Waits
  <1>2. ASSUME NEW o \in Sels, NEW ok \in BOOLEAN, SelectEnds(o, ok) PROVE OpeningIsWatched'
    <2>1. /\ sel'[o].at = "none" /\ \A q \in Sels : q # o => sel'[q] = sel[q]
      BY <1>2, SelectEndsTypes, NoRecs
    <2>2. CASE o \in Rooms
      BY <1>t, <1>2, <2>1, <2>2, WatchEnds DEF SelectEnds
    <2>3. CASE o \notin Rooms
      BY <1>t, <1>2, <2>1, <2>3 DEF SelectEnds, OpeningIsWatched, Waits
    <2> QED BY <2>2, <2>3
  <1>3. ASSUME NEW o \in Sels, Selected(o) PROVE OpeningIsWatched'
    <2>1. CASE SelectEnds(o, TRUE)
      BY <1>2, <2>1
    <2>2. CASE sel' = [sel EXCEPT ![o].at = "saved"] /\ UNCHANGED <<opening, pass>>
      <3>1. sel[o].at = "asked"
        BY <1>3 DEF Selected
      <3>2. \A q \in Sels : sel'[q].at = "none" <=> sel[q].at = "none"
        BY <1>t, <2>2, <3>1 DEF SelRec
      <3> QED BY <1>t, <2>2, <3>2 DEF OpeningIsWatched, Waits
    <2> QED BY <1>3, <2>1, <2>2 DEF Selected
  <1>4. ASSUME NEW r \in Rooms, NEW how \in {"install", "installNew"}, Install(r, how),
               opening[r].at \in {"resolve", "create"}
        PROVE  OpeningIsWatched'
    <2>1. CASE OpeningEnds(r, TRUE) /\ sel' = sel
      <3>1. sel[r].at = "none"
        BY <1>4 DEF OpeningIsWatched
      <3> QED BY <2>1, <3>1, WatchEnds
    <2>2. CASE ~(OpeningEnds(r, TRUE) /\ sel' = sel)
      <3>1. /\ opening'[r].at = how /\ \A s \in Rooms : s # r => opening'[s] = opening[s]
            /\ sel'[r].at = "asked" /\ pass' = pass
            /\ \A q \in Sels : q # r => sel'[q] = sel[q]
        BY <1>4, <2>2, InstallTypes
      <3> QED BY <1>t, <1>4, <3>1 DEF OpeningIsWatched, Waits
    <2> QED BY <2>1, <2>2
  <1>5. ASSUME NEW r \in Rooms, Resolve(r) PROVE OpeningIsWatched'
    <2>1. opening[r].at = "resolve"
      BY <1>5 DEF Resolve
    <2>2. CASE opening' = [opening EXCEPT ![r].at = "create"] /\ UNCHANGED <<pass, sel>>
      <3>1. opening'[r].at = "create" /\ \A s \in Rooms : s # r => opening'[s] = opening[s]
        BY <1>t, <2>2 DEF OpeningRec
      <3> QED BY <2>1, <2>2, <3>1 DEF OpeningIsWatched, Waits
    <2> QED BY <1>4, <1>5, <2>1, <2>2 DEF Resolve
  <1>6. ASSUME NEW r \in Rooms, Create(r) \/ OpeningFails(r) PROVE OpeningIsWatched'
    <2>1. opening[r].at \in {"resolve", "create"}
      BY <1>6 DEF Create, OpeningFails
    <2>2. CASE Install(r, "installNew")
      BY <1>4, <2>1, <2>2
    <2>3. CASE OpeningEnds(r, FALSE) /\ UNCHANGED sel
      <3>1. sel[r].at = "none"
        BY <2>1 DEF OpeningIsWatched
      <3> QED BY <2>3, <3>1, WatchEnds
    <2> QED BY <1>6, <2>2, <2>3 DEF Create, OpeningFails
  <1>7. ASSUME NEW p \in Passes, pass[p].at # "ensure", UNCHANGED <<opening, sel>>,
               \A q \in Passes : q # p => pass'[q] = pass[q], pass'[p].at # "ensure"
        PROVE  OpeningIsWatched'
    BY <1>7 DEF OpeningIsWatched, Waits
  <1>8. ASSUME NEW p \in Passes, Discover(p) \/ Listed(p) \/ ListFails(p) \/ Register(p)
        PROVE  OpeningIsWatched'
    <2>1. /\ pass[p].at # "ensure" /\ UNCHANGED <<opening, sel>>
          /\ \A q \in Passes : q # p => pass'[q] = pass[q]
          /\ pass'[p].at # "ensure"
      <3>1. CASE Discover(p)
        BY <1>t, <3>1 DEF Discover, PassRec
      <3>2. CASE Listed(p)
        BY <1>t, <3>2 DEF Listed
      <3>3. CASE ListFails(p)
        BY <1>t, <3>3, NoRecs DEF ListFails
      <3>4. CASE Register(p)
        BY <1>t, <3>4 DEF Register, PassRec
      <3> QED BY <1>8, <3>1, <3>2, <3>3, <3>4
    <2> QED BY <1>7, <2>1
  <1>9. ASSUME NEW p \in Passes, Advance(p) PROVE OpeningIsWatched'
    <2>1. pass[p].at \in {"listed", "synced"}
      BY <1>9, AdvancePass
    <2>2. \A s \in Rooms : sel'[s] = sel[s]
      BY <1>t, <1>9, AdvanceSel
    <2>3. CASE pass' = [pass EXCEPT ![p] = NoPass] /\ opening' = opening
      BY <1>t, <2>1, <2>2, <2>3, NoRecs DEF OpeningIsWatched, Waits
    <2>4. ASSUME NEW r \in Rooms, Next1(p, r) PROVE OpeningIsWatched'
      <3>1. /\ \A q \in Passes : q # p => pass'[q] = pass[q]
            /\ pass'[p].on = r
            /\ pass'[p].at = IF r \in live THEN "members" ELSE "ensure"
        BY <1>t, <2>4 DEF Next1
      <3>2. CASE r \in live
        BY <2>1, <2>2, <2>4, <3>1, <3>2 DEF Next1, OpeningIsWatched, Waits
      <3>3. CASE r \notin live /\ opening[r] = NoOpening
        <4>1. opening'[r].at = "resolve" /\ \A s \in Rooms : s # r => opening'[s] = opening[s]
          BY <1>t, <2>4, <3>3 DEF Next1
        <4>2. sel[r].at = "none"
          BY <3>3, NoRecs DEF OpeningIsWatched
        <4> QED BY <2>1, <2>2, <3>1, <3>3, <4>1, <4>2 DEF OpeningIsWatched, Waits
      <3>4. CASE r \notin live /\ opening[r] # NoOpening
        <4>1. opening' = opening /\ opening[r].at # "none"
          BY <2>4, <3>4 DEF Next1, Types
        <4> QED BY <2>1, <2>2, <3>1, <3>4, <4>1 DEF OpeningIsWatched, Waits
      <3> QED BY <3>2, <3>3, <3>4
    <2> QED BY <1>9, <2>3, <2>4, AdvancePass
  <1>10. CASE Restart
    BY <1>t, <1>10, NoRecs DEF Restart, OpeningIsWatched, Waits
  <1>11. ASSUME NEW r \in Rooms, Change(r) \/ Turn(r) \/ Dissolve(r) \/ CloseRoom(r)
         PROVE  OpeningIsWatched'
    BY <1>1, <1>11 DEF Change, Turn, Dissolve, CloseRoom
  <1>12. ASSUME NEW o \in Sels, Restore(o) \/ SelectFails(o) PROVE OpeningIsWatched'
    BY <1>2, <1>12 DEF Restore, SelectFails
  <1>13. CASE UserChooses \/ UNCHANGED vars
    BY <1>1, <1>13 DEF UserChooses, vars
  <1> QED BY <1>3, <1>5, <1>6, <1>8, <1>9, <1>10, <1>11, <1>12, <1>13 DEF Next, Select, PassStep, Sels

-----------------------------------------------------------------------------
(* The user's default *)

(* Unless calls overlapped, the one under way began with the user's default, *)
(* and it is in place unless that call has saved its own model.              *)
Alone(o) == \A q \in Sels : q # o => sel[q] = NoSel
DefaultHeld ==
    users # None =>
        /\ (\A o \in Sels : sel[o].at # "saved") => default = users
        /\ \A o \in Sels : sel[o] # NoSel /\ Alone(o) => sel[o].before = users

LEMMA NewCalls ==
  ASSUME Types, DefaultHeld, UNCHANGED <<default, users>>,
         \A o \in Sels : \/ sel'[o] = sel[o]
                         \/ /\ sel[o] = NoSel /\ sel'[o].at = "asked"
                            /\ sel'[o].before = default
  PROVE  DefaultHeld'
  <1> SUFFICES ASSUME users # None
               PROVE  /\ (\A o \in Sels : sel'[o].at # "saved") => default = users
                      /\ \A o \in Sels : sel'[o] # NoSel /\ Alone(o)' => sel'[o].before = users
    BY DEF DefaultHeld
  <1>1. (\A o \in Sels : sel'[o].at # "saved") => default = users
    BY NoRecs DEF DefaultHeld
  <1>2. ASSUME NEW o \in Sels, sel'[o] # NoSel, Alone(o)' PROVE sel'[o].before = users
    <2>1. Alone(o)
      BY <1>2, NoRecs DEF Alone
    <2>2. CASE sel'[o] = sel[o]
      BY <1>2, <2>1, <2>2 DEF DefaultHeld
    <2>3. CASE sel'[o] # sel[o]
      <3>1. sel[o] = NoSel /\ sel'[o].before = default
        BY <2>3
      <3>2. default = users
        BY <2>1, <3>1, NoRecs DEF Alone, DefaultHeld
      <3> QED BY <3>1, <3>2
    <2> QED BY <2>2, <2>3
  <1> QED BY <1>1, <1>2

LEMMA CallEnds ==
  ASSUME Types, DefaultHeld, NEW o \in Sels, sel[o] # NoSel, sel'[o] = NoSel,
         \A q \in Sels : q # o => sel'[q] = sel[q],
         users' = Undisturbed(o) \/ users' = None,
         users # None /\ Alone(o) => default' = users
  PROVE  DefaultHeld'
  <1>d. DOMAIN sel = Sels
    BY DEF Types, WorkType
  <1>1. CASE Alone(o)
    <2>1. \A q \in Sels : sel'[q] = NoSel
      BY <1>1 DEF Alone
    <2>2. users' = users \/ users' = None
      BY <1>d, <1>1 DEF Undisturbed, Alone
    <2> QED BY <1>1, <2>1, <2>2 DEF DefaultHeld
  <1>2. CASE ~Alone(o)
    BY <1>d, <1>2 DEF Alone, Undisturbed, DefaultHeld
  <1> QED BY <1>1, <1>2

LEMMA DefaultNext == Types /\ OpeningIsWatched /\ DefaultHeld /\ [Next]_vars => DefaultHeld'
  <1> SUFFICES ASSUME Types, OpeningIsWatched, DefaultHeld, [Next]_vars PROVE DefaultHeld'
    OBVIOUS
  <1>t. /\ sel \in [Sels -> SelRec] /\ Rooms \subseteq Sels /\ DOMAIN sel = Sels
        /\ \A o \in Sels : sel[o].at = "none" => sel[o] = NoSel
    BY DEF Types, WorkType, Sels, Asked
  <1>1. ASSUME UNCHANGED <<default, users, sel>> PROVE DefaultHeld'
    BY <1>1, NewCalls
  <1>2. CASE UserChooses
    <2>1. /\ sel' = sel
          /\ users' = IF \E o \in Sels : sel[o] # NoSel THEN None ELSE default'
      BY <1>t, <1>2 DEF UserChooses
    <2> QED BY <2>1 DEF DefaultHeld
  <1>3. ASSUME NEW o \in Sels, Selected(o) PROVE DefaultHeld'
    <2>1. /\ sel[o].at = "asked" /\ default' = sel[o].model /\ users' = Undisturbed(o)
          /\ sel[o] # NoSel
      BY <1>3, NoRecs DEF Selected
    <2>2. CASE sel[o].before = sel[o].model
      <3>1. sel'[o] = NoSel /\ \A q \in Sels : q # o => sel'[q] = sel[q]
        BY <1>3, <2>2, SelectEndsTypes DEF Selected
      <3>2. users # None /\ Alone(o) => default' = users
        BY <2>1, <2>2 DEF DefaultHeld
      <3> QED BY <2>1, <3>1, <3>2, CallEnds
    <2>3. CASE sel[o].before # sel[o].model
      <3>1. sel' = [sel EXCEPT ![o].at = "saved"]
        BY <1>3, <2>3 DEF Selected
      <3>2. /\ sel'[o].at = "saved" /\ sel'[o].before = sel[o].before
            /\ \A q \in Sels : q # o => sel'[q] = sel[q]
        BY <1>t, <3>1 DEF SelRec
      <3>3. CASE Alone(o)
        <4>1. users' = users
          BY <1>t, <2>1, <3>3 DEF Undisturbed, Alone
        <4>2. \A q \in Sels : q # o => sel'[q] = NoSel
          BY <3>2, <3>3 DEF Alone
        <4>3. users # None => sel'[o].before = users
          BY <2>1, <3>2, <3>3 DEF DefaultHeld
        <4> QED BY <3>2, <4>1, <4>2, <4>3 DEF DefaultHeld
      <3>4. CASE ~Alone(o)
        BY <1>t, <2>1, <3>4 DEF Undisturbed, Alone, DefaultHeld
      <3> QED BY <3>3, <3>4
    <2> QED BY <2>2, <2>3
  <1>4. ASSUME NEW o \in Sels, Restore(o) PROVE DefaultHeld'
    <2>1. /\ sel[o] # NoSel /\ SelectEnds(o, TRUE)
          /\ \/ default' = sel[o].before /\ users' = Undisturbed(o)
             \/ users' = None
      BY <1>4, NoRecs DEF Restore
    <2>2. sel'[o] = NoSel /\ \A q \in Sels : q # o => sel'[q] = sel[q]
      BY <2>1, SelectEndsTypes
    <2>3. CASE users' = None
      BY <2>3 DEF DefaultHeld
    <2>4. CASE default' = sel[o].before /\ users' = Undisturbed(o)
      <3>1. users # None /\ Alone(o) => default' = users
        BY <2>1, <2>4 DEF DefaultHeld
      <3> QED BY <2>1, <2>2, <2>4, <3>1, CallEnds
    <2> QED BY <2>1, <2>3, <2>4
  <1>5. ASSUME NEW o \in Sels, SelectFails(o) PROVE DefaultHeld'
    <2>1. /\ sel[o].at = "asked" /\ sel[o] # NoSel /\ users' = Undisturbed(o) /\ default' = default
          /\ \E ok \in BOOLEAN : SelectEnds(o, ok)
      BY <1>5, NoRecs DEF SelectFails
    <2>2. sel'[o] = NoSel /\ \A q \in Sels : q # o => sel'[q] = sel[q]
      BY <2>1, SelectEndsTypes
    <2>3. users # None /\ Alone(o) => default' = users
      BY <2>1, NoRecs DEF DefaultHeld, Alone
    <2> QED BY <2>1, <2>2, <2>3, CallEnds
  <1>6. ASSUME NEW r \in Rooms, NEW how \in {"install", "installNew"}, Install(r, how),
               opening[r].at \in {"resolve", "create"}, UNCHANGED <<default, users>>
        PROVE  DefaultHeld'
    <2>1. sel[r] = NoSel
      BY <1>t, <1>6 DEF OpeningIsWatched
    <2>2. CASE sel' = sel
      BY <1>1, <1>6, <2>2
    <2>3. CASE sel' # sel
      <3>1. /\ sel'[r].at = "asked" /\ sel'[r].before = default
            /\ \A q \in Sels : q # r => sel'[q] = sel[q]
        BY <1>6, <2>3, InstallTypes
      <3> QED BY <1>6, <2>1, <3>1, NewCalls
    <2> QED BY <2>2, <2>3
  <1>7. ASSUME NEW r \in Rooms, Resolve(r) \/ Create(r) PROVE DefaultHeld'
    <2>1. /\ opening[r].at \in {"resolve", "create"} /\ UNCHANGED <<default, users>>
          /\ sel' = sel \/ Install(r, "install") \/ Install(r, "installNew")
      BY <1>7 DEF Resolve, Create
    <2> QED BY <1>1, <1>6, <2>1
  <1>8. ASSUME NEW p \in Passes, Advance(p) PROVE DefaultHeld'
    <2>1. UNCHANGED <<default, users>>
      BY <1>8 DEF Advance, hostVars
    <2> QED BY <1>8, <2>1, AdvanceSel, NewCalls
  <1>9. CASE Restart
    <2>1. /\ \A o \in Sels : sel'[o] = NoSel
          /\ default' = default
          /\ users' = IF \E o \in Sels : sel[o].at = "saved" THEN None ELSE users
      BY <1>t, <1>9 DEF Restart
    <2> QED BY <2>1 DEF DefaultHeld
  <1>10. ASSUME NEW r \in Rooms, Change(r) \/ Turn(r) \/ Dissolve(r) \/ CloseRoom(r) \/ OpeningFails(r)
         PROVE  DefaultHeld'
    BY <1>1, <1>10 DEF Change, Turn, Dissolve, CloseRoom, OpeningFails, hostVars
  <1>11. ASSUME NEW p \in Passes, Discover(p) \/ Listed(p) \/ ListFails(p) \/ Register(p)
         PROVE  DefaultHeld'
    BY <1>1, <1>11 DEF Discover, Listed, ListFails, Register, hostVars
  <1>12. CASE UNCHANGED vars
    BY <1>1, <1>12 DEF vars, hostVars
  <1> QED BY <1>2, <1>3, <1>4, <1>5, <1>7, <1>8, <1>9, <1>10, <1>11, <1>12
          DEF Next, Select, PassStep, Sels

-----------------------------------------------------------------------------
(* Poll loops *)

(* A room with a runtime has a loop.  While passes do not overlap, there is  *)
(* one pass at most, and the room it opens is closed.                        *)
Opens(p) == pass[p].at \in {"ensure", "members"}
Loops ==
    /\ loops \in [Rooms -> Nat]
    /\ \A r \in Rooms : runtimes[r] # None => loops[r] >= 1
Single ==
    /\ \A p, q \in Passes : pass[p].at # "idle" /\ pass[q].at # "idle" => p = q
    /\ \A p \in Passes : Opens(p) => /\ pass[p].on \in Rooms /\ runtimes[pass[p].on] = None
                                    /\ pass[p].list[pass[p].on] # None
    /\ \A r \in Rooms : loops[r] = IF runtimes[r] = None THEN 0 ELSE 1
LoopInv == Loops /\ (~overlapped => Single)

(* A step that opens and closes nothing, and in which passes only end, or    *)
(* go on where they are.                                                     *)
LEMMA PassesEnd ==
  ASSUME LoopInv, UNCHANGED <<loops, runtimes, overlapped>>,
         \A p \in Passes : \/ pass'[p] = pass[p] \/ pass'[p].at = "idle"
                          \/ /\ Opens(p) /\ pass'[p].on = pass[p].on
                             /\ pass'[p].list = pass[p].list
  PROVE  LoopInv'
  <1>1. ASSUME Single PROVE Single'
    <2>1. \A p \in Passes : pass'[p].at # "idle" => pass[p].at # "idle"
      BY DEF Opens
    <2>2. \A p, q \in Passes : pass'[p].at # "idle" /\ pass'[q].at # "idle" => p = q
      BY <1>1, <2>1 DEF Single
    <2>3. ASSUME NEW p \in Passes, Opens(p)'
          PROVE /\ pass'[p].on \in Rooms /\ runtimes[pass'[p].on] = None
                /\ pass'[p].list[pass'[p].on] # None
      <3>1. Opens(p) /\ pass'[p].on = pass[p].on /\ pass'[p].list = pass[p].list
        BY <2>3 DEF Opens
      <3> QED BY <1>1, <3>1 DEF Single
    <2> QED BY <1>1, <2>2, <2>3 DEF Single
  <1> QED BY <1>1 DEF LoopInv, Loops

LEMMA LoopInit == Init => LoopInv
  BY NoRecs DEF Init, LoopInv, Loops, Single, Opens

LEMMA LoopNext == Types /\ LoopInv /\ [Next]_vars => LoopInv'
  <1> SUFFICES ASSUME Types, LoopInv, [Next]_vars PROVE LoopInv'
    OBVIOUS
  <1>t. /\ pass \in [Passes -> PassRec] /\ runtimes \in [Rooms -> Settings \cup {None}]
        /\ loops \in [Rooms -> Nat] /\ Rooms \subseteq Sels
    BY DEF Types, WorkType, LoopInv, Loops, Sels
  <1>1. ASSUME UNCHANGED <<pass, loops, runtimes, overlapped>> PROVE LoopInv'
    BY <1>1, PassesEnd
  <1>2. ASSUME NEW r \in Rooms, NEW ok \in BOOLEAN, OpeningEnds(r, ok),
               UNCHANGED <<loops, runtimes, overlapped>>
        PROVE  LoopInv'
    <2>1. \A p \in Passes : \/ pass'[p] = pass[p] \/ pass'[p].at = "idle"
                           \/ /\ Opens(p) /\ pass'[p].on = pass[p].on
                              /\ pass'[p].list = pass[p].list
      BY <1>2, OpeningEndsTypes, NoRecs DEF Waits, Opens
    <2> QED BY <1>2, <2>1, PassesEnd
  <1>3. ASSUME NEW o \in Sels, NEW ok \in BOOLEAN, SelectEnds(o, ok),
               UNCHANGED <<loops, runtimes, overlapped>>
        PROVE  LoopInv'
    BY <1>1, <1>2, <1>3 DEF SelectEnds
  <1>4. ASSUME NEW o \in Sels, Select(o) \/ SelectFails(o) PROVE LoopInv'
    <2>1. CASE Selected(o)
      <3>1. UNCHANGED <<loops, runtimes, overlapped>>
        BY <2>1 DEF Selected, openVars
      <3> QED BY <1>1, <1>3, <2>1, <3>1 DEF Selected
    <2>2. CASE Restore(o)
      BY <1>3, <2>2 DEF Restore, openVars
    <2>3. CASE SelectFails(o)
      BY <1>3, <2>3 DEF SelectFails, openVars
    <2> QED BY <1>4, <2>1, <2>2, <2>3 DEF Select
  <1>5. ASSUME NEW r \in Rooms, Resolve(r) \/ Create(r) \/ OpeningFails(r) PROVE LoopInv'
    <2>1. /\ UNCHANGED <<loops, runtimes, overlapped>>
          /\ pass' = pass \/ OpeningEnds(r, FALSE) \/ Install(r, "install") \/ Install(r, "installNew")
      BY <1>5 DEF Resolve, Create, OpeningFails, openVars
    <2>2. CASE Install(r, "install") \/ Install(r, "installNew")
      BY <1>1, <1>2, <2>1, <2>2, InstallTypes
    <2> QED BY <1>1, <1>2, <2>1, <2>2
  <1>6. ASSUME NEW p \in Passes, Discover(p) PROVE LoopInv'
    <2>1. /\ pass[p].at = "idle" /\ UNCHANGED <<loops, runtimes>>
          /\ pass' = [pass EXCEPT ![p].at = "list"]
          /\ overlapped' = (overlapped \/ UnderWay # {})
      BY <1>6 DEF Discover, openVars
    <2>2. pass'[p].at = "list" /\ \A q \in Passes : q # p => pass'[q] = pass[q]
      BY <1>t, <2>1 DEF PassRec
    <2>3. ASSUME ~overlapped' PROVE Single'
      <3>1. Single /\ \A q \in Passes : pass[q].at = "idle"
        BY <2>1, <2>3 DEF LoopInv, UnderWay
      <3> QED BY <2>1, <2>2, <3>1 DEF Single, Opens
    <2> QED BY <2>1, <2>3 DEF LoopInv, Loops
  <1>7. ASSUME NEW p \in Passes, Listed(p) PROVE LoopInv'
    <2>1. /\ pass[p].at = "list" /\ UNCHANGED <<loops, runtimes, overlapped>>
          /\ pass'[p].at = "listed" /\ \A q \in Passes : q # p => pass'[q] = pass[q]
      BY <1>7, <1>t DEF Listed, openVars
    <2>2. ASSUME Single PROVE Single'
      <3>1. \A q \in Passes : /\ pass'[q].at # "idle" <=> pass[q].at # "idle"
                              /\ Opens(q)' => q # p
        BY <2>1 DEF Opens
      <3> QED BY <2>1, <2>2, <3>1 DEF Single, Opens
    <2> QED BY <2>1, <2>2 DEF LoopInv, Loops
  <1>8. ASSUME NEW p \in Passes, ListFails(p) PROVE LoopInv'
    <2>1. /\ UNCHANGED <<loops, runtimes, overlapped>>
          /\ \A q \in Passes : pass'[q] = pass[q] \/ pass'[q].at = "idle"
      BY <1>8, <1>t, NoRecs DEF ListFails, openVars
    <2> QED BY <2>1, PassesEnd
  <1>9. ASSUME NEW p \in Passes, Advance(p) PROVE LoopInv'
    <2>1. UNCHANGED <<loops, overlapped>>
      BY <1>9 DEF Advance
    <2>2. /\ pass[p].at \in {"listed", "synced"}
          /\ \A r \in Rooms : runtimes'[r] = None <=> runtimes[r] = None
      BY <1>9, <1>t, AdvancePass
    <2>3. Loops'
      BY <1>t, <2>1, <2>2 DEF LoopInv, Loops
    <2>4. ASSUME Single PROVE Single'
      <3>1. /\ \A q \in Passes : q # p => pass'[q] = pass[q] /\ pass[q].at = "idle"
            /\ Opens(p)' => /\ pass'[p].on \in Rooms /\ runtimes[pass'[p].on] = None
                            /\ pass'[p].list[pass'[p].on] # None
        <4>0. \A q \in Passes : q # p => pass[q].at = "idle"
          BY <2>2, <2>4 DEF Single
        <4>1. CASE pass' = [pass EXCEPT ![p] = NoPass]
          BY <1>t, <4>0, <4>1, NoRecs DEF Opens
        <4>2. ASSUME NEW r \in Rooms, Next1(p, r)
              PROVE  /\ \A q \in Passes : q # p => pass'[q] = pass[q]
                     /\ pass'[p].on = r /\ runtimes[r] = None /\ pass'[p].list[r] # None
          BY <1>t, <4>2 DEF Next1
        <4> QED BY <1>9, <4>0, <4>1, <4>2, AdvancePass
      <3>2. \A q, r \in Passes : pass'[q].at # "idle" /\ pass'[r].at # "idle" => q = r
        BY <3>1
      <3>3. \A q \in Passes : Opens(q)' => q = p
        BY <3>1 DEF Opens
      <3>4. \A q \in Passes : Opens(q)' =>
              /\ pass'[q].on \in Rooms /\ runtimes'[pass'[q].on] = None
              /\ pass'[q].list[pass'[q].on] # None
        BY <2>2, <3>1, <3>3
      <3>5. \A r \in Rooms : loops'[r] = IF runtimes'[r] = None THEN 0 ELSE 1
        BY <2>1, <2>2, <2>4 DEF Single
      <3> QED BY <3>2, <3>4, <3>5 DEF Single
    <2> QED BY <2>1, <2>3, <2>4 DEF LoopInv
  <1>10. ASSUME NEW p \in Passes, Register(p) PROVE LoopInv'
    <2>0. PICK r : r = pass[p].on
      OBVIOUS
    <2>1. /\ pass[p].at = "members" /\ UNCHANGED overlapped
          /\ runtimes' = [runtimes EXCEPT ![r] = pass[p].list[r]]
          /\ loops' = [loops EXCEPT ![r] = @ + 1]
          /\ pass' = [pass EXCEPT ![p].at = "synced", ![p].on = None, ![p].list[r] = None]
      BY <1>10, <2>0 DEF Register
    <2>2. pass'[p].at = "synced" /\ \A q \in Passes : q # p => pass'[q] = pass[q]
      BY <1>t, <2>1 DEF PassRec
    <2>3. loops' \in [Rooms -> Nat]
      <3>1. ASSUME NEW s \in Rooms
            PROVE  loops'[s] = IF s = r THEN loops[s] + 1 ELSE loops[s]
        BY <1>t, <2>1
      <3>2. ASSUME NEW s \in Rooms PROVE loops'[s] \in Nat
        BY <1>t, <3>1
      <3>3. loops' = [s \in Rooms |-> loops'[s]]
        BY <1>t, <2>1
      <3> QED BY <3>2, <3>3
    <2>4. ASSUME NEW s \in Rooms, runtimes'[s] # None PROVE loops'[s] >= 1
      <3>1. CASE s = r
        <4>1. loops'[s] = loops[s] + 1 /\ loops[s] \in Nat
          BY <1>t, <2>1, <3>1
        <4> QED BY <4>1
      <3>2. CASE s # r
        <4>1. loops'[s] = loops[s] /\ runtimes'[s] = runtimes[s]
          BY <1>t, <2>1, <3>2
        <4> QED BY <2>4, <4>1 DEF LoopInv, Loops
      <3> QED BY <3>1, <3>2
    <2>5. ASSUME Single PROVE Single'
      <3>1. r \in Rooms /\ runtimes[r] = None /\ pass[p].list[r] # None
        BY <2>0, <2>1, <2>5 DEF Single, Opens
      <3>2. \A q \in Passes : q # p => pass[q].at = "idle"
        BY <2>1, <2>5 DEF Single
      <3>3. \A q \in Passes : ~Opens(q)'
        BY <2>2, <3>2 DEF Opens
      <3>4. loops'[r] = 1 /\ runtimes'[r] # None
        <4>1. loops[r] = 0 /\ loops'[r] = loops[r] + 1
          BY <1>t, <2>1, <2>5, <3>1 DEF Single
        <4>2. runtimes'[r] = pass[p].list[r]
          BY <1>t, <2>1, <3>1
        <4> QED BY <3>1, <4>1, <4>2
      <3>5. \A s \in Rooms : s # r => loops'[s] = loops[s] /\ runtimes'[s] = runtimes[s]
        BY <1>t, <2>1
      <3>6. \A s \in Rooms : loops'[s] = IF runtimes'[s] = None THEN 0 ELSE 1
        BY <2>5, <3>4, <3>5 DEF Single
      <3>7. \A q, t \in Passes : pass'[q].at # "idle" /\ pass'[t].at # "idle" => q = t
        BY <2>2, <3>2
      <3> QED BY <3>3, <3>6, <3>7 DEF Single
    <2> QED BY <2>1, <2>3, <2>4, <2>5 DEF LoopInv, Loops
  <1>11. ASSUME NEW r \in Rooms, CloseRoom(r) PROVE LoopInv'
    <2>1. UNCHANGED <<pass, overlapped>>
      BY <1>11 DEF CloseRoom
    <2>2. CASE runtimes[r] = None
      BY <1>1, <1>11, <2>1, <2>2 DEF CloseRoom, openVars
    <2>3. CASE runtimes[r] # None
      <3>1. loops' = [loops EXCEPT ![r] = @ - 1] /\ runtimes' = [runtimes EXCEPT ![r] = None]
        BY <1>11, <2>3 DEF CloseRoom, StopLoop
      <3>2. loops[r] \in Nat /\ loops[r] >= 1
        BY <1>t, <2>3 DEF LoopInv, Loops
      <3>3. loops'[r] = loops[r] - 1 /\ runtimes'[r] = None /\ loops[r] - 1 \in Nat
        BY <1>t, <3>1, <3>2
      <3>4. \A s \in Rooms : s # r => loops'[s] = loops[s] /\ runtimes'[s] = runtimes[s]
        BY <1>t, <3>1
      <3>5. Loops'
        <4>1. loops' \in [Rooms -> Nat]
          BY <1>t, <3>1, <3>3
        <4> QED BY <3>3, <3>4, <4>1 DEF LoopInv, Loops
      <3>6. ASSUME Single PROVE Single'
        <4>1. loops'[r] = 0
          BY <2>3, <3>3, <3>6 DEF Single
        <4>2. \A s \in Rooms : loops'[s] = IF runtimes'[s] = None THEN 0 ELSE 1
          BY <3>3, <3>4, <3>6, <4>1 DEF Single
        <4>3. \A s \in Rooms : runtimes[s] = None => runtimes'[s] = None
          BY <3>3, <3>4
        <4> QED BY <2>1, <3>6, <4>2, <4>3 DEF Single, Opens
      <3> QED BY <2>1, <3>5, <3>6 DEF LoopInv
    <2> QED BY <2>2, <2>3
  <1>12. CASE Restart
    <2>1. /\ \A p \in Passes : pass'[p] = NoPass
          /\ \A r \in Rooms : runtimes'[r] = None /\ loops'[r] = 0
          /\ loops' \in [Rooms -> Nat]
      BY <1>12 DEF Restart
    <2> QED BY <2>1, NoRecs DEF LoopInv, Loops, Single, Opens
  <1>13. ASSUME NEW r \in Rooms, Change(r) \/ Turn(r) \/ Dissolve(r) PROVE LoopInv'
    BY <1>1, <1>13 DEF Change, Turn, Dissolve, openVars
  <1>14. CASE UserChooses \/ UNCHANGED vars
    BY <1>1, <1>14 DEF UserChooses, vars, openVars
  <1> QED BY <1>4, <1>5, <1>6, <1>7, <1>8, <1>9, <1>10, <1>11, <1>12, <1>13, <1>14
          DEF Next, PassStep, Sels

-----------------------------------------------------------------------------
(* The inductive invariant and the theorems *)

LifeInv == Types /\ Unminted /\ OpeningIsWatched /\ DefaultHeld /\ LoopInv

LEMMA LifeAlways == Spec => []LifeInv
  <1>1. Init => LifeInv
    <2> SUFFICES ASSUME Init PROVE LifeInv
      OBVIOUS
    <2>1. Unminted /\ OpeningIsWatched
      BY NoRecs DEF Init, Unminted, OpeningIsWatched, Waits
    <2>2. DefaultHeld
      BY NoRecs DEF Init, DefaultHeld, Sels
    <2> QED BY <2>1, <2>2, TypesInit, LoopInit DEF LifeInv
  <1>2. LifeInv /\ [Next]_vars => LifeInv'
    BY TypesNext, UnmintedNext, WatchedNext, DefaultNext, LoopNext DEF LifeInv
  <1> QED BY <1>1, <1>2, PTL DEF Spec

(* The variables keep their types: at most the settings the server has, no   *)
(* loop count below zero however often rooms are opened twice and closed.    *)
THEOREM LifecycleTypeCorrect == Spec => []TypeOK
  <1>1. LifeInv => TypeOK
    BY DEF LifeInv, Types, TypeOK, RoomType, HostType, WorkType, LoopInv, Loops, PassRec,
           OpeningRec, SelRec, Sels
  <1> QED BY <1>1, LifeAlways, PTL

(* The host is never asked to create a session that has run a turn, for any  *)
(* number of rooms, passes, failures and restarts (index.ts:388-394).        *)
THEOREM LifecycleNoReplacement == Spec => []NoReplacement
  <1>1. LifeInv => NoReplacement
    BY DEF LifeInv, Unminted, NoReplacement
  <1> QED BY <1>1, LifeAlways, PTL

(* An open is under way exactly while a pass waits for it (index.ts:400,     *)
(* 421-428).                                                                 *)
THEOREM LifecycleOpeningIsWatched == Spec => []OpeningIsWatched
  <1>1. LifeInv => OpeningIsWatched
    BY DEF LifeInv
  <1> QED BY <1>1, LifeAlways, PTL

(* Unless two passes overlapped, an open room has one poll loop and a closed *)
(* one none (index.ts:803-817, 961).                                         *)
THEOREM LifecycleLoopIsOwned == Spec => []LoopIsOwned
  <1>1. LifeInv => LoopIsOwned
    BY DEF LifeInv, LoopInv, Single, LoopIsOwned
  <1> QED BY <1>1, LifeAlways, PTL

(* When no selection is under way the default model is the user's, unless    *)
(* selections overlapped or one was cut off (index.ts:269-292).              *)
THEOREM LifecycleDefaultIsKept == Spec => []DefaultIsKept
  <1>1. LifeInv => DefaultIsKept
    <2> SUFFICES ASSUME LifeInv, \A o \in DOMAIN sel : sel[o] = NoSel, users # None
                 PROVE  default = users
      BY DEF DefaultIsKept
    <2>1. \A o \in Sels : sel[o].at # "saved"
      BY NoRecs DEF LifeInv, Types, WorkType
    <2> QED BY <2>1 DEF LifeInv, DefaultHeld
  <1> QED BY <1>1, LifeAlways, PTL
=============================================================================
