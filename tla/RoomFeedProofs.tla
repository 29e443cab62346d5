--------------------------- MODULE RoomFeedProofs ----------------------------
(***************************************************************************)
(* What holds of a room's feed for every number of messages, restarts and    *)
(* every page size and fault set.                                            *)
(***************************************************************************)
EXTENDS RoomFeed, WellFoundedInduction, TLAPS

(* A nonempty set of ids has a highest one.                                  *)
LEMMA HighestId ==
  ASSUME NEW s \in SUBSET Ids, s # {}
  PROVE  \E m \in s : \A k \in s : k <= m
<1> DEFINE Upper == {n \in Nat : \A k \in s : k <= n}
<1>0. MaxMsgs \in Nat /\ \A k \in s : k \in Nat /\ k <= MaxMsgs /\ k >= 1
  BY FeedAssumption DEF Ids
<1>1. Upper \subseteq Nat /\ MaxMsgs \in Upper
  BY <1>0
<1>2. PICK n \in Upper : \A y \in Upper : ~ (<<y, n>> \in OpToRel(<, Nat))
  BY <1>1, WFMin, NatLessThanWellFounded
<1>3. \A y \in Upper : ~ (y < n)
  BY <1>1, <1>2 DEF OpToRel
<1>4. n \in s
  <2>1. SUFFICES ASSUME n \notin s PROVE FALSE
    OBVIOUS
  <2>2. \A k \in s : k <= n - 1
    BY <1>0, <2>1, <1>1
  <2>3. n - 1 \in Upper
    BY <2>2, <1>0, <1>1
  <2> QED BY <2>3, <1>3, <1>1
<1> QED BY <1>4

(* ... and a lowest one.                                                     *)
LEMMA LowestId ==
  ASSUME NEW s \in SUBSET Ids, s # {}
  PROVE  \E m \in s : \A k \in s : m <= k
<1>1. s \subseteq Nat
  BY FeedAssumption DEF Ids
<1>2. PICK m \in s : \A k \in s : ~ (<<k, m>> \in OpToRel(<, Nat))
  BY <1>1, WFMin, NatLessThanWellFounded
<1>3. \A k \in s : ~ (k < m)
  BY <1>1, <1>2 DEF OpToRel
<1> QED BY <1>1, <1>3

(* The cursor is the highest accepted id.                                    *)
LEMMA CursorIsSeen ==
  ASSUME NEW s \in SUBSET Ids
  PROVE  /\ CursorOf(s) \in 0..MaxMsgs
         /\ s # {} => CursorOf(s) \in s /\ \A k \in s : k <= CursorOf(s)
<1>1. CASE s = {}
  BY <1>1, FeedAssumption DEF CursorOf
<1>2. CASE s # {}
  <2>1. CursorOf(s) \in s /\ \A k \in s : k <= CursorOf(s)
    BY <1>2, HighestId DEF CursorOf
  <2>2. \A k \in Ids : k \in 0..MaxMsgs
    BY FeedAssumption DEF Ids
  <2>3. CursorOf(s) \in 0..MaxMsgs
    BY <2>1, <2>2
  <2> QED BY <2>1, <2>3
<1> QED BY <1>1, <1>2

-----------------------------------------------------------------------------
(* Why nothing is handed over twice: while the room is open the tracker      *)
(* knows everything that is on its way or in the log, and before it is open  *)
(* nothing is on its way.                                                    *)
TrackerKnows ==
    /\ phase # "open" => awaiting = {} /\ resolving = {} /\ inbox = {}
    /\ phase = "open" => \A i \in Ids : OnItsWay(i) \/ read[i] > 0 => i \in seen
    /\ phase # "open" => poll.at = "idle"

(* Messages wait for the account only while the request runs, and it runs    *)
(* once.                                                                     *)
AskedOnce ==
    /\ awaiting # {} => whoami
    /\ whoami => selfAsked

FeedInv == TypeOK /\ ReadOnce /\ HandedOnce /\ TrackerKnows /\ AskedOnce

(* Handing messages over adds at most one item for each and moves nothing    *)
(* else; what the agent refused is one of them.                              *)
LEMMA HandAdds ==
  ASSUME NEW ids \in SUBSET Ids, NEW known, Hand(ids, known), TypeOK
  PROVE  /\ resolving' \subseteq Items /\ inbox' \subseteq Items
         /\ dropped' \subseteq Ids
         /\ \A item \in resolving' \cup inbox' :
               item \in resolving \cup inbox
               \/ (item[1] \in ids /\ item = <<item[1], Channel(item[1], known)>>)
         /\ (\A item \in resolving \cup inbox : item[1] \notin ids)
            /\ resolving \cap inbox = {} => resolving' \cap inbox' = {}
<1> DEFINE items(s) == {<<i, Channel(i, known)>> : i \in s}
<1>1. \A s \in SUBSET ids : items(s) \subseteq Items
  BY DEF Items, Channel
<1>2. \A s \in SUBSET ids : \A item \in items(s) :
        item[1] \in ids /\ item = <<item[1], Channel(item[1], known)>>
  OBVIOUS
<1>3. \E s \in SUBSET ids :
        \/ inbox' = inbox \cup items(s) /\ resolving' = resolving
        \/ resolving' = resolving \cup items(s) /\ inbox' = inbox
  <2>1. CASE agentLive
    <3>1. PICK refused \in SUBSET ids : inbox' = inbox \cup items(ids \ refused)
      BY <2>1 DEF Hand
    <3>2. ids \ refused \in SUBSET ids
      OBVIOUS
    <3>3. resolving' = resolving
      BY <2>1 DEF Hand
    <3> QED BY <3>1, <3>2, <3>3
  <2>2. CASE ~agentLive
    <3>1. resolving' = resolving \cup items(ids) /\ inbox' = inbox
      BY <2>2 DEF Hand
    <3> QED BY <3>1
  <2> QED BY <2>1, <2>2
<1>4. resolving \subseteq Items /\ inbox \subseteq Items
  BY DEF TypeOK
<1>5. dropped' \subseteq Ids
  BY DEF Hand, TypeOK
<1> HIDE DEF items
<1> QED BY <1>1, <1>2, <1>3, <1>4, <1>5

(* Delivering a batch keeps the tracker ahead of everything on its way.      *)
LEMMA DeliverKeeps ==
  ASSUME FeedInv, NEW ids \in SUBSET Ids, Deliver(ids),
         UNCHANGED <<phase, read, members>>
  PROVE  /\ seen' \subseteq Ids /\ awaiting' \subseteq Ids
         /\ resolving' \subseteq Items /\ inbox' \subseteq Items /\ dropped' \subseteq Ids
         /\ selfKnown' \in BOOLEAN /\ selfAsked' \in BOOLEAN /\ whoami' \in BOOLEAN
         /\ HandedOnce' /\ AskedOnce'
         /\ phase' # "open" => awaiting' = {} /\ resolving' = {} /\ inbox' = {}
         /\ phase' = "open" => \A i \in Ids : OnItsWay(i)' \/ read'[i] > 0 => i \in seen'
PROOF
<1> DEFINE new == Accepted(ids)
           first == CHOOSE i \in new : \A k \in new : i <= k
<1>1. CASE phase # "open" \/ new = {}
  <2>1. UNCHANGED <<seen, selfKnown, selfAsked, whoami, awaiting, resolving, inbox,
                    dropped>>
    BY <1>1 DEF Deliver, selfVars
  <2>2. OnItsWay(1)' = OnItsWay(1) /\ \A i \in Ids : OnItsWay(i)' <=> OnItsWay(i)
    BY <2>1 DEF OnItsWay, Queued
  <2> QED
    BY <2>1, <2>2 DEF FeedInv, TypeOK, HandedOnce, TrackerKnows, AskedOnce, OnItsWay, Queued
<1>2. CASE phase = "open" /\ new # {}
  <2>1. \A i \in new : /\ i \in ids /\ i \in Ids /\ i \notin seen
                       /\ ~OnItsWay(i) /\ read[i] = 0
    BY <1>2 DEF Accepted, FeedInv, TrackerKnows, TypeOK
  <2>2. \E handed \in SUBSET new, known \in BOOLEAN :
            /\ Hand(handed, known)
            /\ awaiting' \subseteq awaiting \cup (new \ handed)
    <3>1. CASE selfAsked
      BY <1>2, <3>1 DEF Deliver, FeedInv, TypeOK
    <3>2. CASE ~selfAsked
      <4>1. first \in new
        BY <1>2, <2>1, LowestId
      <4>2. awaiting' = {first} /\ Hand(new \ {first}, FALSE)
        BY <1>2, <3>2 DEF Deliver
      <4> QED BY <4>1, <4>2
    <3> QED BY <3>1, <3>2
  <2>3. PICK handed \in SUBSET new, known \in BOOLEAN :
            /\ Hand(handed, known)
            /\ awaiting' \subseteq awaiting \cup (new \ handed)
    BY <2>2
  <2>4. /\ seen' = seen \cup new
        /\ selfKnown' = selfKnown
        /\ selfAsked' = TRUE
        /\ whoami' = whoami \/ whoami' = TRUE
        /\ awaiting' # {} => whoami'
    <3>1. CASE selfAsked
      BY <1>2, <3>1 DEF Deliver, FeedInv, TypeOK, AskedOnce
    <3>2. CASE ~selfAsked
      BY <1>2, <3>2 DEF Deliver
    <3> QED BY <3>1, <3>2
  <2>5. handed \in SUBSET Ids
    BY <2>1, <2>3
  <2> HIDE DEF new, first
  <2>6. TypeOK /\ HandedOnce
    BY DEF FeedInv
  <2>7. \A item \in resolving \cup inbox : item[1] \notin handed
    BY <2>1, <2>3 DEF OnItsWay, Queued
  <2>8. /\ resolving' \subseteq Items /\ inbox' \subseteq Items /\ dropped' \subseteq Ids
        /\ \A item \in resolving' \cup inbox' :
              item \in resolving \cup inbox
              \/ (item[1] \in handed /\ item = <<item[1], Channel(item[1], known)>>)
        /\ resolving' \cap inbox' = {}
    BY <2>3, <2>5, <2>6, <2>7, HandAdds DEF HandedOnce
  <2>9. \A i \in Ids : Queued(i)' => Queued(i) \/ i \in handed
    BY <2>8 DEF Queued
  <2>10. \A i \in Ids : OnItsWay(i)' => OnItsWay(i) \/ i \in new
    BY <2>9, <2>3 DEF OnItsWay
  <2>11. \A a, b \in resolving' \cup inbox' : a[1] = b[1] => a = b
    BY <2>6, <2>7, <2>8 DEF HandedOnce
  <2>12. \A i \in awaiting' : ~Queued(i)'
    BY <2>1, <2>3, <2>6, <2>9 DEF HandedOnce, OnItsWay, TypeOK
  <2>13. \A i \in Ids : OnItsWay(i)' => read'[i] = 0
    BY <2>1, <2>6, <2>10 DEF HandedOnce
  <2>14. HandedOnce'
    BY <2>8, <2>11, <2>12, <2>13 DEF HandedOnce
  <2>15. \A i \in Ids : OnItsWay(i)' \/ read'[i] > 0 => i \in seen'
    BY <1>2, <2>4, <2>10 DEF FeedInv, TrackerKnows
  <2>16. seen' \subseteq Ids /\ awaiting' \subseteq Ids
    BY <2>1, <2>3, <2>4, <2>6 DEF TypeOK
  <2>17. selfKnown' \in BOOLEAN /\ selfAsked' \in BOOLEAN /\ whoami' \in BOOLEAN
    BY <2>4, <2>6 DEF TypeOK
  <2> QED
    BY <1>2, <2>4, <2>8, <2>14, <2>15, <2>16, <2>17 DEF AskedOnce
<1> QED BY <1>1, <1>2 DEF FeedInv, TypeOK

-----------------------------------------------------------------------------
(* The states of a sync() that starts, reads on, or has its answer.          *)
LEMMA NoPollTyped == NoPoll \in PollState
BY FeedAssumption DEF NoPoll, PollState

LEMMA PollTypes ==
  ASSUME NEW c \in 0..MaxMsgs
  PROVE  /\ [NoPoll EXCEPT !.at = "asked", !.cursor = c] \in PollState
         /\ \A p \in PollState, e \in 0..MaxMsgs, more \in BOOLEAN :
              [p EXCEPT !.at = "answered", !.upTo = e, !.more = more] \in PollState
<1>3. [NoPoll EXCEPT !.at = "asked", !.cursor = c] \in PollState
  BY NoPollTyped DEF PollState
<1>4. ASSUME NEW p \in PollState, NEW e \in 0..MaxMsgs, NEW more \in BOOLEAN
      PROVE  [p EXCEPT !.at = "answered", !.upTo = e, !.more = more] \in PollState
  BY DEF PollState
<1> QED BY <1>3, <1>4

(* The initial state satisfies the invariant.                                *)
LEMMA FeedInit == Init => FeedInv
<1> SUFFICES ASSUME Init PROVE FeedInv
  OBVIOUS
<1>1. TypeOK
  <2>1. poll \in PollState /\ poll.at = "idle"
    BY NoPollTyped DEF Init, NoPoll
  <2>2. /\ connected \in BOOLEAN /\ subscribed \in BOOLEAN
        /\ followed \in BOOLEAN /\ members \in BOOLEAN /\ booted \in BOOLEAN
        /\ selfKnown \in BOOLEAN /\ selfAsked \in BOOLEAN
        /\ whoami \in BOOLEAN /\ agentLive \in BOOLEAN
    BY DEF Init
  <2>3. /\ pushes \subseteq Ids /\ seen \subseteq Ids /\ awaiting \subseteq Ids
        /\ resolving \subseteq Items /\ inbox \subseteq Items
        /\ linked \in BOOLEAN /\ dropped \subseteq Ids
        /\ phase \in {"closed", "opening", "open"}
    BY DEF Init
  <2>4. log \in 0..MaxMsgs /\ restarts \in 0..MaxRestarts /\ read \in [Ids -> Nat]
    BY FeedAssumption DEF Init
  <2> QED BY <2>1, <2>2, <2>3, <2>4 DEF TypeOK
<1>2. ReadOnce
  BY DEF Init, ReadOnce
<1>3. HandedOnce
  BY DEF Init, HandedOnce, Queued, OnItsWay
<1>4. TrackerKnows
  BY DEF Init, TrackerKnows, NoPoll
<1>5. AskedOnce
  BY DEF Init, AskedOnce
<1> QED BY <1>1, <1>2, <1>3, <1>4, <1>5 DEF FeedInv

(* A message goes from "on its way" to the log in one step.                  *)
LEMMA ReadMoves ==
  ASSUME FeedInv, NEW ids \in SUBSET Ids,
         inbox' \subseteq inbox,
         \A i \in ids : Queued(i) /\ ~Queued(i)',
         \A i \in Ids : read'[i] = IF i \in ids THEN read[i] + 1 ELSE read[i],
         read' \in [Ids -> Nat],
         UNCHANGED <<phase, poll, seen, selfAsked, whoami, awaiting, resolving>>
  PROVE  ReadOnce' /\ HandedOnce' /\ TrackerKnows' /\ AskedOnce'
<1>1. \A i \in Ids : OnItsWay(i)' => OnItsWay(i)
  BY DEF OnItsWay, Queued
<1>2. \A i \in ids : OnItsWay(i) /\ read[i] = 0 /\ ~OnItsWay(i)'
  BY DEF FeedInv, HandedOnce, OnItsWay
<1>3. ReadOnce'
  BY <1>2 DEF FeedInv, ReadOnce
<1>4. HandedOnce'
  <2>1. \A i \in Ids : OnItsWay(i)' => read'[i] = 0
    BY <1>1, <1>2 DEF FeedInv, HandedOnce
  <2>2. \A i \in awaiting' : ~Queued(i)'
    BY DEF FeedInv, HandedOnce, Queued
  <2> QED BY <2>1, <2>2 DEF FeedInv, HandedOnce
<1>5. TrackerKnows'
  <2>1. phase' # "open" => awaiting' = {} /\ resolving' = {} /\ inbox' = {}
    BY DEF FeedInv, TrackerKnows
  <2>2. phase' = "open" => \A i \in Ids : OnItsWay(i)' \/ read'[i] > 0 => i \in seen'
    BY <1>1, <1>2 DEF FeedInv, TrackerKnows, TypeOK
  <2> QED BY <2>1, <2>2 DEF FeedInv, TrackerKnows
<1> QED BY <1>3, <1>4, <1>5 DEF FeedInv, AskedOnce

(* Dropping what is on its way disturbs nothing.                             *)
LEMMA Dropping ==
  ASSUME FeedInv, resolving' \subseteq resolving, inbox' = inbox,
         UNCHANGED <<phase, poll, seen, selfAsked, whoami, awaiting, read>>
  PROVE  ReadOnce' /\ HandedOnce' /\ TrackerKnows' /\ AskedOnce'
<1>1. \A i : Queued(i)' => Queued(i)
  BY DEF Queued
<1>2. \A i : OnItsWay(i)' => OnItsWay(i)
  BY <1>1 DEF OnItsWay
<1> QED
  BY <1>1, <1>2 DEF FeedInv, ReadOnce, HandedOnce, TrackerKnows, AskedOnce

(* Moving an item from resolving to the inbox keeps it on its way.           *)
LEMMA Binding ==
  ASSUME FeedInv, NEW item \in resolving, resolving' = resolving \ {item},
         inbox' = inbox \cup {item},
         UNCHANGED <<phase, poll, seen, selfAsked, whoami, awaiting, read>>
  PROVE  ReadOnce' /\ HandedOnce' /\ TrackerKnows' /\ AskedOnce'
<1>1. resolving' \cup inbox' = resolving \cup inbox
  OBVIOUS
<1>2. \A i : Queued(i)' = Queued(i)
  BY <1>1 DEF Queued
<1>3. \A i : OnItsWay(i)' = OnItsWay(i)
  BY <1>2 DEF OnItsWay
<1>4. HandedOnce'
  BY <1>1, <1>2, <1>3 DEF FeedInv, HandedOnce
<1>5. TrackerKnows'
  BY <1>3 DEF FeedInv, TrackerKnows
<1> QED BY <1>4, <1>5 DEF FeedInv, ReadOnce, AskedOnce

(* A step that leaves messages, account and log alone keeps what is said of  *)
(* them.                                                                     *)
LEMMA Elsewhere ==
  ASSUME FeedInv, UNCHANGED <<seen, selfVars, resolving, inbox, read>>,
         phase = "open" => phase' = "open",
         phase' = "open" => phase = "open"
                            \/ \A i \in Ids : read[i] > 0 => i \in seen,
         phase' # "open" => poll'.at = "idle"
  PROVE  ReadOnce' /\ HandedOnce' /\ TrackerKnows' /\ AskedOnce'
<1>1. \A i : Queued(i)' = Queued(i)
  BY DEF Queued
<1>2. \A i : OnItsWay(i)' = OnItsWay(i)
  BY <1>1 DEF OnItsWay, selfVars
<1>3. HandedOnce'
  BY <1>1, <1>2 DEF FeedInv, HandedOnce, selfVars
<1>4. phase # "open" => \A i : ~OnItsWay(i)
  BY DEF FeedInv, TrackerKnows, OnItsWay, Queued
<1>5. TrackerKnows'
  BY <1>2, <1>4 DEF FeedInv, TrackerKnows, selfVars
<1> QED BY <1>3, <1>5 DEF FeedInv, ReadOnce, AskedOnce, selfVars

(* Every step keeps the types: one case for each action.                     *)
LEMMA TypesKept ==
  ASSUME FeedInv, [Next]_vars
  PROVE  TypeOK'
<1> USE FeedAssumption
<1>0. TypeOK
  BY DEF FeedInv
<1>1. CASE Post
  BY <1>0, <1>1 DEF Post, TypeOK, Ids, roomVars, selfVars, agentVars
<1>2. CASE Connect
  BY <1>0, <1>2 DEF Connect, TypeOK, roomVars, selfVars, agentVars
<1>3. CASE ServerFollow
  BY <1>0, <1>3 DEF ServerFollow, TypeOK, roomVars, selfVars, agentVars
<1>4. CASE Disconnect
  BY <1>0, <1>4 DEF Disconnect, TypeOK, roomVars, selfVars, agentVars
<1>5. CASE Pushed
  <2>1. PICK i \in Ids : pushes' = pushes \ {i} /\ Deliver({i})
    BY <1>0, <1>5, LowestId DEF Pushed, TypeOK
  <2>2. UNCHANGED <<log, connected, subscribed, linked, roomVars, agentLive, read,
                    restarts>>
    BY <1>5 DEF Pushed
  <2> QED BY <1>0, <2>1, <2>2, DeliverKeeps DEF TypeOK, roomVars
<1>6. CASE Open \/ OpenFails
  BY <1>0, <1>6 DEF Open, OpenFails, TypeOK, serverVars, selfVars, agentVars
<1>7. ASSUME NEW roster \in BOOLEAN, OpenReady(roster)
      PROVE  TypeOK'
  <2>1. seen' \in SUBSET Ids
    BY <1>0, <1>7 DEF OpenReady, Seeded, TypeOK
  <2>2. CursorOf(seen') \in 0..MaxMsgs
    BY <2>1, CursorIsSeen
  <2>3. poll' \in PollState
    BY <1>7, <2>2, PollTypes DEF OpenReady
  <2> QED
    BY <1>0, <1>7, <2>1, <2>3
       DEF OpenReady, TypeOK, serverVars, selfVars, agentVars
<1>8. CASE StartSync
  <2>1. CursorOf(seen) \in 0..MaxMsgs
    BY <1>0, CursorIsSeen DEF TypeOK
  <2>2. poll' \in PollState
    BY <1>8, <2>1, PollTypes DEF StartSync
  <2> QED
    BY <1>0, <1>8, <2>2
       DEF StartSync, TypeOK, serverVars, selfVars, agentVars
<1>9. CASE Answer
  <2> DEFINE end == IF poll.cursor + PageSize < log THEN poll.cursor + PageSize ELSE log
  <2>1. end \in 0..MaxMsgs /\ (end < log) \in BOOLEAN
    BY <1>0 DEF TypeOK, PollState
  <2>2. poll' = [poll EXCEPT !.at = "answered", !.upTo = end, !.more = end < log]
    BY <1>9 DEF Answer
  <2>3. poll' \in PollState
    BY <1>0, <2>1, <2>2, PollTypes DEF TypeOK
  <2> QED BY <1>0, <1>9, <2>3 DEF Answer, TypeOK, serverVars, selfVars, agentVars
<1>10. CASE PageFails
  <2>1. poll' \in PollState
    BY <1>10, NoPollTyped DEF PageFails, NotSyncing
  <2> QED BY <1>0, <1>10, <2>1 DEF PageFails, TypeOK, serverVars, selfVars, agentVars
<1>11. CASE Page
  <2>1. (poll.cursor + 1)..poll.upTo \in SUBSET Ids
    BY <1>0 DEF TypeOK, Ids, PollState
  <2>2. UNCHANGED <<serverVars, phase, followed, members, agentLive, read, restarts>>
    BY <1>11 DEF Page
  <2>3. booted' \in BOOLEAN /\ (poll' = NoPoll \/ poll' = [NoPoll EXCEPT !.at = "asked", !.cursor = poll.upTo])
    BY <1>0, <1>11 DEF Page, NotSyncing, NextCursor, roomVars, TypeOK
  <2>4. Deliver((poll.cursor + 1)..poll.upTo)
    BY <1>11 DEF Page
  <2>5. poll' \in PollState
    <3>1. poll.upTo \in 0..MaxMsgs
      BY <1>0 DEF TypeOK, PollState
    <3> QED BY <2>3, <3>1, NoPollTyped, PollTypes
  <2> QED BY <1>0, <2>1, <2>2, <2>3, <2>4, <2>5, DeliverKeeps DEF TypeOK, serverVars
<1>12. CASE BootIdentity
  BY <1>0, <1>12 DEF BootIdentity, TypeOK, serverVars, roomVars, agentVars
<1>13. ASSUME NEW ok \in BOOLEAN, Identity(ok)
       PROVE  TypeOK'
  <2>1. Hand(awaiting, ok) /\ awaiting \in SUBSET Ids
    BY <1>0, <1>13 DEF Identity, TypeOK
  <2>2. resolving' \subseteq Items /\ inbox' \subseteq Items /\ dropped' \subseteq Ids
    BY <1>0, <2>1, HandAdds
  <2> QED BY <1>0, <1>13, <2>2 DEF Identity, TypeOK, serverVars, roomVars
<1>14. ASSUME NEW item \in Items, Resolved(item) \/ ResolveFails(item)
       PROVE  TypeOK'
  <2>1. resolving' \subseteq resolving
    BY <1>14 DEF Resolved, ResolveFails
  <2>2. inbox' \subseteq Items
    BY <1>0, <1>14 DEF Resolved, ResolveFails, TypeOK
  <2>3. agentLive' \in BOOLEAN /\ dropped' \subseteq Ids
    BY <1>0, <1>14 DEF Resolved, ResolveFails, TypeOK, Items
  <2>4. UNCHANGED <<serverVars, roomVars, seen, selfVars, read, restarts>>
    BY <1>14 DEF Resolved, ResolveFails
  <2> QED
    BY <1>0, <2>1, <2>2, <2>3, <2>4 DEF TypeOK, serverVars, roomVars, selfVars
<1>15. CASE WarmUp
  BY <1>0, <1>15 DEF WarmUp, TypeOK, serverVars, roomVars, selfVars
<1>16. ASSUME NEW i \in Ids, RunFollowup(i)
       PROVE  TypeOK'
  BY <1>0, <1>16 DEF RunFollowup, TypeOK, serverVars, roomVars, selfVars
<1>17. CASE PreStep
  <2>1. read' \in [Ids -> Nat]
    BY <1>0, <1>17 DEF PreStep, TypeOK
  <2> QED BY <1>0, <1>17, <2>1 DEF PreStep, TypeOK, serverVars, roomVars, selfVars
<1>18. CASE Restart
  <2>1. poll' \in PollState
    BY <1>18, NoPollTyped DEF Restart
  <2>2. /\ connected' \in BOOLEAN /\ subscribed' \in BOOLEAN
        /\ followed' \in BOOLEAN /\ members' \in BOOLEAN /\ booted' \in BOOLEAN
        /\ selfKnown' \in BOOLEAN /\ selfAsked' \in BOOLEAN
        /\ whoami' \in BOOLEAN /\ agentLive' \in BOOLEAN
    BY <1>18 DEF Restart
  <2>3. /\ pushes' \subseteq Ids /\ seen' \subseteq Ids /\ awaiting' \subseteq Ids
        /\ linked' \in BOOLEAN /\ dropped' \subseteq Ids
        /\ resolving' \subseteq Items /\ inbox' \subseteq Items
        /\ phase' \in {"closed", "opening", "open"}
    BY <1>0, <1>18 DEF Restart, TypeOK
  <2>4. log' \in 0..MaxMsgs /\ restarts' \in 0..MaxRestarts /\ read' \in [Ids -> Nat]
    BY <1>0, <1>18, FeedAssumption DEF Restart, TypeOK
  <2> QED BY <2>1, <2>2, <2>3, <2>4 DEF TypeOK
<1>19. CASE UNCHANGED vars
  BY <1>0, <1>19 DEF vars, TypeOK, serverVars, roomVars, selfVars, agentVars
<1> QED
  BY <1>1, <1>2, <1>3, <1>4, <1>5, <1>6, <1>7, <1>8, <1>9, <1>10, <1>11, <1>12,
     <1>13, <1>14, <1>15, <1>16, <1>17, <1>18, <1>19 DEF Next

(* Every step keeps the invariant.                                           *)
LEMMA FeedStep == FeedInv /\ [Next]_vars => FeedInv'
<1> SUFFICES ASSUME FeedInv, [Next]_vars PROVE FeedInv'
  OBVIOUS
<1> DEFINE Others == ReadOnce' /\ HandedOnce' /\ TrackerKnows' /\ AskedOnce'
<1>0. TypeOK /\ TypeOK'
  BY TypesKept DEF FeedInv
<1> SUFFICES Others
  BY <1>0 DEF FeedInv
<1>1. CASE Post \/ Connect \/ ServerFollow \/ Disconnect
  <2>1. UNCHANGED <<phase, poll, seen, selfVars, resolving, inbox, read>>
    BY <1>1 DEF Post, Connect, ServerFollow, Disconnect, roomVars, agentVars
  <2> QED BY <2>1, Elsewhere DEF FeedInv, TrackerKnows
<1>2. CASE Pushed
  <2>1. PICK i \in Ids : Deliver({i})
    BY <1>0, <1>2, LowestId DEF Pushed, TypeOK
  <2>2. UNCHANGED <<phase, members, poll, read>>
    BY <1>2 DEF Pushed, roomVars
  <2>3. HandedOnce' /\ AskedOnce'
    BY <2>1, <2>2, DeliverKeeps
  <2>4. /\ phase' # "open" => awaiting' = {} /\ resolving' = {} /\ inbox' = {}
        /\ phase' = "open" => \A j \in Ids : OnItsWay(j)' \/ read'[j] > 0 => j \in seen'
    BY <2>1, <2>2, DeliverKeeps
  <2>5. TrackerKnows'
    BY <2>2, <2>4 DEF TrackerKnows, FeedInv
  <2> QED BY <2>2, <2>3, <2>5 DEF FeedInv, ReadOnce
<1>3. CASE Open \/ OpenFails
  <2>1. /\ UNCHANGED <<poll, seen, selfVars, resolving, inbox, read>>
        /\ phase # "open" /\ phase' # "open"
    BY <1>3 DEF Open, OpenFails, agentVars
  <2> QED BY <2>1, Elsewhere DEF FeedInv, TrackerKnows
<1>4. ASSUME NEW roster \in BOOLEAN, OpenReady(roster)
      PROVE  Others
  <2>1. /\ UNCHANGED <<selfKnown, selfAsked, whoami, awaiting, resolving, inbox, read>>
        /\ phase = "opening" /\ phase' = "open" /\ seen' = Seeded
    BY <1>4 DEF OpenReady, selfVars, agentVars
  <2>2. \A i : Queued(i)' = Queued(i) /\ OnItsWay(i)' = OnItsWay(i)
    BY <2>1 DEF Queued, OnItsWay
  <2>3. \A i : ~OnItsWay(i)
    BY <2>1 DEF FeedInv, TrackerKnows, OnItsWay, Queued
  <2>4. TrackerKnows'
    BY <2>1, <2>2, <2>3 DEF TrackerKnows, Seeded
  <2> QED BY <2>1, <2>2, <2>4 DEF FeedInv, ReadOnce, HandedOnce, AskedOnce
<1>5. CASE StartSync \/ Answer
  <2>1. /\ UNCHANGED <<phase, seen, selfVars, resolving, inbox, read>>
        /\ phase = "open"
    BY <1>5 DEF StartSync, Answer, agentVars, FeedInv, TrackerKnows
  <2> QED BY <2>1, Elsewhere
<1>6. CASE PageFails
  <2>1. /\ UNCHANGED <<phase, seen, selfVars, resolving, inbox, read>>
        /\ phase = "open"
    BY <1>6 DEF PageFails, agentVars, FeedInv, TrackerKnows
  <2> QED BY <2>1, Elsewhere
<1>7. CASE Page
  <2>0. poll \in PollState
    BY <1>0 DEF TypeOK
  <2>1. (poll.cursor + 1)..poll.upTo \in SUBSET Ids
    BY <2>0, FeedAssumption DEF Ids, PollState
  <2>2. UNCHANGED <<phase, members, read>> /\ phase = "open"
    BY <1>7 DEF Page, FeedInv, TrackerKnows
  <2>3. Deliver((poll.cursor + 1)..poll.upTo)
    BY <1>7 DEF Page
  <2>4. HandedOnce' /\ AskedOnce'
    BY <2>1, <2>2, <2>3, DeliverKeeps
  <2>5. \A j \in Ids : OnItsWay(j)' \/ read'[j] > 0 => j \in seen'
    BY <2>1, <2>2, <2>3, DeliverKeeps
  <2>6. TrackerKnows'
    BY <2>2, <2>5 DEF TrackerKnows
  <2> QED BY <2>2, <2>4, <2>6 DEF FeedInv, ReadOnce
<1>8. CASE BootIdentity
  <2>1. /\ UNCHANGED <<phase, poll, seen, awaiting, resolving, inbox, read>>
        /\ whoami' /\ selfAsked'
    BY <1>8 DEF BootIdentity, agentVars, roomVars
  <2>2. \A i : Queued(i)' = Queued(i) /\ OnItsWay(i)' = OnItsWay(i)
    BY <2>1 DEF Queued, OnItsWay
  <2>3. HandedOnce' /\ TrackerKnows'
    BY <2>1, <2>2 DEF FeedInv, HandedOnce, TrackerKnows
  <2> QED BY <2>1, <2>3 DEF FeedInv, ReadOnce, AskedOnce
<1>9. ASSUME NEW ok \in BOOLEAN, Identity(ok)
      PROVE  Others
  <2>1. /\ Hand(awaiting, ok) /\ awaiting \in SUBSET Ids
        /\ awaiting' = {} /\ whoami' = FALSE /\ selfAsked' = selfAsked
        /\ UNCHANGED <<phase, poll, seen, read>>
    BY <1>0, <1>9 DEF Identity, TypeOK, roomVars
  <2>2. /\ \A item \in resolving' \cup inbox' :
              item \in resolving \cup inbox
              \/ (item[1] \in awaiting /\ item = <<item[1], Channel(item[1], ok)>>)
        /\ resolving' \cap inbox' = {}
    <3>1. \A item \in resolving \cup inbox : item[1] \notin awaiting
      BY DEF FeedInv, HandedOnce, Queued
    <3> QED BY <1>0, <2>1, <3>1, HandAdds DEF FeedInv, HandedOnce
  <2>3. \A i : Queued(i)' => OnItsWay(i)
    BY <2>2 DEF Queued, OnItsWay
  <2>4. \A i : OnItsWay(i)' => OnItsWay(i)
    BY <2>1, <2>3 DEF OnItsWay
  <2>5. \A a, b \in resolving' \cup inbox' : a[1] = b[1] => a = b
    BY <2>2 DEF FeedInv, HandedOnce, Queued
  <2>6. HandedOnce'
    BY <2>1, <2>2, <2>4, <2>5 DEF FeedInv, HandedOnce
  <2>7. phase # "open" => resolving' = {} /\ inbox' = {}
    <3>1. phase # "open" => awaiting = {} /\ resolving = {} /\ inbox = {}
      BY DEF FeedInv, TrackerKnows
    <3>2. phase # "open" => resolving' \cup inbox' = {}
      BY <2>2, <3>1
    <3> QED BY <3>2
  <2>8. TrackerKnows'
    BY <2>1, <2>4, <2>7 DEF FeedInv, TrackerKnows
  <2> QED BY <2>1, <2>6, <2>8 DEF FeedInv, ReadOnce, AskedOnce
<1>10. ASSUME NEW item \in Items, Resolved(item)
       PROVE  Others
  <2>1. /\ item \in resolving /\ resolving' = resolving \ {item}
        /\ inbox' = inbox \cup {item} \/ inbox' = inbox
        /\ UNCHANGED <<phase, poll, seen, selfAsked, whoami, awaiting, read>>
    BY <1>10 DEF Resolved, roomVars, selfVars
  <2>2. CASE inbox' = inbox \cup {item}
    BY <2>1, <2>2, Binding
  <2>3. CASE inbox' = inbox
    <3>1. resolving' \subseteq resolving
      BY <2>1
    <3> QED BY <2>1, <2>3, <3>1, Dropping
  <2> QED BY <2>1, <2>2, <2>3
<1>11. ASSUME NEW item \in Items, ResolveFails(item)
       PROVE  Others
  <2>1. /\ resolving' \subseteq resolving /\ inbox' = inbox
        /\ UNCHANGED <<phase, poll, seen, selfAsked, whoami, awaiting, read>>
    BY <1>11 DEF ResolveFails, roomVars, selfVars
  <2> QED BY <2>1, Dropping
<1>12. CASE WarmUp
  <2>1. UNCHANGED <<phase, poll, seen, selfVars, resolving, inbox, read>>
    BY <1>12 DEF WarmUp, roomVars
  <2> QED BY <2>1, Elsewhere DEF FeedInv, TrackerKnows
<1>13. ASSUME NEW i \in Ids, RunFollowup(i)
       PROVE  Others
  <2>1. /\ <<i, "followup">> \in inbox /\ inbox' = inbox \ {<<i, "followup">>}
        /\ read' = [read EXCEPT ![i] = @ + 1]
        /\ UNCHANGED <<phase, poll, seen, selfAsked, whoami, awaiting, resolving>>
    BY <1>13 DEF RunFollowup, roomVars, selfVars
  <2>2. \A j \in {i} : Queued(j) /\ ~Queued(j)'
    BY <2>1 DEF Queued, FeedInv, HandedOnce
  <2>3. \A j \in Ids : read'[j] = IF j \in {i} THEN read[j] + 1 ELSE read[j]
    BY <1>0, <2>1 DEF TypeOK
  <2>4. read' \in [Ids -> Nat] /\ {i} \in SUBSET Ids
    BY <1>0 DEF TypeOK
  <2> QED BY <2>1, <2>2, <2>3, <2>4, ReadMoves
<1>14. CASE PreStep
  <2> DEFINE context == {i \in Ids : <<i, "inject">> \in inbox}
  <2>1. /\ inbox' = inbox \ {<<i, "inject">> : i \in context}
        /\ read' = [i \in Ids |-> IF i \in context THEN read[i] + 1 ELSE read[i]]
        /\ UNCHANGED <<phase, poll, seen, selfAsked, whoami, awaiting, resolving>>
    BY <1>14 DEF PreStep, roomVars, selfVars
  <2>2. \A j \in context : Queued(j)
    BY DEF Queued
  <2>3. \A j \in context : ~Queued(j)'
    <3>1. SUFFICES ASSUME NEW j \in context, Queued(j)' PROVE FALSE
      OBVIOUS
    <3>2. PICK item \in resolving' \cup inbox' : item[1] = j
      BY <3>1 DEF Queued
    <3>3. item \in resolving \cup inbox /\ <<j, "inject">> \in inbox
      BY <2>1, <3>2
    <3>4. item = <<j, "inject">>
      BY <3>2, <3>3 DEF FeedInv, HandedOnce
    <3>5. item \notin inbox'
      BY <2>1, <3>4
    <3>6. item \notin resolving'
      BY <2>1, <3>3, <3>4 DEF FeedInv, HandedOnce
    <3> QED BY <3>2, <3>5, <3>6
  <2>4. read' \in [Ids -> Nat] /\ context \in SUBSET Ids
    BY <1>0 DEF TypeOK
  <2>5. \A j \in Ids : read'[j] = IF j \in context THEN read[j] + 1 ELSE read[j]
    BY <2>1
  <2>6. inbox' \subseteq inbox
    BY <2>1
  <2> HIDE DEF context
  <2> QED BY <2>1, <2>2, <2>3, <2>4, <2>5, <2>6, ReadMoves
<1>15. CASE Restart
  <2>1. /\ phase' = "closed" /\ poll' = NoPoll /\ whoami' = FALSE
        /\ awaiting' = {} /\ resolving' = {} /\ inbox' = {} /\ read' = read
    BY <1>15 DEF Restart
  <2>2. \A i : ~OnItsWay(i)' /\ ~Queued(i)'
    BY <2>1 DEF OnItsWay, Queued
  <2>3. HandedOnce' /\ AskedOnce'
    BY <2>1, <2>2 DEF HandedOnce, AskedOnce
  <2>4. TrackerKnows'
    BY <2>1 DEF TrackerKnows, NoPoll
  <2> QED BY <2>1, <2>3, <2>4 DEF FeedInv, ReadOnce
<1>16. CASE UNCHANGED vars
  <2>1. UNCHANGED <<phase, poll, seen, selfVars, resolving, inbox, read>>
    BY <1>16 DEF vars, roomVars, agentVars
  <2> QED BY <2>1, Elsewhere DEF FeedInv, TrackerKnows
<1> HIDE DEF Others
<1> QED
  BY <1>1, <1>2, <1>3, <1>4, <1>5, <1>6, <1>7, <1>8, <1>9, <1>10, <1>11, <1>12,
     <1>13, <1>14, <1>15, <1>16 DEF Next

-----------------------------------------------------------------------------
(* The feed's variables keep their types (RoomEventTracker, RoomRuntime).    *)
THEOREM FeedTypeCorrect == Spec => []TypeOK
<1>1. FeedInv => TypeOK
  BY DEF FeedInv
<1> QED BY FeedInit, FeedStep, <1>1, PTL DEF Spec

(* The tracker keeps the model from reading one message twice, whatever      *)
(* pushes, polls, reconnects and crashes happen.                             *)
THEOREM FeedReadsOnce == Spec => []ReadOnce
<1>1. FeedInv => ReadOnce
  BY DEF FeedInv
<1> QED BY FeedInit, FeedStep, <1>1, PTL DEF Spec

(* A message is never queued for the agent twice, nor again after it was     *)
(* read (deliver, deliverToAgent).                                           *)
THEOREM FeedHandsOnce == Spec => []HandedOnce
<1>1. FeedInv => HandedOnce
  BY DEF FeedInv
<1> QED BY FeedInit, FeedStep, <1>1, PTL DEF Spec

-----------------------------------------------------------------------------
(* Handing messages over puts each of them on the way or gives it up; what   *)
(* was on the way stays there.                                               *)
LEMMA HandPuts ==
  ASSUME NEW ids, NEW known, Hand(ids, known)
  PROVE  /\ \A i \in ids : Queued(i)' \/ i \in dropped'
         /\ \A i : Queued(i) => Queued(i)'
         /\ dropped \subseteq dropped'
<1> DEFINE items(s) == {<<i, Channel(i, known)>> : i \in s}
<1>1. ASSUME NEW s, resolving' \cup inbox' = resolving \cup inbox \cup items(s)
      PROVE  /\ \A i \in s : Queued(i)'
             /\ \A i : Queued(i) => Queued(i)'
  <2>1. \A i \in s : <<i, Channel(i, known)>> \in items(s)
                     /\ <<i, Channel(i, known)>>[1] = i
    OBVIOUS
  <2> HIDE DEF items
  <2> QED BY <1>1, <2>1 DEF Queued
<1>2. CASE agentLive
  <2>1. PICK refused \in SUBSET ids : /\ inbox' = inbox \cup items(ids \ refused)
                                     /\ dropped' = dropped \cup refused
    BY <1>2 DEF Hand
  <2>2. resolving' = resolving
    BY <1>2 DEF Hand
  <2>3. resolving' \cup inbox' = resolving \cup inbox \cup items(ids \ refused)
    BY <2>1, <2>2
  <2> HIDE DEF items
  <2> QED BY <1>1, <2>1, <2>3
<1>3. CASE ~agentLive
  <2>1. /\ resolving' \cup inbox' = resolving \cup inbox \cup items(ids)
        /\ dropped' = dropped
    BY <1>3 DEF Hand
  <2> HIDE DEF items
  <2> QED BY <1>1, <2>1
<1> QED BY <1>2, <1>3

(* What a delivery accepts goes on its way or is given up, and nothing else  *)
(* leaves it.                                                                *)
LEMMA DeliverPuts ==
  ASSUME AskedOnce, seen \subseteq Ids, NEW ids \in SUBSET Ids, Deliver(ids)
  PROVE  /\ \A i \in seen' : i \in seen \/ OnItsWay(i)' \/ i \in dropped'
         /\ \A i : OnItsWay(i) => OnItsWay(i)'
         /\ dropped \subseteq dropped'
<1> DEFINE new == Accepted(ids)
           first == CHOOSE i \in new : \A k \in new : i <= k
<1>1. CASE phase # "open" \/ new = {}
  <2>1. UNCHANGED <<seen, awaiting, resolving, inbox, dropped>>
    BY <1>1 DEF Deliver, selfVars
  <2> QED BY <2>1 DEF OnItsWay, Queued
<1>2. CASE phase = "open" /\ new # {} /\ selfAsked
  <2>1. seen' = seen \cup new /\ awaiting' = awaiting /\ Hand(new, selfKnown)
    BY <1>2 DEF Deliver
  <2> HIDE DEF new
  <2> QED BY <2>1, HandPuts DEF OnItsWay
<1>3. CASE phase = "open" /\ new # {} /\ ~selfAsked
  <2>1. seen' = seen \cup new /\ awaiting' = {first} /\ Hand(new \ {first}, FALSE)
    BY <1>3 DEF Deliver
  <2>2. awaiting = {}
    BY <1>3 DEF AskedOnce
  <2> HIDE DEF new, first
  <2> QED BY <2>1, <2>2, HandPuts DEF OnItsWay
<1> QED BY <1>1, <1>2, <1>3

(* Every step keeps what the tracker accepted.                               *)
LEMMA KeptStep ==
  ASSUME FeedInv, AcceptedIsKept, [Next]_vars
  PROVE  AcceptedIsKept'
<1>0. TypeOK /\ AskedOnce /\ seen \subseteq Ids /\ read \in [Ids -> Nat]
  BY DEF FeedInv, TypeOK
<1> DEFINE Kept(i) == read[i] > 0 \/ OnItsWay(i) \/ i \in dropped
<1>1. ASSUME UNCHANGED <<seen, awaiting, resolving, inbox, read, dropped>>
      PROVE  AcceptedIsKept'
  BY <1>1 DEF AcceptedIsKept, OnItsWay, Queued
<1>2. CASE Post \/ Connect \/ ServerFollow \/ Disconnect \/ Open \/ OpenFails
           \/ StartSync \/ Answer \/ PageFails \/ BootIdentity \/ WarmUp
           \/ UNCHANGED vars
  BY <1>1, <1>2 DEF Post, Connect, ServerFollow, Disconnect, Open, OpenFails,
     StartSync, Answer, PageFails, BootIdentity, WarmUp, vars, selfVars, agentVars
<1>3. ASSUME NEW ids \in SUBSET Ids, Deliver(ids), UNCHANGED read
      PROVE  AcceptedIsKept'
  <2>1. /\ \A i \in seen' : i \in seen \/ OnItsWay(i)' \/ i \in dropped'
        /\ \A i : OnItsWay(i) => OnItsWay(i)'
        /\ dropped \subseteq dropped'
    BY <1>0, <1>3, DeliverPuts
  <2> QED BY <1>3, <2>1 DEF AcceptedIsKept
<1>4. CASE Pushed
  <2>1. PICK i \in Ids : Deliver({i})
    BY <1>0, <1>4, LowestId DEF Pushed, TypeOK
  <2>2. UNCHANGED read
    BY <1>4 DEF Pushed
  <2> QED BY <1>3, <2>1, <2>2
<1>5. CASE Page
  <2>1. poll \in PollState
    BY <1>0 DEF TypeOK
  <2>2. (poll.cursor + 1)..poll.upTo \in SUBSET Ids
    BY <2>1, FeedAssumption DEF Ids, PollState
  <2>3. Deliver((poll.cursor + 1)..poll.upTo) /\ UNCHANGED read
    BY <1>5 DEF Page
  <2> QED BY <1>3, <2>2, <2>3
<1>6. ASSUME NEW roster \in BOOLEAN, OpenReady(roster)
      PROVE  AcceptedIsKept'
  <2>1. /\ seen' = seen \cup {i \in Ids : read[i] > 0}
        /\ UNCHANGED <<awaiting, resolving, inbox, read, dropped>>
    BY <1>6 DEF OpenReady, Seeded, selfVars, agentVars
  <2> QED BY <2>1 DEF AcceptedIsKept, OnItsWay, Queued
<1>7. ASSUME NEW ok \in BOOLEAN, Identity(ok)
      PROVE  AcceptedIsKept'
  <2>1. Hand(awaiting, ok) /\ UNCHANGED <<seen, read>>
    BY <1>7 DEF Identity
  <2>2. /\ \A i : OnItsWay(i) => OnItsWay(i)' \/ i \in dropped'
        /\ dropped \subseteq dropped'
    BY <2>1, HandPuts DEF OnItsWay
  <2> QED BY <2>1, <2>2 DEF AcceptedIsKept
<1>8. ASSUME NEW item \in Items, Resolved(item)
      PROVE  AcceptedIsKept'
  <2>1. /\ \/ resolving' \cup inbox' = resolving \cup inbox /\ dropped' = dropped
           \/ /\ resolving' = resolving \ {item} /\ inbox' = inbox
              /\ dropped' = dropped \cup {item[1]}
        /\ UNCHANGED <<seen, awaiting, read>>
    BY <1>8 DEF Resolved, selfVars
  <2>2. /\ \A i : OnItsWay(i) => OnItsWay(i)' \/ i \in dropped'
        /\ dropped \subseteq dropped'
    BY <2>1 DEF OnItsWay, Queued
  <2> QED BY <2>1, <2>2 DEF AcceptedIsKept
<1>9. ASSUME NEW item \in Items, ResolveFails(item)
      PROVE  AcceptedIsKept'
  <2>1. /\ resolving' = resolving \ {item} /\ dropped' = dropped \cup {item[1]}
        /\ UNCHANGED <<seen, awaiting, inbox, read>>
    BY <1>9 DEF ResolveFails, selfVars
  <2>2. \A i : OnItsWay(i) => OnItsWay(i)' \/ i = item[1]
    BY <2>1 DEF OnItsWay, Queued
  <2> QED BY <2>1, <2>2 DEF AcceptedIsKept
<1>10. ASSUME NEW i \in Ids, RunFollowup(i)
       PROVE  AcceptedIsKept'
  <2>1. /\ inbox' = inbox \ {<<i, "followup">>} /\ read' = [read EXCEPT ![i] = @ + 1]
        /\ UNCHANGED <<seen, awaiting, resolving, dropped>>
    BY <1>10 DEF RunFollowup, selfVars
  <2>2. \A j \in Ids : OnItsWay(j) => OnItsWay(j)' \/ j = i
    BY <2>1 DEF OnItsWay, Queued
  <2>3. \A j \in Ids : read'[j] >= read[j] /\ read'[i] > 0
    BY <1>0, <2>1
  <2> QED BY <1>0, <2>1, <2>2, <2>3 DEF AcceptedIsKept
<1>11. CASE PreStep
  <2> DEFINE context == {i \in Ids : <<i, "inject">> \in inbox}
  <2>1. /\ inbox' = inbox \ {<<i, "inject">> : i \in context}
        /\ read' = [i \in Ids |-> IF i \in context THEN read[i] + 1 ELSE read[i]]
        /\ UNCHANGED <<seen, awaiting, resolving, dropped>>
    BY <1>11 DEF PreStep, selfVars
  <2>2. \A j \in Ids : OnItsWay(j) => OnItsWay(j)' \/ j \in context
    <3>1. SUFFICES ASSUME NEW j \in Ids, OnItsWay(j), j \notin context
                   PROVE  OnItsWay(j)'
      OBVIOUS
    <3>2. CASE j \in awaiting
      BY <2>1, <3>2 DEF OnItsWay
    <3>3. CASE Queued(j)
      <4>1. PICK item \in resolving \cup inbox : item[1] = j
        BY <3>3 DEF Queued
      <4>2. ASSUME NEW i \in context, item = <<i, "inject">> PROVE FALSE
        BY <3>1, <4>1, <4>2
      <4>3. item \in resolving' \cup inbox'
        BY <2>1, <4>1, <4>2
      <4> QED BY <4>1, <4>3 DEF OnItsWay, Queued
    <3> QED BY <3>1, <3>2, <3>3 DEF OnItsWay
  <2>3. ASSUME NEW j \in Ids
        PROVE  read'[j] >= read[j] /\ (j \in context => read'[j] > 0)
    <3>1. read'[j] = IF j \in context THEN read[j] + 1 ELSE read[j]
      BY <2>1
    <3>2. read[j] \in Nat
      BY <1>0
    <3> HIDE DEF context
    <3> QED BY <3>1, <3>2
  <2> HIDE DEF context
  <2> QED BY <1>0, <2>1, <2>2, <2>3 DEF AcceptedIsKept
<1>12. CASE Restart
  BY <1>12 DEF Restart, AcceptedIsKept
<1> QED
  BY <1>2, <1>4, <1>5, <1>6, <1>7, <1>8, <1>9, <1>10, <1>11, <1>12 DEF Next

(* What the tracker accepted, and the cursor moved past, is in the log or on *)
(* its way: deliveries that wait, page failures, a failed whoami and         *)
(* reconnects lose none of it, and deliverToAgent gives a message up only    *)
(* when resolveAgent fails or the agent throws.                              *)
THEOREM FeedKeepsAccepted == Spec => []AcceptedIsKept
<1>1. Init => AcceptedIsKept
  BY DEF Init, AcceptedIsKept
<1>2. FeedInv /\ AcceptedIsKept /\ [Next]_vars => AcceptedIsKept'
  BY KeptStep
<1> QED BY FeedInit, FeedStep, <1>1, <1>2, PTL DEF Spec

-----------------------------------------------------------------------------
(* Until the socket is up, and in one life, the cursor is all a sync needs:  *)
(* what the tracker accepted is exactly 1..cursor, and a sync never starts   *)
(* above it.                                                                 *)
Polled == ~linked /\ restarts = 0

Gapless ==
    /\ pushes = {} /\ ~connected /\ ~subscribed
    /\ \A i \in Ids : read[i] > 0 => i \in seen
    /\ \A i \in seen : \A k \in 1..i : k \in seen
    /\ \A k \in 1..poll.cursor : k \in seen

PolledInv == FeedInv /\ (Polled => Gapless)

(* Events of a page that starts where the tracker ends leave no gap.         *)
LEMMA DeliverPage ==
  ASSUME FeedInv, Gapless, phase = "open", NEW a \in 0..MaxMsgs, NEW b \in 0..MaxMsgs,
         \A k \in 1..a : k \in seen,
         Deliver((a + 1)..b)
  PROVE  /\ seen' = seen \cup ((a + 1)..b)
         /\ \A i \in seen' : \A k \in 1..i : k \in seen'
         /\ \A k \in 1..b : k \in seen'
<1>1. seen \subseteq Ids /\ Ids \subseteq Nat
  BY FeedAssumption DEF FeedInv, TypeOK, Ids
<1>2. seen' = seen \cup ((a + 1)..b)
  <2>1. CASE Accepted((a + 1)..b) = {}
    BY <2>1 DEF Deliver, Accepted
  <2>2. CASE Accepted((a + 1)..b) # {}
    BY <2>2 DEF Deliver, Accepted
  <2> QED BY <2>1, <2>2
<1>3. \A k \in 1..b : k \in seen'
  BY <1>2
<1>4. \A i \in seen : \A k \in 1..i : k \in seen
  BY DEF Gapless
<1>5. ASSUME NEW i \in seen', NEW k \in 1..i
      PROVE  k \in seen'
  <2>1. CASE i \in seen
    BY <1>2, <1>4, <2>1
  <2>2. CASE i \in (a + 1)..b
    BY <1>3, <2>2
  <2> QED BY <1>2, <2>1, <2>2
<1> QED BY <1>2, <1>3, <1>5

(* Below the cursor of a set without gaps everything is in the set.          *)
LEMMA CursorCovers ==
  ASSUME NEW s \in SUBSET Ids, \A i \in s : \A k \in 1..i : k \in s
  PROVE  \A k \in 1..CursorOf(s) : k \in s
<1>1. CASE s = {}
  BY <1>1 DEF CursorOf
<1>2. CASE s # {}
  BY <1>2, CursorIsSeen
<1> QED BY <1>1, <1>2

(* A step that leaves a room polled, in its first life, found it so.         *)
LEMMA PolledBefore ==
  ASSUME TypeOK, [Next]_vars, Polled'
  PROVE  Polled
<1>1. restarts \in Nat
  BY FeedAssumption DEF TypeOK
<1>2. CASE Post \/ Connect \/ ServerFollow \/ Disconnect \/ Pushed
  BY <1>2 DEF Post, Connect, ServerFollow, Disconnect, Pushed, Polled
<1>3. CASE \/ Open \/ OpenFails \/ StartSync \/ Answer \/ PageFails \/ Page
           \/ \E roster \in BOOLEAN : OpenReady(roster)
  BY <1>3 DEF Open, OpenFails, StartSync, Answer, PageFails, Page, OpenReady, Polled,
     serverVars
<1>4. CASE BootIdentity \/ WarmUp \/ PreStep
  BY <1>4 DEF BootIdentity, WarmUp, PreStep, Polled, serverVars
<1>7. ASSUME NEW i \in Ids, RunFollowup(i) PROVE Polled
  BY <1>7 DEF RunFollowup, Polled, serverVars
<1>8. ASSUME NEW ok \in BOOLEAN, Identity(ok) PROVE Polled
  BY <1>8 DEF Identity, Polled, serverVars
<1>9. ASSUME NEW item \in Items, Resolved(item) \/ ResolveFails(item) PROVE Polled
  BY <1>9 DEF Resolved, ResolveFails, Polled, serverVars
<1>5. CASE Restart
  BY <1>1, <1>5 DEF Restart, Polled
<1>6. CASE UNCHANGED vars
  BY <1>6 DEF vars, serverVars, Polled
<1> QED BY <1>2, <1>3, <1>4, <1>5, <1>6, <1>7, <1>8, <1>9 DEF Next

(* Being fed by polling alone, the room keeps its accepted ids gapless.       *)
LEMMA PolledStep ==
  ASSUME PolledInv, [Next]_vars
  PROVE  PolledInv'
<1>0. FeedInv /\ FeedInv' /\ TypeOK
  BY FeedStep DEF PolledInv, FeedInv
<1> SUFFICES ASSUME Polled' PROVE Gapless'
  BY <1>0 DEF PolledInv
<1>1. /\ poll \in PollState /\ seen \subseteq Ids /\ read \in [Ids -> Nat]
      /\ restarts \in Nat
  BY <1>0, FeedAssumption DEF TypeOK
<1> Gapless
  BY <1>0, PolledBefore DEF PolledInv
<1>2. CASE Post \/ OpenFails \/ Open \/ WarmUp \/ BootIdentity
  BY <1>2 DEF Post, Open, OpenFails, WarmUp, BootIdentity, Gapless, Polled, serverVars,
     roomVars, selfVars, PolledInv, FeedInv, TypeOK
<1>3. CASE Connect \/ ServerFollow \/ Disconnect \/ Pushed \/ Restart
  BY <1>1, <1>3 DEF Gapless, Polled, Connect, ServerFollow, Disconnect, Pushed, Restart
<1>4. ASSUME NEW roster \in BOOLEAN, OpenReady(roster)
      PROVE  Gapless'
  <2>1. seen' = seen
    BY <1>1, <1>4 DEF OpenReady, Seeded, Gapless
  <2>2. poll'.cursor = CursorOf(seen)
    BY <1>4, <2>1 DEF OpenReady, NoPoll
  <2>3. \A k \in 1..CursorOf(seen) : k \in seen
    BY <1>1, CursorCovers DEF Gapless
  <2> QED BY <1>4, <2>1, <2>2, <2>3 DEF OpenReady, Gapless, serverVars
<1>5. CASE StartSync
  <2>1. poll'.cursor = CursorOf(seen)
    BY <1>5 DEF StartSync, NoPoll
  <2>2. \A k \in 1..CursorOf(seen) : k \in seen
    BY <1>1, CursorCovers DEF Gapless
  <2> QED BY <1>5, <2>1, <2>2 DEF StartSync, Gapless, serverVars
<1>6. CASE Answer
  <2>1. poll'.cursor = poll.cursor
    BY <1>1, <1>6 DEF Answer, PollState
  <2> QED BY <1>6, <2>1 DEF Answer, Gapless, serverVars
<1>7. CASE PageFails
  <2>1. poll'.cursor = 0
    BY <1>7 DEF PageFails, NotSyncing, NoPoll
  <2> QED BY <1>7, <2>1 DEF PageFails, Gapless, serverVars
<1>8. CASE Page
  <2>1. /\ Deliver((poll.cursor + 1)..poll.upTo) /\ phase = "open"
        /\ poll.cursor \in 0..MaxMsgs /\ poll.upTo \in 0..MaxMsgs
    BY <1>0, <1>1, <1>8 DEF Page, FeedInv, TrackerKnows, PollState
  <2>2. /\ seen' = seen \cup ((poll.cursor + 1)..poll.upTo)
        /\ \A i \in seen' : \A k \in 1..i : k \in seen'
        /\ \A k \in 1..poll.upTo : k \in seen'
    <3>1. \A k \in 1..poll.cursor : k \in seen
      BY DEF Gapless
    <3> QED BY <1>0, <2>1, <3>1, DeliverPage
  <2>3. poll'.cursor \in {0, poll.upTo}
    <3>1. poll' = NoPoll \/ poll' = [NoPoll EXCEPT !.at = "asked", !.cursor = poll.upTo]
      BY <1>8 DEF Page, NotSyncing, NextCursor
    <3>2. NoPoll.cursor = 0
      BY DEF NoPoll
    <3>3. [NoPoll EXCEPT !.at = "asked", !.cursor = poll.upTo].cursor = poll.upTo
      BY DEF NoPoll
    <3> QED BY <3>1, <3>2, <3>3
  <2> QED BY <1>8, <2>2, <2>3 DEF Page, Gapless, serverVars
<1>9. ASSUME NEW ok \in BOOLEAN, Identity(ok)
      PROVE  Gapless'
  BY <1>9 DEF Identity, Gapless, serverVars, roomVars
<1>10. ASSUME NEW item \in Items, Resolved(item) \/ ResolveFails(item)
       PROVE  Gapless'
  BY <1>10 DEF Resolved, ResolveFails, Gapless, serverVars, roomVars
<1>11. ASSUME NEW i \in Ids, RunFollowup(i)
       PROVE  Gapless'
  <2>1. Queued(i)
    BY <1>11 DEF RunFollowup, Queued
  <2>2. i \in seen
    BY <1>0, <2>1 DEF FeedInv, TrackerKnows, OnItsWay, Queued
  <2>3. \A j \in Ids : read'[j] > 0 => j \in seen
    BY <1>1, <1>11, <2>2 DEF RunFollowup, Gapless
  <2> QED BY <1>11, <2>3 DEF RunFollowup, Gapless, serverVars, roomVars
<1>12. CASE PreStep
  <2>1. \A i \in Ids : <<i, "inject">> \in inbox => Queued(i)
    BY DEF Queued
  <2>2. \A i \in Ids : <<i, "inject">> \in inbox => i \in seen
    BY <1>0, <2>1 DEF FeedInv, TrackerKnows, OnItsWay
  <2>3. \A j \in Ids : read'[j] > 0 => j \in seen
    BY <1>1, <1>12, <2>2 DEF PreStep, Gapless
  <2> QED BY <1>12, <2>3 DEF PreStep, Gapless, serverVars, roomVars
<1>13. CASE UNCHANGED vars
  BY <1>13 DEF vars, Gapless, serverVars, roomVars
<1> QED
  BY <1>2, <1>3, <1>4, <1>5, <1>6, <1>7, <1>8, <1>9, <1>10, <1>11, <1>12, <1>13
     DEF Next

(* A room fed by polling alone in one life of the workspace has no gap below *)
(* its cursor, so "since the cursor" misses nothing (sync, cursorOf).        *)
THEOREM PolledFeedHasNoGap == Spec => []NoGapBelowCursor
<1>1. Init => PolledInv
  BY FeedInit DEF Init, NoPoll, PolledInv, Gapless
<1>2. PolledInv /\ [Next]_vars => PolledInv'
  BY PolledStep
<1>3. PolledInv => NoGapBelowCursor
  <2> SUFFICES ASSUME PolledInv, Polled PROVE \A i \in 1..CursorOf(seen) : i \in seen
    BY DEF NoGapBelowCursor, Polled
  <2>1. seen \in SUBSET Ids
    BY DEF PolledInv, FeedInv, TypeOK
  <2> QED BY <2>1, CursorCovers DEF PolledInv, Gapless
<1> QED BY <1>1, <1>2, <1>3, PTL DEF Spec
=============================================================================
