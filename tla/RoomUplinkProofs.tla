-------------------------- MODULE RoomUplinkProofs ---------------------------
(***************************************************************************)
(* What a workspace publishes, for all sessions and rooms and every number   *)
(* of messages, turns, parts and restarts, and whatever turns overlap.       *)
(***************************************************************************)
EXTENDS RoomUplink, TLAPS

(* Numbers only grow, so that what is published is known by its number.      *)
Sourced ==
    /\ \A p \in posts \cup failed : p.item.kind \in {"typed", "reply"}
    /\ \A r \in Rooms : \A m \in Published(r) :
          /\ m.kind = "reply" => m.n <= turns
          /\ m.kind = "typed" => m.n <= written
          /\ m.kind = "peer" => m.n <= peers

(* m is a part of the turn s is in, or of one that is over.                  *)
Said(m) ==
    /\ m.kind = "reply" /\ m.n <= turns
    /\ turn[m.of].on /\ turn[m.of].n = m.n => m.part <= turn[m.of].parts

(* What waits was said and is not published yet; a running turn's published  *)
(* parts are among those it has said.                                        *)
PendingIsNew ==
    pendingReply # NoRoom =>
        Said(pendingReply) /\ \A r \in Rooms : pendingReply \notin Published(r)
PartsAhead ==
    /\ \A s \in Sessions : turn[s].n <= turns
    /\ \A r \in Rooms : \A m \in Published(r) : m.kind = "reply" => Said(m)

EInv == TypeOK /\ NoEcho /\ Sourced /\ PendingIsNew /\ PartsAhead

-----------------------------------------------------------------------------
LEMMA PublishedTypes ==
  ASSUME TypeOK
  PROVE  \A r \in Rooms : /\ Published(r) \subseteq Item
                          /\ \A x \in Published(r) :
                                x.n \in Nat /\ x.of \in Sessions /\ x.part \in Nat
  <1>1. ASSUME NEW r \in Rooms PROVE Held(r) \subseteq Item
    <2>1. history[r] \in Seq(Item)
      BY DEF TypeOK
    <2> QED BY <2>1 DEF Held
  <1>2. \A p \in posts \cup failed : p.item \in Item
    BY DEF TypeOK, Post
  <1>3. \A r \in Rooms : Published(r) \subseteq Item
    BY <1>1, <1>2 DEF Published
  <1> QED BY <1>3 DEF Item

(* What the operations do to what is published.                              *)
Quiet == UNCHANGED <<posts, failed, history>>

LEMMA QuietPublishes ==
  ASSUME Quiet
  PROVE  \A r \in Rooms : Published(r)' = Published(r) /\ Held(r)' = Held(r)
  BY DEF Quiet, Published, Held

LEMMA PostPublishes ==
  ASSUME NEW s \in Rooms, NEW m, posts' = posts \cup {[room |-> s, item |-> m]},
         UNCHANGED <<failed, history>>
  PROVE  \A r \in Rooms :
            /\ Published(r)' = Published(r) \cup (IF r = s THEN {m} ELSE {})
            /\ Held(r)' = Held(r)
  <1> DEFINE new == [room |-> s, item |-> m]
             All == posts \cup failed
  <1>1. new.room = s /\ new.item = m
    OBVIOUS
  <1>2. (posts \cup failed)' = All \cup {new}
    OBVIOUS
  <1> HIDE DEF new
  <1>3. \A r \in Rooms : Held(r)' = Held(r)
    BY DEF Held
  <1>4. ASSUME NEW r \in Rooms
        PROVE  {p.item : p \in {q \in All \cup {new} : q.room = r}}
                 = {p.item : p \in {q \in All : q.room = r}} \cup (IF r = s THEN {m} ELSE {})
    BY <1>1
  <1> QED BY <1>2, <1>3, <1>4 DEF Published

LEMMA AppendHolds ==
  ASSUME NEW s \in Rooms, NEW m \in Item, history \in [Rooms -> Seq(Item)],
         history' = [history EXCEPT ![s] = Append(@, m)]
  PROVE  /\ history' \in [Rooms -> Seq(Item)]
         /\ \A r \in Rooms : Held(r)' = Held(r) \cup (IF r = s THEN {m} ELSE {})
         /\ \A r \in Rooms : r # s => history'[r] = history[r]
         /\ Len(history'[s]) = Len(history[s]) + 1
         /\ \A i \in 1..Len(history[s]) : history'[s][i] = history[s][i]
         /\ history'[s][Len(history[s]) + 1] = m
  <1>1. history[s] \in Seq(Item) /\ history'[s] = Append(history[s], m)
    OBVIOUS
  <1>2. /\ Len(history'[s]) = Len(history[s]) + 1
        /\ \A i \in 1..Len(history[s]) : history'[s][i] = history[s][i]
        /\ history'[s][Len(history[s]) + 1] = m
        /\ Len(history[s]) \in Nat
    BY <1>1
  <1>3. 1..Len(history'[s]) = 1..Len(history[s]) \cup {Len(history[s]) + 1}
    BY <1>2
  <1>4. Held(s)' = Held(s) \cup {m}
    BY <1>2, <1>3 DEF Held
  <1>5. \A r \in Rooms : r # s => history'[r] = history[r]
    OBVIOUS
  <1>6. \A r \in Rooms : r # s => Held(r)' = Held(r)
    BY <1>5 DEF Held
  <1> QED BY <1>1, <1>2, <1>4, <1>5, <1>6

LEMMA CommitPublishes ==
  ASSUME TypeOK, NEW p \in posts, Commit(p)
  PROVE  \A r \in Rooms :
            /\ Published(r)' = Published(r)
            /\ Held(r)' = Held(r) \cup (IF r = p.room THEN {p.item} ELSE {})
  <1>1. p.room \in Rooms /\ p.item \in Item
    BY DEF TypeOK, Post
  <1>2. \A r \in Rooms : Held(r)' = Held(r) \cup (IF r = p.room THEN {p.item} ELSE {})
    BY <1>1, AppendHolds DEF Commit, TypeOK
  <1>3. posts' = posts \ {p} /\ failed' = failed
    BY DEF Commit
  <1> QED BY <1>2, <1>3 DEF Published

LEMMA FailurePublishes ==
  ASSUME NEW p \in posts, PostFails(p)
  PROVE  \A r \in Rooms : Published(r)' = Published(r) /\ Held(r)' = Held(r)
  <1>1. posts' \cup failed' = posts \cup failed /\ history' = history
    BY DEF PostFails
  <1> QED BY <1>1 DEF Published, Held

LEMMA PeerPublishes ==
  ASSUME TypeOK, NEW s \in Rooms, NEW m \in Item, UNCHANGED <<posts, failed>>,
         history' = [history EXCEPT ![s] = Append(@, m)]
  PROVE  \A r \in Rooms :
            /\ Published(r)' = Published(r) \cup (IF r = s THEN {m} ELSE {})
            /\ Held(r)' = Held(r) \cup (IF r = s THEN {m} ELSE {})
  <1>1. \A r \in Rooms : Held(r)' = Held(r) \cup (IF r = s THEN {m} ELSE {})
    BY AppendHolds DEF TypeOK
  <1> QED BY <1>1 DEF Published
-----------------------------------------------------------------------------
(* Nothing is echoed.                                                        *)
LEMMA TypeInit == Init => TypeOK
  BY UplinkAssumption DEF Init, TypeOK, Idle, Post

LEMMA EchoInit == Init => EInv
  <1> SUFFICES ASSUME Init PROVE EInv
    OBVIOUS
  <1>1. TypeOK
    BY TypeInit
  <1>2. \A r \in Rooms : Len(history[r]) = 0 /\ Held(r) = {} /\ Published(r) = {}
    BY DEF Init, Held, Published
  <1>3. NoEcho
    BY <1>2 DEF NoEcho, Init
  <1> QED
    BY <1>1, <1>2, <1>3, UplinkAssumption DEF EInv, Init, Sourced, PendingIsNew, PartsAhead, Idle

(* A message that nobody has published yet may be posted.                    *)
LEMMA PostKeepsNoEcho ==
  ASSUME NoEcho, NEW s \in Rooms, NEW m, m.kind \in {"typed", "reply"},
         m \notin Published(s), posts' = posts \cup {[room |-> s, item |-> m]},
         UNCHANGED <<failed, history>>
  PROVE  NoEcho'
  <1>1. \A r \in Rooms : Held(r)' = Held(r)
    BY PostPublishes
  <1>2. m \notin Held(s)
    BY DEF Published
  <1>3. \A p \in (posts \cup failed)' : p \in posts \cup failed \/ p.item = m
    OBVIOUS
  <1>4. \A p \in posts' : p \in posts \/ (p.item = m /\ p.room = s)
    OBVIOUS
  <1> QED BY <1>1, <1>2, <1>3, <1>4 DEF NoEcho

LEMMA QuietKeepsNoEcho ==
  ASSUME NoEcho, Quiet PROVE NoEcho'
  BY QuietPublishes DEF NoEcho, Quiet

(* A message that is new to a room may be appended to its history.           *)
LEMMA AppendKeepsNoEcho ==
  ASSUME TypeOK, NoEcho, NEW s \in Rooms, NEW m \in Item, m \notin Held(s),
         history' = [history EXCEPT ![s] = Append(@, m)],
         \A p \in posts' : p \in posts /\ (p.room = s => p.item # m),
         (posts \cup failed)' \subseteq posts \cup failed
  PROVE  NoEcho'
  <1>1. /\ \A r \in Rooms : Held(r)' = Held(r) \cup (IF r = s THEN {m} ELSE {})
        /\ \A r \in Rooms : r # s => history'[r] = history[r]
        /\ Len(history'[s]) = Len(history[s]) + 1
        /\ \A i \in 1..Len(history[s]) : history'[s][i] = history[s][i]
        /\ history'[s][Len(history[s]) + 1] = m
    BY AppendHolds DEF TypeOK
  <1>2. Len(history[s]) \in Nat
    BY DEF TypeOK
  <1>3. \A i \in 1..Len(history[s]) : history[s][i] # m
    BY DEF Held
  <1>4. ASSUME NEW i \in 1..Len(history'[s]), NEW j \in 1..Len(history'[s]),
               history'[s][i] = history'[s][j]
        PROVE  i = j
    <2>1. \A k \in 1..Len(history'[s]) : k \in 1..Len(history[s]) \/ k = Len(history[s]) + 1
      BY <1>1, <1>2
    <2>2. CASE i \in 1..Len(history[s]) /\ j \in 1..Len(history[s])
      BY <1>1, <1>4, <2>2 DEF NoEcho
    <2>3. CASE ~(i \in 1..Len(history[s]) /\ j \in 1..Len(history[s]))
      BY <1>1, <1>3, <1>4, <2>1, <2>3
    <2> QED BY <2>2, <2>3
  <1>5. ASSUME NEW r \in Rooms
        PROVE  \A i, j \in 1..Len(history'[r]) : history'[r][i] = history'[r][j] => i = j
    BY <1>1, <1>4 DEF NoEcho
  <1>6. ASSUME NEW r \in Rooms, NEW p \in posts', p.room = r PROVE p.item \notin Held(r)'
    BY <1>1, <1>6 DEF NoEcho
  <1> QED BY <1>5, <1>6 DEF NoEcho

LEMMA TypeNext == TypeOK /\ [Next]_vars => TypeOK'
  <1> SUFFICES ASSUME TypeOK, [Next]_vars PROVE TypeOK'
    OBVIOUS
  <1> USE UplinkAssumption
  <1>1. ASSUME NEW s \in Sessions, NEW kind \in Kinds, Write(s, kind) PROVE TypeOK'
    <2>1. [kind |-> kind, of |-> s, n |-> written', part |-> 0] \in Item
      BY <1>1 DEF Write, Item, TypeOK
    <2> DEFINE m == [kind |-> kind, of |-> s, n |-> written', part |-> 0]
    <2>2. posts' = posts \/ (s \in Rooms /\ posts' = posts \cup {[room |-> s, item |-> m]})
      BY <1>1 DEF Write, OnUserMessage
    <2>3. m \in Item
      BY <2>1
    <2> HIDE DEF m
    <2>4. posts' \subseteq Post
      BY <2>2, <2>3 DEF Post, TypeOK
    <2> QED BY <1>1, <2>4 DEF Write, TypeOK
  <1>2. ASSUME NEW s \in Sessions, StartTurn(s) PROVE TypeOK'
    <2>1. turns' \in 0..MaxTurns
      BY <1>2 DEF StartTurn, TypeOK
    <2>2. [n |-> turns', parts |-> 0, on |-> TRUE]
             \in [n : 0..MaxTurns, parts : 0..MaxParts, on : BOOLEAN]
      BY <2>1
    <2>3. {turn[t].n : t \in InTurn} \subseteq 0..MaxTurns
      BY DEF InTurn, TypeOK
    <2>4. mixed' \subseteq 0..MaxTurns
      BY <1>2, <2>1, <2>3 DEF StartTurn, TypeOK
    <2> QED BY <1>2, <2>1, <2>2, <2>4 DEF StartTurn, TypeOK
  <1>3. ASSUME NEW s \in Sessions, Speak(s) PROVE TypeOK'
    <2>1. turn[s].parts + 1 \in 0..MaxParts
      BY <1>3 DEF Speak, TypeOK
    <2>2. turn' \in [Sessions -> [n : 0..MaxTurns, parts : 0..MaxParts, on : BOOLEAN]]
      BY <1>3, <2>1 DEF Speak, TypeOK
    <2>3. LastPart(s)' \in Item
      BY <2>2 DEF LastPart, Item
    <2> QED BY <1>3, <2>2, <2>3 DEF Speak, Latest, TypeOK
  <1>4. ASSUME NEW s \in Sessions, EndTurn(s) PROVE TypeOK'
    <2>1. turn' \in [Sessions -> [n : 0..MaxTurns, parts : 0..MaxParts, on : BOOLEAN]]
      BY <1>4 DEF EndTurn, TypeOK
    <2>2. posts' \subseteq Post /\ pendingReply' \in Item \cup {NoRoom}
      BY <1>4 DEF EndTurn, Post, Reset, TypeOK
    <2> QED BY <1>4, <2>1, <2>2 DEF EndTurn, TypeOK
  <1>5. ASSUME NEW r \in Rooms, Deliver(r) PROVE TypeOK'
    <2>1. delivered' \in [Rooms -> Nat] /\ delivered'[r] = delivered[r] + 1
      BY <1>5 DEF Deliver, TypeOK
    <2>2. posts' = posts
      BY <1>5 DEF Deliver, OnUserMessage, Publishable
    <2> QED BY <1>5, <2>1, <2>2 DEF Deliver, TypeOK
  <1>6. ASSUME NEW r \in Rooms, PeerPosts(r) PROVE TypeOK'
    <2>1. [kind |-> "peer", of |-> r, n |-> peers', part |-> 0] \in Item
      BY <1>6 DEF PeerPosts, Item, TypeOK
    <2>2. history' \in [Rooms -> Seq(Item)]
      BY <1>6, <2>1, AppendHolds DEF PeerPosts, TypeOK
    <2>3. peers' \in 0..MaxPeer
      BY <1>6 DEF PeerPosts, TypeOK
    <2> QED BY <1>6, <2>2, <2>3 DEF PeerPosts, TypeOK
  <1>7. ASSUME NEW p \in posts, Commit(p) PROVE TypeOK'
    <2>1. p.room \in Rooms /\ p.item \in Item
      BY DEF TypeOK, Post
    <2>2. history' \in [Rooms -> Seq(Item)]
      BY <1>7, <2>1, AppendHolds DEF Commit, TypeOK
    <2> QED BY <1>7, <2>2 DEF Commit, TypeOK
  <1>8. ASSUME NEW p \in posts, PostFails(p) PROVE TypeOK'
    BY <1>8 DEF PostFails, TypeOK
  <1>9. ASSUME Restart PROVE TypeOK'
    <2>1. ASSUME NEW s \in Sessions
          PROVE  [turn[s] EXCEPT !.on = FALSE, !.parts = 0]
                    \in [n : 0..MaxTurns, parts : 0..MaxParts, on : BOOLEAN]
      <3>1. turn[s] \in [n : 0..MaxTurns, parts : 0..MaxParts, on : BOOLEAN]
        BY DEF TypeOK
      <3>2. 0 \in 0..MaxParts
        OBVIOUS
      <3> QED BY <3>1, <3>2
    <2>2. turn' = [s \in Sessions |-> [turn[s] EXCEPT !.on = FALSE, !.parts = 0]]
      BY <1>9 DEF Restart
    <2>3. turn' \in [Sessions -> [n : 0..MaxTurns, parts : 0..MaxParts, on : BOOLEAN]]
      BY <2>1, <2>2
    <2>4. restarts' \in 0..MaxRestarts
      <3>1. restarts' = restarts + 1 /\ restarts < MaxRestarts
        BY <1>9 DEF Restart
      <3> QED BY <3>1 DEF TypeOK
    <2> QED BY <1>9, <2>3, <2>4 DEF Restart, TypeOK
  <1>10. CASE UNCHANGED vars
    BY <1>10 DEF vars, TypeOK
  <1> QED
    BY <1>1, <1>2, <1>3, <1>4, <1>5, <1>6, <1>7, <1>8, <1>9, <1>10 DEF Next

-----------------------------------------------------------------------------
LEMMA EchoNext == EInv /\ [Next]_vars => EInv'
  <1> SUFFICES ASSUME EInv, [Next]_vars PROVE EInv'
    OBVIOUS
  <1>0. TypeOK /\ NoEcho /\ Sourced /\ PendingIsNew /\ PartsAhead /\ TypeOK'
    BY TypeNext DEF EInv
  <1> USE UplinkAssumption
  <1>a. ASSUME Quiet, UNCHANGED <<turns, turn, pendingReply>>,
               written' = written, peers' = peers PROVE EInv'
    <2>1. \A r \in Rooms : Published(r)' = Published(r)
      BY <1>a, QuietPublishes
    <2>2. Sourced'
      BY <1>a, <1>0, <2>1 DEF Sourced, Quiet
    <2>3. PendingIsNew' /\ PartsAhead'
      BY <1>a, <1>0, <2>1 DEF PendingIsNew, PartsAhead, Said
    <2> QED BY <1>a, <1>0, <2>2, <2>3, QuietKeepsNoEcho DEF EInv
  <1>1. ASSUME NEW s \in Sessions, NEW kind \in Kinds, Write(s, kind) PROVE EInv'
    <2> DEFINE m == [kind |-> kind, of |-> s, n |-> written', part |-> 0]
    <2>1. /\ UNCHANGED <<turns, turn, pendingReply, failed, history, peers>>
          /\ written' = written + 1 /\ written \in Nat
      BY <1>1, <1>0 DEF Write, TypeOK
    <2>2. m.kind = kind /\ m.n = written + 1
      BY <2>1
    <2>3. \/ posts' = posts
          \/ s \in Rooms /\ kind = "typed" /\ posts' = posts \cup {[room |-> s, item |-> m]}
      BY <1>1 DEF Write, OnUserMessage, Publishable
    <2> HIDE DEF m
    <2>4. CASE posts' = posts
      <3>1. \A r \in Rooms : Published(r)' = Published(r)
        BY <2>1, <2>4, QuietPublishes DEF Quiet
      <3>3. \A r \in Rooms : \A x \in Published(r) : x.n \in Nat
        BY <1>0, PublishedTypes
      <3>4. Sourced'
        BY <1>0, <2>1, <2>4, <3>1, <3>3 DEF Sourced
      <3>5. PendingIsNew' /\ PartsAhead'
        BY <1>0, <2>1, <3>1 DEF PendingIsNew, PartsAhead, Said
      <3> QED BY <1>0, <2>1, <2>4, <3>4, <3>5, QuietKeepsNoEcho DEF EInv, Quiet
    <2>5. CASE s \in Rooms /\ kind = "typed" /\ posts' = posts \cup {[room |-> s, item |-> m]}
      <3>1. \A r \in Rooms : Published(r)' = Published(r) \cup (IF r = s THEN {m} ELSE {})
        BY <2>1, <2>5, PostPublishes
      <3>3. \A r \in Rooms : \A x \in Published(r) : x.n \in Nat
        BY <1>0, PublishedTypes
      <3>4. m \notin Published(s)
        BY <1>0, <2>1, <2>2, <2>5 DEF Sourced
      <3>5. Sourced'
        <4>1. \A p \in (posts \cup failed)' : p \in posts \cup failed \/ p.item = m
          BY <2>1, <2>5
        <4>2. \A p \in (posts \cup failed)' : p.item.kind \in {"typed", "reply"}
          BY <4>1, <1>0, <2>2, <2>5 DEF Sourced
        <4> QED BY <4>2, <1>0, <2>1, <2>2, <2>5, <3>1, <3>3 DEF Sourced
      <3>6. pendingReply # NoRoom => pendingReply # m
        BY <1>0, <2>2, <2>5 DEF PendingIsNew, Said
      <3>7. PendingIsNew'
        BY <1>0, <2>1, <3>1, <3>6 DEF PendingIsNew, Said
      <3>8. PartsAhead'
        BY <1>0, <2>1, <2>2, <2>5, <3>1 DEF PartsAhead, Said
      <3>9. NoEcho'
        BY <1>0, <2>1, <2>2, <2>5, <3>4, PostKeepsNoEcho
      <3> QED BY <1>0, <3>5, <3>7, <3>8, <3>9 DEF EInv
    <2> QED BY <2>3, <2>4, <2>5
  <1>2. ASSUME NEW s \in Sessions, StartTurn(s) PROVE EInv'
    <2>1. /\ Quiet /\ UNCHANGED <<written, peers, pendingReply>>
          /\ turns' = turns + 1 /\ turns \in Nat
          /\ turn' = [turn EXCEPT ![s] = [n |-> turns', parts |-> 0, on |-> TRUE]]
      BY <1>2, <1>0 DEF StartTurn, TypeOK, Quiet
    <2>2. /\ \A t \in Sessions : t # s => turn'[t] = turn[t]
          /\ turn'[s].n = turns + 1
      BY <2>1, <1>0 DEF TypeOK
    <2>3. \A r \in Rooms : Published(r)' = Published(r)
      BY <2>1, QuietPublishes
    <2>4. \A r \in Rooms : \A x \in Published(r) : x.n \in Nat /\ x.of \in Sessions
      BY <1>0, PublishedTypes
    <2>5. \A x : x.of \in Sessions /\ x.n \in Nat /\ Said(x) => Said(x)'
      BY <2>1, <2>2, <1>0 DEF Said
    <2>6. Sourced'
      BY <1>0, <2>1, <2>3, <2>4 DEF Sourced, Quiet
    <2>7. PendingIsNew'
      <3>1. pendingReply # NoRoom => pendingReply.of \in Sessions /\ pendingReply.n \in Nat
        BY <1>0 DEF TypeOK, Item
      <3> QED BY <1>0, <2>1, <2>3, <2>5, <3>1 DEF PendingIsNew
    <2>8. PartsAhead'
      <3>1. \A t \in Sessions : turn[t].n \in Nat
        BY <1>0 DEF TypeOK
      <3> QED BY <1>0, <2>1, <2>2, <2>3, <2>4, <2>5, <3>1 DEF PartsAhead
    <2> QED BY <1>0, <2>1, <2>6, <2>7, <2>8, QuietKeepsNoEcho DEF EInv
  <1>3. ASSUME NEW s \in Sessions, Speak(s) PROVE EInv'
    <2>1. /\ Quiet /\ UNCHANGED <<written, peers, turns>>
          /\ turn[s].on
          /\ turn' = [turn EXCEPT ![s].parts = @ + 1]
          /\ pendingReply' = IF s \in Rooms THEN LastPart(s)' ELSE pendingReply
      BY <1>3 DEF Speak, Quiet, Latest
    <2>2. /\ \A t \in Sessions : turn'[t].n = turn[t].n /\ turn'[t].on = turn[t].on
          /\ \A t \in Sessions : t # s => turn'[t] = turn[t]
          /\ turn'[s].parts = turn[s].parts + 1 /\ turn[s].parts \in Nat
      BY <2>1, <1>0 DEF TypeOK
    <2>3. \A r \in Rooms : Published(r)' = Published(r)
      BY <2>1, QuietPublishes
    <2>4. \A r \in Rooms : \A x \in Published(r) :
             x.n \in Nat /\ x.of \in Sessions /\ x.part \in Nat
      BY <1>0, PublishedTypes
    <2>5. \A x : x.of \in Sessions /\ x.part \in Nat /\ Said(x) => Said(x)'
      BY <2>1, <2>2 DEF Said
    <2>6. Sourced'
      BY <1>0, <2>1, <2>3 DEF Sourced, Quiet
    <2>7. PartsAhead'
      BY <1>0, <2>1, <2>2, <2>3, <2>4, <2>5 DEF PartsAhead
    <2>8. PendingIsNew'
      <3>1. CASE s \notin Rooms
        <4>1. pendingReply # NoRoom => pendingReply.of \in Sessions /\ pendingReply.part \in Nat
          BY <1>0 DEF TypeOK, Item
        <4> QED BY <1>0, <2>1, <2>3, <2>5, <3>1, <4>1 DEF PendingIsNew
      <3>2. CASE s \in Rooms
        <4>1. pendingReply' = LastPart(s)'
          BY <2>1, <3>2
        <4>2. /\ pendingReply'.kind = "reply" /\ pendingReply'.of = s
              /\ pendingReply'.n = turn[s].n /\ pendingReply'.part = turn[s].parts + 1
          BY <4>1, <2>2 DEF LastPart
        <4>3. turn[s].n <= turns
          BY <1>0 DEF PartsAhead
        <4>4. Said(pendingReply)'
          BY <4>2, <4>3, <2>1, <2>2 DEF Said
        <4>5. ASSUME NEW r \in Rooms, pendingReply' \in Published(r) PROVE FALSE
          <5>1. Said(pendingReply')
            BY <4>2, <4>5, <1>0 DEF PartsAhead
          <5> QED BY <5>1, <4>2, <2>1, <2>2 DEF Said
        <4> QED BY <4>4, <4>5, <2>3 DEF PendingIsNew
      <3> QED BY <3>1, <3>2
    <2> QED BY <1>0, <2>1, <2>6, <2>7, <2>8, QuietKeepsNoEcho DEF EInv
  <1>4. ASSUME NEW s \in Sessions, EndTurn(s) PROVE EInv'
    <2>1. /\ UNCHANGED <<written, peers, turns, failed, history>>
          /\ turn' = [turn EXCEPT ![s].on = FALSE]
      BY <1>4 DEF EndTurn
    <2>2. /\ \A t \in Sessions : turn'[t].n = turn[t].n /\ turn'[t].parts = turn[t].parts
          /\ \A t \in Sessions : turn'[t].on => turn[t].on
      BY <2>1, <1>0 DEF TypeOK
    <2>3. \A r \in Rooms : \A x \in Published(r) : x.of \in Sessions
      BY <1>0, PublishedTypes
    <2>4. \A x : x.of \in Sessions /\ Said(x) => Said(x)'
      BY <2>1, <2>2 DEF Said
    <2>5. CASE ~(s \in Rooms /\ pendingReply # NoRoom)
      <3>1. Quiet /\ pendingReply' = pendingReply
        BY <1>4, <2>1, <2>5 DEF EndTurn, Quiet
      <3>2. \A r \in Rooms : Published(r)' = Published(r)
        BY <3>1, QuietPublishes
      <3>3. Sourced'
        BY <1>0, <2>1, <3>1, <3>2 DEF Sourced, Quiet
      <3>4. PartsAhead'
        BY <1>0, <2>1, <2>2, <2>3, <2>4, <3>2 DEF PartsAhead
      <3>5. PendingIsNew'
        <4>1. pendingReply # NoRoom => pendingReply.of \in Sessions
          BY <1>0 DEF TypeOK, Item
        <4> QED BY <1>0, <2>4, <3>1, <3>2, <4>1 DEF PendingIsNew
      <3> QED BY <1>0, <3>1, <3>3, <3>4, <3>5, QuietKeepsNoEcho DEF EInv
    <2>6. CASE s \in Rooms /\ pendingReply # NoRoom
      <3>1. /\ posts' = posts \cup {[room |-> s, item |-> pendingReply]}
            /\ pendingReply' = NoRoom
        BY <1>4, <2>6 DEF EndTurn, Reset
      <3>2. Said(pendingReply) /\ pendingReply \notin Published(s) /\ pendingReply.of \in Sessions
        BY <1>0, <2>6 DEF PendingIsNew, TypeOK, Item
      <3>3. \A r \in Rooms :
               Published(r)' = Published(r) \cup (IF r = s THEN {pendingReply} ELSE {})
        BY <2>1, <2>6, <3>1, PostPublishes
      <3>4. \A p \in (posts \cup failed)' : p \in posts \cup failed \/ p.item = pendingReply
        BY <2>1, <3>1
      <3>5. \A p \in (posts \cup failed)' : p.item.kind \in {"typed", "reply"}
        BY <1>0, <3>2, <3>4 DEF Sourced, Said
      <3>6. Sourced'
        BY <1>0, <2>1, <3>2, <3>3, <3>5 DEF Sourced, Said
      <3>7. PartsAhead'
        BY <1>0, <2>1, <2>2, <2>3, <2>4, <3>2, <3>3 DEF PartsAhead
      <3>8. PendingIsNew'
        BY <3>1 DEF PendingIsNew
      <3>9. NoEcho'
        BY <1>0, <2>1, <2>6, <3>1, <3>2, PostKeepsNoEcho DEF Said
      <3> QED BY <1>0, <3>6, <3>7, <3>8, <3>9 DEF EInv
    <2> QED BY <2>5, <2>6
  <1>5. ASSUME NEW r \in Rooms, Deliver(r) PROVE EInv'
    BY <1>5, <1>a DEF Deliver, OnUserMessage, Publishable, Quiet
  <1>6. ASSUME NEW r \in Rooms, PeerPosts(r) PROVE EInv'
    <2> DEFINE m == [kind |-> "peer", of |-> r, n |-> peers', part |-> 0]
    <2>1. /\ UNCHANGED <<written, turns, turn, pendingReply, posts, failed>>
          /\ peers' = peers + 1 /\ peers \in Nat /\ m \in Item
          /\ history' = [history EXCEPT ![r] = Append(@, m)]
      BY <1>6, <1>0 DEF PeerPosts, TypeOK, Item
    <2>2. m.kind = "peer" /\ m.n = peers + 1
      BY <2>1
    <2> HIDE DEF m
    <2>3. \A t \in Rooms : Published(t)' = Published(t) \cup (IF t = r THEN {m} ELSE {})
      BY <1>0, <2>1, PeerPublishes
    <2>4. \A t \in Rooms : \A x \in Published(t) : x.n \in Nat
      BY <1>0, PublishedTypes
    <2>5. m \notin Held(r) /\ \A p \in posts : p.item # m
      BY <1>0, <2>1, <2>2 DEF Sourced, Published
    <2>6. NoEcho'
      BY <1>0, <2>1, <2>5, AppendKeepsNoEcho
    <2>7. Sourced'
      BY <1>0, <2>1, <2>2, <2>3, <2>4 DEF Sourced
    <2>8. PartsAhead'
      BY <1>0, <2>1, <2>2, <2>3 DEF PartsAhead, Said
    <2>9. PendingIsNew'
      BY <1>0, <2>1, <2>2, <2>3 DEF PendingIsNew, Said
    <2> QED BY <1>0, <2>6, <2>7, <2>8, <2>9 DEF EInv
  <1>7. ASSUME NEW p \in posts, Commit(p) PROVE EInv'
    <2>1. /\ UNCHANGED <<written, peers, turns, turn, pendingReply, failed>>
          /\ posts' = posts \ {p}
          /\ history' = [history EXCEPT ![p.room] = Append(@, p.item)]
      BY <1>7 DEF Commit
    <2>2. p.room \in Rooms /\ p.item \in Item /\ p = [room |-> p.room, item |-> p.item]
      BY <1>0 DEF TypeOK, Post
    <2>3. \A r \in Rooms : Published(r)' = Published(r)
      BY <1>0, <1>7, CommitPublishes
    <2>4. \A q \in posts' : q \in posts /\ (q.room = p.room => q.item # p.item)
      BY <1>0, <2>1, <2>2 DEF TypeOK, Post
    <2>5. p.item \notin Held(p.room)
      BY <1>0, <2>2 DEF NoEcho
    <2>6. NoEcho'
      <3>1. (posts \cup failed)' \subseteq posts \cup failed
        BY <2>1
      <3> DEFINE m == p.item
                 t == p.room
      <3>2. /\ t \in Rooms /\ m \in Item /\ m \notin Held(t)
            /\ history' = [history EXCEPT ![t] = Append(@, m)]
            /\ \A q \in posts' : q \in posts /\ (q.room = t => q.item # m)
        BY <2>1, <2>2, <2>4, <2>5
      <3> HIDE DEF m, t
      <3> QED BY <1>0, <3>1, <3>2, AppendKeepsNoEcho
    <2>7. Sourced' /\ PartsAhead' /\ PendingIsNew'
      BY <1>0, <2>1, <2>3 DEF Sourced, PartsAhead, PendingIsNew, Said
    <2> QED BY <1>0, <2>6, <2>7 DEF EInv
  <1>8. ASSUME NEW p \in posts, PostFails(p) PROVE EInv'
    <2>1. /\ UNCHANGED <<written, peers, turns, turn, pendingReply, history>>
          /\ posts' = posts \ {p} /\ failed' = failed \cup {p}
      BY <1>8 DEF PostFails
    <2>2. \A r \in Rooms : Published(r)' = Published(r) /\ Held(r)' = Held(r)
      BY <1>8, FailurePublishes
    <2>3. NoEcho'
      BY <1>0, <2>1, <2>2 DEF NoEcho
    <2>4. Sourced' /\ PartsAhead' /\ PendingIsNew'
      BY <1>0, <2>1, <2>2 DEF Sourced, PartsAhead, PendingIsNew, Said
    <2> QED BY <1>0, <2>3, <2>4 DEF EInv
  <1>9. ASSUME Restart PROVE EInv'
    <2>1. /\ Quiet /\ UNCHANGED <<written, peers, turns>>
          /\ turn' = [s \in Sessions |-> [turn[s] EXCEPT !.on = FALSE, !.parts = 0]]
          /\ pendingReply' = NoRoom
      BY <1>9 DEF Restart, Quiet
    <2>2. \A s \in Sessions : turn'[s].on = FALSE /\ turn'[s].n = turn[s].n
      <3>1. ASSUME NEW s \in Sessions
            PROVE  turn'[s].on = FALSE /\ turn'[s].n = turn[s].n
        <4>1. turn'[s] = [turn[s] EXCEPT !.on = FALSE, !.parts = 0]
          BY <2>1
        <4>2. turn[s] \in [n : 0..MaxTurns, parts : 0..MaxParts, on : BOOLEAN]
          BY <1>0 DEF TypeOK
        <4> QED BY <4>1, <4>2
      <3> QED BY <3>1
    <2>3. \A r \in Rooms : Published(r)' = Published(r)
      BY <2>1, QuietPublishes
    <2>4. \A r \in Rooms : \A x \in Published(r) : x.of \in Sessions
      BY <1>0, PublishedTypes
    <2>5. Sourced' /\ PendingIsNew'
      BY <1>0, <2>1, <2>3 DEF Sourced, PendingIsNew, Quiet
    <2>6. PartsAhead'
      BY <1>0, <2>1, <2>2, <2>3, <2>4 DEF PartsAhead, Said
    <2> QED BY <1>0, <2>1, <2>5, <2>6, QuietKeepsNoEcho DEF EInv
  <1>10. CASE UNCHANGED vars
    BY <1>10, <1>a DEF vars, Quiet
  <1> QED
    BY <1>1, <1>2, <1>3, <1>4, <1>5, <1>6, <1>7, <1>8, <1>9, <1>10 DEF Next

LEMMA EchoInvariance == Spec => []EInv
  BY EchoInit, EchoNext, PTL DEF Spec

(* The uplink's variables keep their types.                                  *)
THEOREM UplinkTypeCorrect == Spec => []TypeOK
  <1>1. EInv => TypeOK
    BY DEF EInv
  <1> QED BY <1>1, EchoInvariance, PTL

(* What the feed brings back is never posted again, and no message of another*)
(* member is posted as this member's, however posts, deliveries, overlapping *)
(* turns, failures and restarts interleave.                                  *)
THEOREM UplinkNoEcho == Spec => []NoEcho
  <1>1. EInv => NoEcho
    BY DEF EInv
  <1> QED BY <1>1, EchoInvariance, PTL

-----------------------------------------------------------------------------
(* No other room's turn has overlapped the turn of r.                        *)
Lone(r) == turn[r].n \notin mixed

(* Rooms that are in a turn together are both known to be mixed.             *)
MixedKnown ==
    \A r, t \in Rooms : turn[r].on /\ turn[t].on /\ r # t => ~Lone(r)

(* Something waits only while a room is in a turn; when it is a lone turn's, *)
(* it is the last part of a turn that runs, and what a running lone turn has *)
(* said last is what waits.                                                  *)
PendingIsLast ==
    /\ pendingReply # NoRoom =>
          /\ InTurn # {}
          /\ pendingReply.n \notin mixed =>
                \E r \in Rooms : turn[r].on /\ pendingReply = LastPart(r)
    /\ \A r \in Rooms : turn[r].on /\ Lone(r) =>
          pendingReply = IF turn[r].parts > 0 THEN LastPart(r) ELSE NoRoom

(* Nothing of a lone turn is published before it ends.                       *)
NotYet ==
    \A r, t \in Rooms : turn[r].on /\ Lone(r) =>
        \A m \in Published(t) : ~(m.kind = "reply" /\ m.of = r /\ m.n = turn[r].n)

Replies == /\ LoneRepliesStayHome /\ LoneTurnPublishesItsFinalPart
           /\ MixedKnown /\ PendingIsLast /\ NotYet

HInv == EInv /\ Replies

(* As long as no turn of a room changes and nothing but user messages is     *)
(* published, the replies are as they were.                                  *)
LEMMA RepliesUndisturbed ==
  ASSUME Replies,
         UNCHANGED <<pendingReply, mixed>>, \A r \in Rooms : turn'[r] = turn[r],
         \A r \in Rooms : /\ Published(r) \subseteq Published(r)'
                          /\ \A m \in Published(r)' : m.kind = "reply" => m \in Published(r)
  PROVE  Replies'
  <1>0. /\ LoneRepliesStayHome /\ LoneTurnPublishesItsFinalPart
        /\ MixedKnown /\ PendingIsLast /\ NotYet
    BY DEF Replies
  <1>1. \A r \in Rooms : LastPart(r)' = LastPart(r) /\ Lone(r)' = Lone(r)
    BY DEF LastPart, Lone
  <1>2. InTurn' = InTurn
    BY DEF InTurn
  <1>3. LoneRepliesStayHome' /\ MixedKnown' /\ NotYet'
    BY <1>0, <1>1 DEF LoneRepliesStayHome, MixedKnown, NotYet
  <1>4. PendingIsLast'
    BY <1>0, <1>1, <1>2 DEF PendingIsLast
  <1>5. LoneTurnPublishesItsFinalPart'
    BY <1>0, <1>1 DEF LoneTurnPublishesItsFinalPart
  <1> QED BY <1>3, <1>4, <1>5 DEF Replies

LEMMA HomeInit == Init => HInv
  <1> SUFFICES ASSUME Init PROVE HInv
    OBVIOUS
  <1>1. \A r \in Rooms : Published(r) = {}
    BY DEF Init, Held, Published
  <1>2. \A r \in Rooms : turn[r].on = FALSE /\ turn[r].parts = 0
    BY UplinkAssumption DEF Init, Idle
  <1>3. EInv
    BY EchoInit
  <1>4. LoneRepliesStayHome /\ LoneTurnPublishesItsFinalPart /\ MixedKnown /\ NotYet
    BY <1>1, <1>2 DEF LoneRepliesStayHome, LoneTurnPublishesItsFinalPart, MixedKnown, NotYet
  <1>5. PendingIsLast
    BY <1>2 DEF PendingIsLast, Init
  <1> QED BY <1>3, <1>4, <1>5 DEF HInv, Replies

LEMMA HomeNext == HInv /\ [Next]_vars => HInv'
  <1> SUFFICES ASSUME HInv, [Next]_vars PROVE HInv'
    OBVIOUS
  <1>0. /\ TypeOK /\ LoneRepliesStayHome /\ LoneTurnPublishesItsFinalPart /\ MixedKnown
        /\ PendingIsLast /\ NotYet /\ Sourced /\ PartsAhead /\ PendingIsNew /\ Replies
    BY DEF HInv, EInv, Replies
  <1>e. EInv'
    BY EchoNext DEF HInv
  <1> SUFFICES Replies'
    BY <1>e DEF HInv
  <1> USE UplinkAssumption
  <1>a. ASSUME UNCHANGED <<pendingReply, turn, mixed>>,
               \A r \in Rooms : /\ Published(r) \subseteq Published(r)'
                                /\ \A m \in Published(r)' :
                                      m.kind = "reply" => m \in Published(r)
        PROVE  Replies'
    BY <1>0, <1>a, RepliesUndisturbed
  <1>1. ASSUME NEW s \in Sessions, NEW kind \in Kinds, Write(s, kind) PROVE Replies'
    <2> DEFINE m == [kind |-> kind, of |-> s, n |-> written', part |-> 0]
    <2>1. UNCHANGED <<pendingReply, turn, failed, history, mixed>>
      BY <1>1 DEF Write
    <2>2. m.kind = kind
      OBVIOUS
    <2>3. \/ posts' = posts
          \/ s \in Rooms /\ kind = "typed" /\ posts' = posts \cup {[room |-> s, item |-> m]}
      BY <1>1 DEF Write, OnUserMessage, Publishable
    <2> HIDE DEF m
    <2>4. CASE posts' = posts
      <3>1. \A r \in Rooms : Published(r)' = Published(r)
        BY <2>1, <2>4, QuietPublishes DEF Quiet
      <3> QED BY <2>1, <3>1, <1>a
    <2>5. CASE s \in Rooms /\ kind = "typed" /\ posts' = posts \cup {[room |-> s, item |-> m]}
      <3>1. \A r \in Rooms : Published(r)' = Published(r) \cup (IF r = s THEN {m} ELSE {})
        BY <2>1, <2>5, PostPublishes
      <3>2. \A r \in Rooms : \A x \in Published(r)' : x.kind = "reply" => x \in Published(r)
        BY <2>2, <2>5, <3>1
      <3> QED BY <2>1, <3>1, <3>2, <1>a
    <2> QED BY <2>3, <2>4, <2>5
  <1>2. ASSUME NEW s \in Sessions, StartTurn(s) PROVE Replies'
    <2>1. /\ Quiet /\ UNCHANGED pendingReply
          /\ ~turn[s].on
          /\ turn' = [turn EXCEPT ![s] = [n |-> turns', parts |-> 0, on |-> TRUE]]
          /\ turns' = turns + 1 /\ turns \in Nat
          /\ mixed' = IF s \in Rooms /\ InTurn # {}
                      THEN mixed \cup {turns'} \cup {turn[t].n : t \in InTurn}
                      ELSE mixed
      BY <1>2, <1>0 DEF StartTurn, Quiet, TypeOK
    <2>2. \A r \in Rooms : Published(r)' = Published(r)
      BY <2>1, QuietPublishes
    <2>3. \A t \in Sessions : t # s => turn'[t] = turn[t]
      BY <2>1, <1>0 DEF TypeOK
    <2>4. CASE s \notin Rooms
      <3>1. \A r \in Rooms : turn'[r] = turn[r]
        BY <2>3, <2>4
      <3> QED BY <1>0, <2>1, <2>2, <2>4, <3>1, RepliesUndisturbed
    <2>5. CASE s \in Rooms
      <3>1. /\ turn'[s].n = turns + 1 /\ turn'[s].parts = 0 /\ turn'[s].on
            /\ \A t \in Rooms : t # s => turn'[t] = turn[t]
            /\ \A t \in Rooms : t # s => LastPart(t)' = LastPart(t)
        BY <2>1, <2>3, <1>0 DEF TypeOK, LastPart
      <3>2. mixed \subseteq mixed'
        BY <2>1
      <3>3. LoneRepliesStayHome'
        BY <1>0, <2>2, <3>2 DEF LoneRepliesStayHome
      <3>4. LoneTurnPublishesItsFinalPart'
        BY <1>0, <2>2, <3>1, <3>2 DEF LoneTurnPublishesItsFinalPart
      <3>5. CASE InTurn # {}
        <4>1. \A t \in Rooms : turn'[t].on => ~Lone(t)'
          BY <2>1, <2>5, <3>1, <3>5 DEF InTurn, Lone
        <4>2. MixedKnown' /\ NotYet'
          BY <4>1 DEF MixedKnown, NotYet
        <4>3. InTurn' # {}
          BY <2>5, <3>1 DEF InTurn
        <4>4. pendingReply' # NoRoom /\ pendingReply'.n \notin mixed' =>
                 \E r \in Rooms : turn'[r].on /\ pendingReply' = LastPart(r)'
          BY <1>0, <2>1, <3>1, <3>2 DEF PendingIsLast
        <4>5. PendingIsLast'
          BY <4>1, <4>3, <4>4 DEF PendingIsLast
        <4> QED BY <3>3, <3>4, <4>2, <4>5 DEF Replies
      <3>6. CASE InTurn = {}
        <4>1. pendingReply = NoRoom /\ \A t \in Rooms : t # s => ~turn'[t].on
          BY <1>0, <3>1, <3>6 DEF PendingIsLast, InTurn
        <4>2. \A r \in Rooms : \A x \in Published(r) : x.n \in Nat
          BY <1>0, PublishedTypes
        <4>3. NotYet'
          BY <1>0, <2>1, <2>2, <3>1, <4>1, <4>2 DEF NotYet, Sourced
        <4>4. MixedKnown' /\ PendingIsLast'
          BY <2>1, <3>1, <4>1 DEF MixedKnown, PendingIsLast
        <4> QED BY <3>3, <3>4, <4>3, <4>4 DEF Replies
      <3> QED BY <3>5, <3>6
    <2> QED BY <2>4, <2>5
  <1>3. ASSUME NEW s \in Sessions, Speak(s) PROVE Replies'
    <2>1. /\ Quiet /\ mixed' = mixed
          /\ turn[s].on
          /\ turn' = [turn EXCEPT ![s].parts = @ + 1]
          /\ pendingReply' = IF s \in Rooms THEN LastPart(s)' ELSE pendingReply
      BY <1>3 DEF Speak, Quiet, Latest
    <2>2. \A r \in Rooms : Published(r)' = Published(r)
      BY <2>1, QuietPublishes
    <2>3. \A t \in Sessions : t # s => turn'[t] = turn[t]
      BY <2>1, <1>0 DEF TypeOK
    <2>4. CASE s \notin Rooms
      <3>1. \A r \in Rooms : turn'[r] = turn[r]
        BY <2>3, <2>4
      <3> QED BY <1>0, <2>1, <2>2, <2>4, <3>1, RepliesUndisturbed
    <2>5. CASE s \in Rooms
      <3>1. /\ turn'[s].n = turn[s].n /\ turn'[s].on
            /\ turn'[s].parts = turn[s].parts + 1 /\ turn[s].parts \in Nat
        BY <2>1, <1>0 DEF TypeOK
      <3>2. /\ \A t \in Rooms : t # s => turn'[t] = turn[t]
            /\ \A t \in Rooms : Lone(t)' = Lone(t) /\ turn'[t].on = turn[t].on
        BY <2>1, <2>3, <3>1 DEF Lone
      <3>3. LoneRepliesStayHome' /\ MixedKnown'
        BY <1>0, <2>1, <2>2, <3>2 DEF LoneRepliesStayHome, MixedKnown
      <3>4. NotYet'
        BY <1>0, <2>2, <3>1, <3>2 DEF NotYet
      <3>5. PendingIsLast'
        <4>1. pendingReply' = LastPart(s)' /\ InTurn' # {}
          BY <2>1, <2>5, <3>1 DEF InTurn
        <4>2. \A t \in Rooms : turn'[t].on /\ Lone(t)' => t = s
          BY <1>0, <2>1, <2>5, <3>2 DEF MixedKnown
        <4> QED BY <2>5, <3>1, <4>1, <4>2 DEF PendingIsLast
      <3>6. LoneTurnPublishesItsFinalPart'
        <4>1. \A r \in Rooms : r # s => LastPart(r)' = LastPart(r)
          BY <3>2 DEF LastPart
        <4> QED BY <1>0, <2>1, <2>2, <3>1, <3>2, <4>1 DEF LoneTurnPublishesItsFinalPart
      <3> QED BY <3>3, <3>4, <3>5, <3>6 DEF Replies
    <2> QED BY <2>4, <2>5
  <1>4. ASSUME NEW s \in Sessions, EndTurn(s) PROVE Replies'
    <2>1. /\ turn[s].on /\ UNCHANGED <<failed, history, mixed>>
          /\ turn' = [turn EXCEPT ![s].on = FALSE]
          /\ IF s \in Rooms /\ pendingReply # NoRoom
             THEN /\ posts' = posts \cup {[room |-> s, item |-> pendingReply]}
                  /\ pendingReply' = NoRoom
             ELSE UNCHANGED <<posts, pendingReply>>
      BY <1>4 DEF EndTurn, Reset
    <2>2. \A t \in Sessions : t # s => turn'[t] = turn[t]
      BY <2>1, <1>0 DEF TypeOK
    <2>3. CASE s \notin Rooms
      <3>1. \A r \in Rooms : turn'[r] = turn[r]
        BY <2>2, <2>3
      <3>2. \A r \in Rooms : Published(r)' = Published(r)
        BY <2>1, <2>3, QuietPublishes DEF Quiet
      <3> QED BY <1>0, <2>1, <2>3, <3>1, <3>2, RepliesUndisturbed
    <2>4. CASE s \in Rooms
      <3>1. /\ ~turn'[s].on /\ turn'[s].n = turn[s].n /\ turn'[s].parts = turn[s].parts
            /\ turn[s].parts \in Nat
        BY <2>1, <1>0 DEF TypeOK
      <3>2. \A t \in Rooms : LastPart(t)' = LastPart(t) /\ Lone(t)' = Lone(t)
        BY <2>1, <2>2, <3>1 DEF LastPart, Lone
      <3>3. \A t \in Rooms : turn'[t].on => t # s /\ turn[t].on /\ ~Lone(t)
        BY <1>0, <2>1, <2>2, <2>4, <3>1 DEF MixedKnown
      <3>4. \A t \in Rooms : t # s => turn'[t] = turn[t]
        BY <2>2
      <3>5. MixedKnown' /\ NotYet'
        BY <3>2, <3>3 DEF MixedKnown, NotYet
      <3>6. pendingReply' = NoRoom
        BY <2>1, <2>4
      <3>7. PendingIsLast'
        BY <3>2, <3>3, <3>6 DEF PendingIsLast
      <3>8. CASE pendingReply # NoRoom
        <4> DEFINE m == pendingReply
        <4>1. \A r \in Rooms : Published(r)' = Published(r) \cup (IF r = s THEN {m} ELSE {})
          BY <2>1, <2>4, <3>8, PostPublishes
        <4>2. m.n \notin mixed => m = LastPart(s)
          <5>1. SUFFICES ASSUME m.n \notin mixed PROVE m = LastPart(s)
            OBVIOUS
          <5>2. PICK r \in Rooms : turn[r].on /\ m = LastPart(r)
            BY <1>0, <3>8, <5>1 DEF PendingIsLast
          <5>3. Lone(r)
            BY <5>1, <5>2 DEF LastPart, Lone
          <5>4. r = s
            BY <1>0, <2>1, <2>4, <5>2, <5>3 DEF MixedKnown
          <5> QED BY <5>2, <5>4
        <4>3. LastPart(s).kind = "reply" /\ LastPart(s).of = s /\ LastPart(s).n = turn[s].n
          BY DEF LastPart
        <4>4. Lone(s) => m = IF turn[s].parts > 0 THEN LastPart(s) ELSE NoRoom
          BY <1>0, <2>1, <2>4 DEF PendingIsLast
        <4>5. m.n \notin mixed =>
                 \A r \in Rooms : \A x \in Published(r) :
                     ~(x.kind = "reply" /\ x.of = s /\ x.n = turn[s].n)
          BY <1>0, <2>1, <2>4, <4>2, <4>3 DEF NotYet, Lone
        <4> HIDE DEF m
        <4>6. LoneRepliesStayHome'
          BY <1>0, <2>1, <4>1, <4>2, <4>3 DEF LoneRepliesStayHome
        <4>7. ASSUME NEW r \in Rooms, NEW a \in Published(r)', NEW b \in Published(r)',
                     a.kind = "reply", b.kind = "reply", a.n = b.n, a.of = b.of,
                     a.n \notin mixed
              PROVE  a = b
          <5>1. CASE a \in Published(r) /\ b \in Published(r)
            BY <1>0, <4>7, <5>1 DEF LoneTurnPublishesItsFinalPart
          <5>2. CASE a = m \/ b = m
            BY <4>1, <4>2, <4>3, <4>5, <4>7, <5>2
          <5> QED BY <4>1, <5>1, <5>2
        <4>8. ASSUME NEW r \in Rooms, ~turn'[r].on, turn'[r].parts > 0, Lone(r)'
              PROVE  LastPart(r)' \in Published(r)'
          <5>1. CASE r = s
            BY <3>1, <3>2, <4>1, <4>4, <4>8, <5>1
          <5>2. CASE r # s
            BY <1>0, <3>2, <3>4, <4>1, <4>8, <5>2 DEF LoneTurnPublishesItsFinalPart, Lone
          <5> QED BY <5>1, <5>2
        <4>9. LoneTurnPublishesItsFinalPart'
          BY <2>1, <4>7, <4>8 DEF LoneTurnPublishesItsFinalPart, Lone
        <4> QED BY <3>5, <3>7, <4>6, <4>9 DEF Replies
      <3>9. CASE pendingReply = NoRoom
        <4>1. \A r \in Rooms : Published(r)' = Published(r)
          BY <2>1, <3>9, QuietPublishes DEF Quiet
        <4>2. ~(Lone(s) /\ turn[s].parts > 0)
          <5>1. LastPart(s) \in Item
            BY <1>0, <2>4 DEF LastPart, Item, TypeOK
          <5>2. LastPart(s) # NoRoom
            BY <5>1, UplinkAssumption
          <5> QED BY <1>0, <2>1, <2>4, <3>9, <5>2 DEF PendingIsLast
        <4>3. LoneRepliesStayHome'
          BY <1>0, <2>1, <4>1 DEF LoneRepliesStayHome
        <4>4. ASSUME NEW r \in Rooms, ~turn'[r].on, turn'[r].parts > 0, Lone(r)'
              PROVE  LastPart(r)' \in Published(r)'
          <5>1. r # s
            BY <3>1, <3>2, <4>2, <4>4
          <5> QED BY <1>0, <3>2, <3>4, <4>1, <4>4, <5>1 DEF LoneTurnPublishesItsFinalPart, Lone
        <4>5. LoneTurnPublishesItsFinalPart'
          BY <1>0, <2>1, <4>1, <4>4 DEF LoneTurnPublishesItsFinalPart, Lone
        <4> QED BY <3>5, <3>7, <4>3, <4>5 DEF Replies
      <3> QED BY <3>8, <3>9
    <2> QED BY <2>3, <2>4
  <1>5. ASSUME NEW r \in Rooms, Deliver(r) PROVE Replies'
    <2>1. Quiet /\ UNCHANGED <<turn, pendingReply, mixed>>
      BY <1>5 DEF Deliver, OnUserMessage, Publishable, Quiet
    <2> QED BY <2>1, <1>a, QuietPublishes
  <1>6. ASSUME NEW r \in Rooms, PeerPosts(r) PROVE Replies'
    <2> DEFINE m == [kind |-> "peer", of |-> r, n |-> peers', part |-> 0]
    <2>1. /\ UNCHANGED <<turn, pendingReply, posts, failed, mixed>>
          /\ m \in Item /\ m.kind = "peer"
          /\ history' = [history EXCEPT ![r] = Append(@, m)]
      BY <1>6, <1>0 DEF PeerPosts, TypeOK, Item
    <2> HIDE DEF m
    <2>2. \A t \in Rooms : Published(t)' = Published(t) \cup (IF t = r THEN {m} ELSE {})
      BY <1>0, <2>1, PeerPublishes
    <2>3. \A t \in Rooms : \A x \in Published(t)' : x.kind = "reply" => x \in Published(t)
      BY <2>1, <2>2
    <2> QED BY <2>1, <2>2, <2>3, <1>a
  <1>7. ASSUME NEW p \in posts, Commit(p) PROVE Replies'
    <2>1. UNCHANGED <<turn, pendingReply, mixed>>
      BY <1>7 DEF Commit
    <2>2. \A r \in Rooms : Published(r)' = Published(r)
      BY <1>0, <1>7, CommitPublishes
    <2> QED BY <2>1, <2>2, <1>a
  <1>8. ASSUME NEW p \in posts, PostFails(p) PROVE Replies'
    <2>1. UNCHANGED <<turn, pendingReply, mixed>>
      BY <1>8 DEF PostFails
    <2> QED BY <2>1, <1>8, <1>a, FailurePublishes
  <1>9. ASSUME Restart PROVE Replies'
    <2>1. /\ Quiet /\ pendingReply' = NoRoom /\ mixed' = mixed
          /\ turn' = [s \in Sessions |-> [turn[s] EXCEPT !.on = FALSE, !.parts = 0]]
      BY <1>9 DEF Restart, Quiet
    <2>2. \A r \in Rooms : Published(r)' = Published(r)
      BY <2>1, QuietPublishes
    <2>3. ASSUME NEW r \in Rooms PROVE ~turn'[r].on /\ turn'[r].parts = 0
      <3>1. turn'[r] = [turn[r] EXCEPT !.on = FALSE, !.parts = 0]
        BY <2>1
      <3>2. turn[r] \in [n : 0..MaxTurns, parts : 0..MaxParts, on : BOOLEAN]
        BY <1>0 DEF TypeOK
      <3> QED BY <3>1, <3>2
    <2>4. LoneRepliesStayHome'
      BY <1>0, <2>1, <2>2 DEF LoneRepliesStayHome
    <2>5. MixedKnown' /\ NotYet' /\ PendingIsLast'
      BY <2>1, <2>3 DEF MixedKnown, NotYet, PendingIsLast
    <2>6. LoneTurnPublishesItsFinalPart'
      <3>1. \A r \in Rooms : ~(turn'[r].parts > 0)
        BY <2>3
      <3> QED BY <1>0, <2>1, <2>2, <3>1 DEF LoneTurnPublishesItsFinalPart
    <2> QED BY <2>4, <2>5, <2>6 DEF Replies
  <1>10. CASE UNCHANGED vars
    <2>1. Quiet /\ UNCHANGED <<turn, pendingReply, mixed>>
      BY <1>10 DEF vars, Quiet
    <2> QED BY <2>1, <1>a, QuietPublishes
  <1> QED
    BY <1>1, <1>2, <1>3, <1>4, <1>5, <1>6, <1>7, <1>8, <1>9, <1>10 DEF Next

LEMMA HomeInvariance == Spec => []HInv
  BY HomeInit, HomeNext, PTL DEF Spec

(* Every reply of a turn that no other room's turn overlapped is published   *)
(* in the room whose turn said it, whatever other turns overlap before,      *)
(* after and in other sessions (onSessionEvent).                             *)
THEOREM UplinkLoneRepliesStayHome == Spec => []LoneRepliesStayHome
  <1>1. HInv => LoneRepliesStayHome
    BY DEF HInv, Replies
  <1> QED BY <1>1, HomeInvariance, PTL

(* A turn that no other room's turn overlapped publishes its final part, and *)
(* nothing else of what it said (onSessionEvent).                            *)
THEOREM UplinkLoneFinalPart == Spec => []LoneTurnPublishesItsFinalPart
  <1>1. HInv => LoneTurnPublishesItsFinalPart
    BY DEF HInv, Replies
  <1> QED BY <1>1, HomeInvariance, PTL
=============================================================================
