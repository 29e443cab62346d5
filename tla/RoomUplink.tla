----------------------------- MODULE RoomUplink ------------------------------
(***************************************************************************)
(* What this workspace publishes to its rooms (packages/group-chat/src/     *)
(* index.ts, onSessionEvent).  Every session of the host reports its events *)
(* to one listener: what the member typed into a room's session is posted   *)
(* as the member's message, and the last assistant message before a turn    *)
(* ends is posted as the agent's reply.  What the rooms' server commits     *)
(* comes back through the feed (RoomFeed) into the same session.            *)
(***************************************************************************)
EXTENDS Naturals, Sequences

CONSTANTS Sessions,    \* sessions of the host
          Rooms,       \* those that are the session of a room
          NoRoom,      \* pendingReply: undefined
          Kinds,       \* kinds of user message written here, see Written
          MaxWritten,  \* bound: user messages written
          MaxPeer,     \* bound: messages other members post
          MaxTurns,    \* bound: turns started
          MaxParts,    \* bound: assistant messages per turn
          MaxRestarts  \* bound: restarts of the workspace

(* What a session's log or a room's history holds: a user message written in *)
(* session "of", a peer's message, or part "part" of the reply of turn "n".  *)
Item == [kind : Kinds \cup {"peer", "reply"}, of : Sessions, n : Nat, part : Nat]

ASSUME UplinkAssumption ==
    /\ Rooms \subseteq Sessions /\ NoRoom \notin Item
    /\ Kinds \subseteq {"typed", "warmUp", "runtime", "quote"}
    /\ {MaxWritten, MaxPeer, MaxTurns, MaxParts, MaxRestarts} \subseteq Nat

VARIABLES
    written,      \* user messages written here so far
    peers,        \* messages other members have posted
    turns,        \* turns started so far
    turn,         \* each session's last turn: its number, parts, whether it runs
    pendingReply, \* the assistant message to publish, or NoRoom
    posts,        \* requests in flight to the server
    failed,       \* requests that failed; the plugin only logs them
    history,      \* the server: what each room holds, in its order
    delivered,    \* how much of a room's history the feed has delivered
    restarts,
    mixed         \* history: turns of rooms that overlapped another room's turn

vars == <<written, peers, turns, turn, pendingReply, posts, failed, history, delivered,
          restarts, mixed>>

Post == [room : Rooms, item : Item]
Idle == [n |-> 0, parts |-> 0, on |-> FALSE]

Init ==
    /\ written = 0
    /\ peers = 0
    /\ turns = 0
    /\ turn = [s \in Sessions |-> Idle]
    /\ pendingReply = NoRoom
    /\ posts = {} /\ failed = {}
    /\ history = [r \in Rooms |-> <<>>]
    /\ delivered = [r \in Rooms |-> 0]
    /\ restarts = 0
    /\ mixed = {}

-----------------------------------------------------------------------------
(* isRuntimeInjectedData, isLocalUserMessage, the warm-up and the quote:     *)
(* published is what the member typed here and the feed did not bring.       *)
BugPublishable(kind, fromRoom) == kind \in {"typed", "peer"}

Publishable(kind, fromRoom) == kind = "typed" /\ ~fromRoom

(* The user/message branch of onSessionEvent.                                *)
OnUserMessage(s, item, fromRoom) ==
    IF s \in Rooms /\ Publishable(item.kind, fromRoom)
    THEN posts' = posts \cup {[room |-> s, item |-> item]}
    ELSE UNCHANGED posts

(* The host writes a user message to a session: what the member typed, the   *)
(* warm-up prompt, the runtime's own bookkeeping or a quoted message.        *)
Write(s, kind) ==
    /\ written < MaxWritten
    /\ written' = written + 1
    /\ OnUserMessage(s, [kind |-> kind, of |-> s, n |-> written', part |-> 0], FALSE)
    /\ UNCHANGED <<peers, turns, turn, pendingReply, failed, history, delivered,
                   restarts, mixed>>

(* The feed brings the next event of the room, this workspace's own included.*)
(* A user message is written to the session with the room it came from; an   *)
(* agent's reply is not a user message, and deliverToAgent drops it.         *)
Deliver(r) ==
    /\ delivered[r] < Len(history[r])
    /\ delivered' = [delivered EXCEPT ![r] = @ + 1]
    /\ LET item == history[r][delivered'[r]]
       IN  IF item.kind = "reply"
           THEN UNCHANGED posts
           ELSE OnUserMessage(r, item, TRUE)
    /\ UNCHANGED <<written, peers, turns, turn, pendingReply, failed, history, restarts,
                   mixed>>

(* The host starts a turn of a session, whatever turns other sessions are in.*)
InTurn == {t \in Rooms : turn[t].on}

StartTurn(s) ==
    /\ ~turn[s].on /\ turns < MaxTurns
    /\ turns' = turns + 1
    /\ turn' = [turn EXCEPT ![s] = [n |-> turns', parts |-> 0, on |-> TRUE]]
    /\ mixed' = IF s \in Rooms /\ InTurn # {}
                THEN mixed \cup {turns'} \cup {turn[t].n : t \in InTurn}
                ELSE mixed
    /\ UNCHANGED <<written, peers, pendingReply, posts, failed, history, delivered,
                   restarts>>

(* The part of a turn that is its last so far.                               *)
LastPart(s) == [kind |-> "reply", of |-> s, n |-> turn[s].n, part |-> turn[s].parts]

(* assistant/message: a room's latest one waits for the end of the turn.     *)
BugKeepsFirst(s, item) == IF pendingReply = NoRoom THEN item ELSE pendingReply

Latest(s, item) == item

Speak(s) ==
    /\ turn[s].on /\ turn[s].parts < MaxParts
    /\ turn' = [turn EXCEPT ![s].parts = @ + 1]
    /\ pendingReply' = IF s \in Rooms THEN Latest(s, LastPart(s)') ELSE pendingReply
    /\ UNCHANGED <<written, peers, turns, posts, failed, history, delivered,
                   restarts, mixed>>

(* turn/end: the waiting reply is published, once, to the room whose turn    *)
(* ended.                                                                    *)
BugNoReset == pendingReply

Reset == NoRoom

EndTurn(s) ==
    /\ turn[s].on
    /\ turn' = [turn EXCEPT ![s].on = FALSE]
    /\ IF s \in Rooms /\ pendingReply # NoRoom
       THEN /\ posts' = posts \cup {[room |-> s, item |-> pendingReply]}
            /\ pendingReply' = Reset
       ELSE UNCHANGED <<posts, pendingReply>>
    /\ UNCHANGED <<written, peers, turns, failed, history, delivered,
                   restarts, mixed>>

-----------------------------------------------------------------------------
(* The server commits a post to its room; or the request is refused or times *)
(* out, which is logged and not tried again.  Posts are not ordered.         *)
Commit(p) ==
    /\ p \in posts
    /\ posts' = posts \ {p}
    /\ history' = [history EXCEPT ![p.room] = Append(@, p.item)]
    /\ UNCHANGED <<written, peers, turns, turn, pendingReply, failed, delivered, restarts,
                   mixed>>

PostFails(p) ==
    /\ p \in posts
    /\ posts' = posts \ {p}
    /\ failed' = failed \cup {p}
    /\ UNCHANGED <<written, peers, turns, turn, pendingReply, history, delivered,
                   restarts, mixed>>

(* Another member's message is committed to the room.                        *)
PeerPosts(r) ==
    /\ peers < MaxPeer
    /\ peers' = peers + 1
    /\ history' = [history EXCEPT ![r] =
                      Append(@, [kind |-> "peer", of |-> r, n |-> peers', part |-> 0])]
    /\ UNCHANGED <<written, turns, turn, pendingReply, posts, failed, delivered, restarts,
                   mixed>>

(* The workspace restarts: turns and the pending reply are gone, a request   *)
(* may have reached the server or not; session logs and what the feed brought *)
(* into them are on disk.                                                    *)
Restart ==
    /\ restarts < MaxRestarts
    /\ restarts' = restarts + 1
    /\ turn' = [s \in Sessions |-> [turn[s] EXCEPT !.on = FALSE, !.parts = 0]]
    /\ pendingReply' = NoRoom
    /\ UNCHANGED <<written, peers, turns, posts, failed, history, delivered, mixed>>

Next ==
    \/ \E s \in Sessions :
          \/ \E kind \in Kinds : Write(s, kind)
          \/ StartTurn(s) \/ Speak(s) \/ EndTurn(s)
    \/ \E r \in Rooms : Deliver(r) \/ PeerPosts(r)
    \/ \E p \in posts : Commit(p) \/ PostFails(p)
    \/ Restart

Spec == Init /\ [][Next]_vars

-----------------------------------------------------------------------------
(* The types of the variables.                                               *)
TypeOK ==
    /\ written \in 0..MaxWritten
    /\ peers \in 0..MaxPeer
    /\ turns \in 0..MaxTurns
    /\ turn \in [Sessions -> [n : 0..MaxTurns, parts : 0..MaxParts, on : BOOLEAN]]
    /\ pendingReply \in Item \cup {NoRoom}
    /\ posts \subseteq Post /\ failed \subseteq Post
    /\ history \in [Rooms -> Seq(Item)]
    /\ delivered \in [Rooms -> Nat]
    /\ restarts \in 0..MaxRestarts
    /\ mixed \subseteq 0..MaxTurns

Held(r) == {history[r][i] : i \in 1..Len(history[r])}
Published(r) == Held(r) \cup {p.item : p \in {q \in posts \cup failed : q.room = r}}

(* Nothing comes back as a post: through the loop of post, commit, feed and  *)
(* session event, a message stands in its room's history once, and the words *)
(* of other members are never posted in this member's name.                  *)
NoEcho ==
    \A r \in Rooms :
        /\ \A i, j \in 1..Len(history[r]) : history[r][i] = history[r][j] => i = j
        /\ \A p \in posts \cup failed : p.item.kind # "peer"
        /\ \A p \in posts : p.room = r => p.item \notin Held(r)

(* A reply is published in the room whose turn said it: the listener's one   *)
(* pendingReply serves all rooms ("The turn's most recent assistant message, *)
(* published when the turn closes").                                         *)
RepliesStayHome ==
    \A r \in Rooms : \A m \in Published(r) : m.kind = "reply" => m.of = r

(* Only a turn that overlapped another room's turn can have its words end up *)
(* in another room: what overlapping turns do to pendingReply is over when   *)
(* they are, and no turn before or after them is touched by it.              *)
LoneRepliesStayHome ==
    \A r \in Rooms : \A m \in Published(r) :
        m.kind = "reply" /\ m.n \notin mixed => m.of = r

(* A turn that no other room's turn overlapped publishes one part of what    *)
(* was said, and once it ends with something said, that is its final part,   *)
(* committed, in flight or failed ("Only the turn's final assistant/message  *)
(* is published", README of the plugin).                                     *)
LoneTurnPublishesItsFinalPart ==
    \A r \in Rooms :
        /\ \A a, b \in Published(r) :
              (/\ a.kind = "reply" /\ b.kind = "reply"
               /\ a.n = b.n /\ a.of = b.of /\ a.n \notin mixed)
                  => a = b
        /\ (/\ ~turn[r].on /\ turn[r].parts > 0
            /\ turn[r].n \notin mixed) => LastPart(r) \in Published(r)
=============================================================================
