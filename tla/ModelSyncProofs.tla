--------------------------- MODULE ModelSyncProofs ----------------------------
(***************************************************************************)
(* For any models, publications and number of overlapping calls: the user's  *)
(* entries are kept by every write that presents a revision; the user's      *)
(* choices stick until a record is written that changed since it was read;   *)
(* and while no call is overtaken a follower goes on following.              *)
(***************************************************************************)
EXTENDS ModelSync, TLAPS

Kind == {"user", "adoption", "none"}
Then == {"done", "detached", "adopt", "publish", "stored"}
Storing(base, next, then) == [at |-> "record", base |-> base, next |-> next, then |-> then]
Noting(base, next) == Storing(base, next, "done")
Writing(merged, rev, base, next) ==
    [at |-> "models", merged |-> merged, revision |-> rev, base |-> base, next |-> next]

(* What is to be written was merged over the models of its revision.         *)
Merging ==
    \A c \in Calls : call[c].at = "models" =>
        /\ call[c].revision <= revision
        /\ call[c].revision = revision =>
             \A m \in Models :
                call[c].merged[m] # held[m] => held[m] = "none" /\ call[c].merged[m] = "adoption"

Alone == \A c, d \in Calls : call[c] # Idle /\ call[d] # Idle => c = d

(* What a call is to write keeps the choices of the record it read, but for  *)
(* the one it stores.                                                        *)
Keeps(base, next) == next.private = base.private /\ (base.detached => next.detached)
Based(v) ==
    /\ v.at = "models" => Keeps(v.base, v.next)
    /\ v.at = "record" =>
         /\ v.then = "done" => Keeps(v.base, v.next)
         /\ v.then = "detached" => Keeps(v.base, v.next) /\ v.next.detached
         /\ v.then = "adopt" => v.next.private = v.base.private
         /\ v.then \in {"publish", "stored"} =>
              (v.base.detached => v.next.detached)
Basing == \A c \in Calls : Based(call[c])

(* Until a record that changed is written over, the choices stand in it.     *)
Standing == record.private = wanted.private /\ (wanted.detached => record.detached)
Choices == "stale" \notin disturbed => Standing

(* What a call that none overtakes has read is still so.                     *)
Reads(c) ==
    /\ call[c].at \in {"fetch", "answered"} => call[c].state = record
    /\ call[c].at \in {"models", "record"} => call[c].base = record
    /\ call[c].at = "put" => call[c].publication.shared \cap wanted.private = {}
Reading == Alone /\ "stale" \notin disturbed /\ \A c \in Calls : Reads(c)
Undisturbed == "overlap" \notin disturbed => Reading

(* A follower's models are those it noted, and those it noted are offered.   *)
NotingCall(c) == call[c].at = "record" /\ call[c].then = "done"
Offered == IdsOf(Offers(published))
Follows(c) ==
    /\ call[c].at = "answered" =>
         /\ record.adopted \subseteq IdsOf(Offers(call[c].publication))
         /\ Offers(call[c].publication) \subseteq Offers(published)
    /\ call[c].at = "models" \/ NotingCall(c) =>
         /\ call[c].next.adopted \subseteq Offered
         /\ call[c].next.detached = wanted.detached
    /\ call[c].at = "models" =>
         \A m \in Models : call[c].merged[m] # "none" => m.id \in call[c].next.adopted
    /\ NotingCall(c) => IdsOf(Holding) \subseteq call[c].next.adopted
    /\ call[c].at = "record" /\ call[c].then # "done" =>
         /\ call[c].next.adopted = record.adopted
         /\ call[c].then = "detached" => call[c].next.detached = TRUE
         /\ call[c].then = "adopt" => call[c].next.detached = FALSE
         /\ call[c].then \in {"publish", "stored"} => call[c].next.detached = wanted.detached
Following ==
    /\ record.detached = wanted.detached
    /\ record.adopted \subseteq Offered
    /\ (\A c \in Calls : ~NotingCall(c)) => IdsOf(Holding) \subseteq record.adopted
    /\ \A c \in Calls : Follows(c)

Follower == disturbed = {} => Following

-----------------------------------------------------------------------------
(* The kinds of a call *)

LEMMA Fields ==
  ASSUME TypeOK, NEW c \in Calls
  PROVE  /\ call[c].at = "fetch" => call[c].state \in Record
         /\ call[c].at = "answered" => call[c].state \in Record /\ call[c].publication \in Publication
         /\ call[c].at = "models" => /\ call[c].merged \in [Models -> Kind]
                                     /\ call[c].revision \in Nat
                                     /\ call[c].base \in Record /\ call[c].next \in Record
         /\ call[c].at = "record" => /\ call[c].base \in Record /\ call[c].next \in Record
                                     /\ call[c].then \in Then
         /\ call[c].at = "token" => call[c].sharing \in BOOLEAN
         /\ call[c].at = "put" => call[c].publication \in Publication
  <1>1. call[c] \in CallType
    BY DEF TypeOK
  <1> QED BY <1>1 DEF CallType, Idle, Kind, Then

LEMMA Forms ==
  /\ Idle \in CallType
  /\ \A s \in Record : [at |-> "fetch", state |-> s] \in CallType
  /\ \A s \in Record, p \in Publication :
        [at |-> "answered", state |-> s, publication |-> p] \in CallType
  /\ \A m \in [Models -> Kind], n \in Nat, b \in Record, s \in Record :
        Writing(m, n, b, s) \in CallType
  /\ \A b \in Record, s \in Record, t \in Then : Storing(b, s, t) \in CallType
  /\ \A b \in BOOLEAN : [at |-> "token", sharing |-> b] \in CallType
  /\ \A p \in Publication : [at |-> "put", publication |-> p] \in CallType
  BY DEF CallType, Kind, Then, Writing, Storing

(* A call of another number is not touched. *)
LEMMA OtherCalls ==
  ASSUME TypeOK, NEW c \in Calls, NEW v, call' = [call EXCEPT ![c] = v]
  PROVE  call'[c] = v /\ \A d \in Calls : d # c => call'[d] = call[d]
  BY DEF TypeOK

LEMMA CallStep ==
  ASSUME TypeOK, NEW c \in Calls, NEW v \in CallType, call' = [call EXCEPT ![c] = v]
  PROVE  call' \in [Calls -> CallType]
  BY DEF TypeOK

LEMMA IdsOfMembers == \A S, T : S \subseteq T => IdsOf(S) \subseteq IdsOf(T)
  BY DEF IdsOf

(* What Compare does with an answer *)
LEMMA Comparing ==
  ASSUME TypeOK, NEW c \in Calls, Compare(c)
  PROVE  LET offered == Offers(call[c].publication)
             state == call[c].state IN
         /\ call[c].at = "answered"
         /\ \/ call' = [call EXCEPT ![c] = Idle] /\ UNCHANGED updates
            \/ /\ updates' = Append(updates, c)
               /\ EditedSinceAdoption(state.adopted)
               /\ call' = [call EXCEPT ![c] = Noting(state, [state EXCEPT !.detached = TRUE])]
            \/ /\ updates' = Append(updates, c)
               /\ ~EditedSinceAdoption(state.adopted) /\ Missing(offered) = {}
               /\ call' = [call EXCEPT ![c] = Noting(state, Noted(state, offered))]
            \/ /\ updates' = Append(updates, c)
               /\ ~EditedSinceAdoption(state.adopted)
               /\ call' = [call EXCEPT ![c] = Writing(Merged(offered), revision, state, Noted(state, offered))]
  BY DEF Compare, Noting, Storing, Writing

LEMMA NotedType ==
  ASSUME NEW s \in Record, NEW offered \in SUBSET Models
  PROVE  /\ Noted(s, offered) \in Record /\ Noted(s, offered).adopted = IdsOf(offered)
         /\ Noted(s, offered).private = s.private /\ Noted(s, offered).detached = s.detached
  <1>1. IdsOf(offered) \in SUBSET Ids
    BY DEF IdsOf, Ids
  <1> QED BY <1>1 DEF Noted, Record

LEMMA MergedType ==
  ASSUME TypeOK, NEW offered \in SUBSET Models
  PROVE  /\ Merged(offered) \in [Models -> Kind]
         /\ \A m \in Models : /\ Merged(offered)[m] # held[m] =>
                                   held[m] = "none" /\ Merged(offered)[m] = "adoption"
                              /\ Merged(offered)[m] # "none" => held[m] # "none" \/ m \in offered
  BY DEF Merged, Missing, Kind, TypeOK

-----------------------------------------------------------------------------
(* Types *)

LEMMA TypeInit == Init => TypeOK
  <1> SUFFICES ASSUME Init PROVE TypeOK
    OBVIOUS
  <1>1. call \in [Calls -> CallType]
    BY Forms DEF Init
  <1>2. own \in Publication /\ published \in Publication
    BY ModelSyncAssumption DEF Init, Publication, Ids
  <1>3. record \in Record /\ wanted \in [detached : BOOLEAN, private : SUBSET Ids]
    BY DEF Init, Record
  <1>4. updates \in Seq(Calls)
    BY DEF Init
  <1>5. revision \in Nat /\ disturbed \subseteq Disturbances
    BY DEF Init, Unset, Disturbances
  <1> QED BY <1>1, <1>2, <1>3, <1>4, <1>5, ModelSyncAssumption DEF Init, TypeOK

LEMMA HappensType == TypeOK /\ Happens => events' \in 0..MaxEvents
  BY ModelSyncAssumption DEF TypeOK, Happens

LEMMA BeginsType ==
  ASSUME TypeOK, NEW c \in Calls, NEW v \in CallType, Begins(c, v)
  PROVE  /\ call' \in [Calls -> CallType]
         /\ disturbed' \subseteq Disturbances
  BY CallStep DEF Begins, TypeOK, Disturbances

LEMMA StoresType ==
  ASSUME TypeOK, NEW c \in Calls, NEW s \in Record, NEW t \in Then, Stores(c, s, t)
  PROVE  TypeOK'
  <1>1. record \in Record
    BY DEF TypeOK
  <1>0. [at |-> "record", base |-> record, next |-> s, then |-> t] \in CallType
    BY <1>1, Forms DEF Storing
  <1>2. /\ call' \in [Calls -> CallType]
        /\ disturbed' \subseteq Disturbances
    BY <1>0, BeginsType DEF Stores
  <1>3. events' \in 0..MaxEvents
    BY HappensType DEF Stores
  <1>4. updates' \in Seq(Calls)
    BY DEF Stores, TypeOK
  <1> QED BY <1>2, <1>3, <1>4 DEF Stores, serverVars, TypeOK

LEMMA TypeNext == TypeOK /\ [Next]_vars => TypeOK'
  <1> SUFFICES ASSUME TypeOK, [Next]_vars PROVE TypeOK'
    OBVIOUS
  <1> USE DEF serverVars
  <1>h. updates # <<>> => Tail(updates) \in Seq(Calls)
    BY DEF TypeOK
  <1>r. record \in Record
    BY DEF TypeOK
  <1>1. ASSUME NEW m \in Models, Edit(m) PROVE TypeOK'
    <2>1. events' \in 0..MaxEvents
      BY <1>1, HappensType DEF Edit
    <2>2. revision' \in Nat
      BY <1>1 DEF Edit, TypeOK
    <2> QED BY <1>1, <2>1, <2>2 DEF Edit, TypeOK, Disturbances
  <1>2. ASSUME NEW p \in Others, OthersPublish(p) PROVE TypeOK'
    <2>1. events' \in 0..MaxEvents /\ p \in Publication
      BY <1>2, HappensType, ModelSyncAssumption DEF OthersPublish, Publication
    <2> QED BY <1>2, <2>1 DEF OthersPublish, TypeOK, Disturbances
  <1>3. ASSUME NEW c \in Calls, Adopt(c) PROVE TypeOK'
    <2>1. Adopting \in CallType
      BY <1>r, Forms DEF Adopting
    <2>2. /\ call' \in [Calls -> CallType]
          /\ disturbed' \subseteq Disturbances
      BY <1>3, <2>1, BeginsType DEF Adopt
    <2> QED BY <1>3, <2>2 DEF Adopt, TypeOK
  <1>4. ASSUME NEW c \in Calls, Fetched(c) PROVE TypeOK'
    <2>1. published \in Publication /\ call[c].state \in Record
      BY <1>4, Fields DEF Fetched, TypeOK
    <2>2. [at |-> "answered", state |-> call[c].state, publication |-> published] \in CallType
      BY <2>1, Forms
    <2>3. call' \in [Calls -> CallType]
      BY <1>4, <2>2, CallStep DEF Fetched
    <2> QED BY <1>4, <2>3 DEF Fetched, TypeOK
  <1>5. ASSUME NEW c \in Calls, FetchFails(c) PROVE TypeOK'
    <2>1. call' \in [Calls -> CallType]
      BY <1>5, Forms, CallStep DEF FetchFails
    <2>2. events' \in 0..MaxEvents
      BY <1>5, HappensType DEF FetchFails, Fails
    <2> QED BY <1>5, <2>1, <2>2 DEF FetchFails, TypeOK
  <1>6. ASSUME NEW c \in Calls, Compare(c) PROVE TypeOK'
    <2> DEFINE offered == Offers(call[c].publication)
               state == call[c].state
    <2>1. /\ call[c].at = "answered"
          /\ \/ call' = [call EXCEPT ![c] = Idle] /\ UNCHANGED updates
             \/ /\ updates' = Append(updates, c)
                /\ call' = [call EXCEPT ![c] = Noting(state, [state EXCEPT !.detached = TRUE])]
             \/ /\ updates' = Append(updates, c)
                /\ call' = [call EXCEPT ![c] = Noting(state, Noted(state, offered))]
             \/ /\ updates' = Append(updates, c)
                /\ call' = [call EXCEPT ![c] = Writing(Merged(offered), revision, state, Noted(state, offered))]
      BY <1>6, Comparing
    <2>2. state \in Record /\ offered \in SUBSET Models
      BY <2>1, Fields DEF Publication, Offers
    <2>3. [state EXCEPT !.detached = TRUE] \in Record /\ Noted(state, offered) \in Record
      BY <2>2, NotedType DEF Record
    <2>4. Merged(offered) \in [Models -> Kind] /\ revision \in Nat
      BY <2>2, MergedType DEF TypeOK
    <2> HIDE DEF offered, state
    <2>5. /\ Noting(state, [state EXCEPT !.detached = TRUE]) \in CallType
          /\ Noting(state, Noted(state, offered)) \in CallType
      BY <2>2, <2>3, Forms DEF Noting, Then
    <2>6. Writing(Merged(offered), revision, state, Noted(state, offered)) \in CallType
      BY <2>2, <2>3, <2>4, Forms
    <2>7. call' \in [Calls -> CallType]
      BY <2>1, <2>5, <2>6, Forms, CallStep
    <2>8. updates' \in Seq(Calls)
      <3>1. updates' = updates \/ updates' = Append(updates, c)
        BY <2>1
      <3>2. updates \in Seq(Calls)
        BY DEF TypeOK
      <3> QED BY <3>1, <3>2
    <2> QED BY <1>6, <2>7, <2>8 DEF Compare, TypeOK
  <1>7. ASSUME NEW c \in Calls, ModelsWritten(c) PROVE TypeOK'
    <2>1. /\ call[c].merged \in [Models -> Kind]
          /\ call[c].base \in Record /\ call[c].next \in Record
          /\ revision \in Nat /\ updates # <<>>
      BY <1>7, Fields DEF ModelsWritten, TypeOK
    <2>2. CASE Conflict(c)
      <3>1. call' \in [Calls -> CallType] /\ updates' \in Seq(Calls)
        BY <1>7, <1>h, <2>1, <2>2, Forms, CallStep DEF ModelsWritten
      <3> QED BY <1>7, <2>2, <3>1 DEF ModelsWritten, TypeOK
    <2>3. CASE ~Conflict(c)
      <3>1. [at |-> "record", base |-> call[c].base, next |-> call[c].next, then |-> "done"]
               \in CallType
        BY <2>1, Forms DEF Then, Storing
      <3>2. call' \in [Calls -> CallType]
        BY <1>7, <2>3, <3>1, CallStep DEF ModelsWritten
      <3>3. updates' = Append(Tail(updates), c) /\ held' = call[c].merged
            /\ revision' = revision + 1
        BY <1>7, <2>3 DEF ModelsWritten
      <3>4. updates' \in Seq(Calls)
        BY <1>h, <2>1, <3>3
      <3>5. held' \in [Models -> {"user", "adoption", "none"}] /\ revision' \in Nat
        BY <2>1, <3>3 DEF Kind
      <3> QED BY <1>7, <3>2, <3>4, <3>5 DEF ModelsWritten, TypeOK
    <2> QED BY <2>2, <2>3
  <1>8. ASSUME NEW c \in Calls, RecordWritten(c) PROVE TypeOK'
    <2>1. call[c].next \in Record /\ call[c].then \in Then
      BY <1>8, Fields DEF RecordWritten
    <2>2. \E v \in CallType : call' = [call EXCEPT ![c] = v]
      <3>1. /\ [at |-> "fetch", state |-> call[c].next] \in CallType
            /\ [at |-> "token", sharing |-> TRUE] \in CallType
            /\ Idle \in CallType
        BY <2>1, Forms
      <3> QED BY <1>8, <3>1 DEF RecordWritten
    <2>3. call' \in [Calls -> CallType] /\ updates' \in Seq(Calls)
      BY <1>8, <1>h, <2>2, CallStep DEF RecordWritten
    <2>4. wanted' \in [detached : BOOLEAN, private : SUBSET Ids]
      BY <1>8, <2>1 DEF RecordWritten, TypeOK, Record
    <2>5. disturbed' \subseteq Disturbances
      BY <1>8 DEF RecordWritten, TypeOK, Disturbances
    <2> QED BY <1>8, <2>1, <2>3, <2>4, <2>5 DEF RecordWritten, TypeOK
  <1>9. ASSUME NEW c \in Calls, UpdateFails(c) PROVE TypeOK'
    <2>1. call' \in [Calls -> CallType] /\ updates' \in Seq(Calls)
      BY <1>9, <1>h, Forms, CallStep DEF UpdateFails
    <2>2. events' \in 0..MaxEvents
      BY <1>9, HappensType DEF UpdateFails, Fails
    <2> QED BY <1>9, <2>1, <2>2 DEF UpdateFails, TypeOK, Disturbances
  <1>10. ASSUME NEW c \in Calls, Detach(c) PROVE TypeOK'
    <2>1. [record EXCEPT !.detached = TRUE] \in Record
      BY <1>r DEF Record
    <2> QED BY <1>10, <2>1, StoresType DEF Detach, Then
  <1>11. ASSUME NEW c \in Calls, ResumeFollowing(c) PROVE TypeOK'
    <2>1. [record EXCEPT !.detached = FALSE] \in Record
      BY <1>r DEF Record
    <2> QED BY <1>11, <2>1, StoresType DEF ResumeFollowing, Then
  <1>12. ASSUME NEW c \in Calls, SetPrivateModels(c) PROVE TypeOK'
    <2>1. \A ids \in Private : [record EXCEPT !.private = ids] \in Record
      BY <1>r, ModelSyncAssumption DEF Record
    <2> QED BY <1>12, <2>1, StoresType DEF SetPrivateModels, Then
  <1>13. ASSUME NEW c \in Calls, Publish(c) PROVE TypeOK'
    <2>1. PICK sharing \in BOOLEAN : Begins(c, [at |-> "token", sharing |-> sharing])
      BY <1>13 DEF Publish
    <2>2. [at |-> "token", sharing |-> sharing] \in CallType
      BY Forms
    <2>3. /\ call' \in [Calls -> CallType]
          /\ disturbed' \subseteq Disturbances
      BY <2>1, <2>2, BeginsType
    <2>4. events' \in 0..MaxEvents
      BY <1>13, HappensType DEF Publish
    <2> QED BY <1>13, <2>3, <2>4 DEF Publish, TypeOK
  <1>14. ASSUME NEW c \in Calls, Collect(c) PROVE TypeOK'
    <2>1. call[c].sharing \in BOOLEAN /\ OfferedModelIds \in SUBSET Ids
          /\ Holding \in SUBSET Models
      BY <1>14, Fields DEF Collect, OfferedModelIds, Holding, IdsOf, Ids
    <2>2. [sharing |-> call[c].sharing, providers |-> Holding, shared |-> OfferedModelIds]
             \in Publication
      BY <2>1 DEF Publication
    <2>3. call' \in [Calls -> CallType]
      BY <1>14, <2>2, Forms, CallStep DEF Collect
    <2> QED BY <1>14, <2>3 DEF Collect, TypeOK
  <1>15. ASSUME NEW c \in Calls, Put(c) PROVE TypeOK'
    <2>1. call' \in [Calls -> CallType] /\ own' \in Publication
      BY <1>15, Fields, Forms, CallStep DEF Put
    <2> QED BY <1>15, <2>1 DEF Put, TypeOK
  <1>16. ASSUME NEW c \in Calls, PutFails(c) PROVE TypeOK'
    <2>1. call' \in [Calls -> CallType]
      BY <1>16, Forms, CallStep DEF PutFails
    <2>2. events' \in 0..MaxEvents
      BY <1>16, HappensType DEF PutFails, Fails
    <2> QED BY <1>16, <2>1, <2>2 DEF PutFails, TypeOK
  <1>17. CASE Restart
    <2>1. call' \in [Calls -> CallType] /\ updates' \in Seq(Calls)
      BY <1>17, Forms DEF Restart
    <2>2. events' \in 0..MaxEvents
      BY <1>17, HappensType DEF Restart, Fails
    <2> QED BY <1>17, <2>1, <2>2 DEF Restart, TypeOK, Disturbances
  <1>18. CASE UNCHANGED vars
    BY <1>18 DEF vars, TypeOK
  <1> QED
    BY <1>1, <1>2, <1>3, <1>4, <1>5, <1>6, <1>7, <1>8, <1>9, <1>10, <1>11, <1>12, <1>13, <1>14,
       <1>15, <1>16, <1>17, <1>18 DEF Next, Proceeds

(* Every variable of model sync keeps its type.                              *)
THEOREM SyncTypeCorrect == Spec => []TypeOK
  <1> QED BY TypeInit, TypeNext, PTL DEF Spec

-----------------------------------------------------------------------------
(* The user's entries *)

LEMMA NotWriting ==
  ASSUME TypeOK, Merging, UNCHANGED <<held, revision>>, NEW c \in Calls, NEW v, v.at # "models",
         call' = [call EXCEPT ![c] = v]
  PROVE  Merging'
  <1>1. \A d \in Calls : call'[d].at = "models" => call'[d] = call[d]
    BY OtherCalls
  <1> QED BY <1>1 DEF Merging

LEMMA MergingInit == Init => Merging
  BY DEF Init, Merging, Idle

LEMMA MergingNext == TypeOK /\ Merging /\ [Next]_vars => Merging'
  <1> SUFFICES ASSUME TypeOK, Merging, [Next]_vars PROVE Merging'
    OBVIOUS
  <1> USE DEF serverVars
  <1>i. Idle.at # "models"
    BY DEF Idle
  <1>1. ASSUME NEW m \in Models, Edit(m) PROVE Merging'
    <2>1. UNCHANGED call /\ revision' = revision + 1 /\ revision \in Nat
      BY <1>1 DEF Edit, TypeOK
    <2>2. \A c \in Calls : call[c].at = "models" =>
              call[c].revision \in Nat /\ call[c].revision <= revision
      BY Fields DEF Merging
    <2>3. \A c \in Calls : call[c].at = "models" =>
              call[c].revision <= revision' /\ call[c].revision # revision'
      BY <2>1, <2>2
    <2> QED BY <2>1, <2>3 DEF Merging
  <1>2. ASSUME NEW p \in Others, OthersPublish(p) PROVE Merging'
    BY <1>2 DEF OthersPublish, Merging
  <1>3. ASSUME NEW c \in Calls, Adopt(c) PROVE Merging'
    <2>1. Adopting.at # "models"
      BY <1>i DEF Adopting
    <2> QED BY <1>3, <2>1, NotWriting DEF Adopt, Begins
  <1>4. ASSUME NEW c \in Calls, Fetched(c) PROVE Merging'
    BY <1>4, NotWriting DEF Fetched
  <1>5. ASSUME NEW c \in Calls, FetchFails(c) PROVE Merging'
    BY <1>5, <1>i, NotWriting DEF FetchFails
  <1>6. ASSUME NEW c \in Calls, Compare(c) PROVE Merging'
    <2> DEFINE offered == Offers(call[c].publication)
               state == call[c].state
               next == Noted(state, offered)
    <2>1. /\ call[c].at = "answered"
          /\ \/ call' = [call EXCEPT ![c] = Idle]
             \/ call' = [call EXCEPT ![c] = Noting(state, [state EXCEPT !.detached = TRUE])]
             \/ call' = [call EXCEPT ![c] = Noting(state, next)]
             \/ call' = [call EXCEPT ![c] = Writing(Merged(offered), revision, state, next)]
      BY <1>6, Comparing
    <2>2. UNCHANGED <<held, revision>>
      BY <1>6 DEF Compare
    <2>3. offered \in SUBSET Models
      BY <2>1, Fields DEF Publication, Offers
    <2> HIDE DEF offered, state, next
    <2>4. CASE call' = [call EXCEPT ![c] = Idle]
      BY <1>i, <2>2, <2>4, NotWriting
    <2>5. ASSUME NEW n, call' = [call EXCEPT ![c] = Noting(state, n)] PROVE Merging'
      <3>1. Noting(state, n).at # "models"
        BY DEF Noting, Storing
      <3> QED BY <2>2, <2>5, <3>1, NotWriting
    <2>6. CASE call' = [call EXCEPT ![c] = Writing(Merged(offered), revision, state, next)]
      <3>1. /\ call'[c] = Writing(Merged(offered), revision, state, next)
            /\ \A d \in Calls : d # c => call'[d] = call[d]
        BY <2>6, OtherCalls
      <3>2. call'[c].merged = Merged(offered) /\ call'[c].revision = revision
        BY <3>1 DEF Writing
      <3>3. revision \in Nat /\ revision <= revision
        BY DEF TypeOK
      <3>4. \A m \in Models : Merged(offered)[m] # held[m] =>
               held[m] = "none" /\ Merged(offered)[m] = "adoption"
        BY <2>3, MergedType
      <3>5. ASSUME NEW d \in Calls, call'[d].at = "models"
            PROVE  /\ call'[d].revision <= revision'
                   /\ call'[d].revision = revision' =>
                        \A m \in Models : call'[d].merged[m] # held'[m] =>
                            held'[m] = "none" /\ call'[d].merged[m] = "adoption"
        <4>1. CASE d = c
          BY <2>2, <3>2, <3>3, <3>4, <4>1
        <4>2. CASE d # c
          BY <2>2, <3>1, <3>5, <4>2 DEF Merging
        <4> QED BY <4>1, <4>2
      <3> QED BY <3>5 DEF Merging
    <2> QED BY <2>1, <2>4, <2>5, <2>6
  <1>7. ASSUME NEW c \in Calls, ModelsWritten(c) PROVE Merging'
    <2>1. CASE Conflict(c)
      BY <1>7, <1>i, <2>1, NotWriting DEF ModelsWritten
    <2>2. CASE ~Conflict(c)
      <3>1. revision' = revision + 1 /\ revision \in Nat
        BY <1>7, <2>2 DEF ModelsWritten, TypeOK
      <3>2. call' = [call EXCEPT ![c] = Noting(call[c].base, call[c].next)]
        BY <1>7, <2>2 DEF ModelsWritten, Noting, Storing
      <3>3. \A d \in Calls : call'[d].at = "models" => call[d].at = "models" /\ call'[d] = call[d]
        BY <3>2, OtherCalls DEF Noting, Storing
      <3>4. \A d \in Calls : call[d].at = "models" =>
                call[d].revision \in Nat /\ call[d].revision <= revision
        BY Fields DEF Merging
      <3>5. \A d \in Calls : call'[d].at = "models" =>
                call'[d].revision <= revision' /\ call'[d].revision # revision'
        BY <3>1, <3>3, <3>4
      <3> QED BY <3>5 DEF Merging
    <2> QED BY <2>1, <2>2
  <1>8. ASSUME NEW c \in Calls, RecordWritten(c) PROVE Merging'
    <2>1. \E v : v.at # "models" /\ call' = [call EXCEPT ![c] = v]
      <3>1. /\ [at |-> "fetch", state |-> call[c].next].at # "models"
            /\ [at |-> "token", sharing |-> TRUE].at # "models"
        OBVIOUS
      <3>2. \/ call' = [call EXCEPT ![c] = [at |-> "fetch", state |-> call[c].next]]
            \/ call' = [call EXCEPT ![c] = [at |-> "token", sharing |-> TRUE]]
            \/ call' = [call EXCEPT ![c] = Idle]
        BY <1>8 DEF RecordWritten
      <3> QED BY <1>i, <3>1, <3>2
    <2> QED BY <1>8, <2>1, NotWriting DEF RecordWritten
  <1>9. ASSUME NEW c \in Calls, UpdateFails(c) PROVE Merging'
    BY <1>9, <1>i, NotWriting DEF UpdateFails
  <1>10. ASSUME NEW c \in Calls, NEW s, NEW t, Stores(c, s, t) PROVE Merging'
    BY <1>10, NotWriting DEF Stores, Begins
  <1>11. ASSUME NEW c \in Calls, Detach(c) \/ ResumeFollowing(c) \/ SetPrivateModels(c)
         PROVE  Merging'
    BY <1>10, <1>11 DEF Detach, ResumeFollowing, SetPrivateModels
  <1>12. ASSUME NEW c \in Calls, Publish(c) PROVE Merging'
    BY <1>12, NotWriting DEF Publish, Begins
  <1>13. ASSUME NEW c \in Calls, Collect(c) PROVE Merging'
    BY <1>13, NotWriting DEF Collect
  <1>14. ASSUME NEW c \in Calls, Put(c) PROVE Merging'
    BY <1>14, <1>i, NotWriting DEF Put
  <1>15. ASSUME NEW c \in Calls, PutFails(c) PROVE Merging'
    BY <1>15, <1>i, NotWriting DEF PutFails
  <1>16. CASE Restart
    BY <1>16 DEF Restart, Merging, Idle
  <1>17. CASE UNCHANGED vars
    BY <1>17 DEF vars, Merging
  <1> QED
    BY <1>1, <1>2, <1>3, <1>4, <1>5, <1>6, <1>7, <1>8, <1>9, <1>11, <1>12, <1>13, <1>14, <1>15,
       <1>16, <1>17 DEF Next, Proceeds

LEMMA OwnStep ==
  ASSUME TypeOK, Merging, [Next]_vars
  PROVE  ~(\E m \in Models : Edit(m)) =>
            \A m \in Models :
              held'[m] # held[m] =>
                \/ \E c \in Calls : Unguarded(c) /\ ModelsWritten(c)
                \/ /\ held[m] = "none" /\ held'[m] = "adoption"
                   /\ \E c \in Calls :
                        call[c].at = "models" /\ call[c].revision = revision
  <1> SUFFICES ASSUME ~(\E m \in Models : Edit(m)), NEW m \in Models, held'[m] # held[m],
                      ~(\E c \in Calls : Unguarded(c) /\ ModelsWritten(c))
               PROVE  /\ held[m] = "none" /\ held'[m] = "adoption"
                      /\ \E c \in Calls : call[c].at = "models" /\ call[c].revision = revision
    OBVIOUS
  <1>1. \E c \in Calls : ModelsWritten(c) /\ ~Conflict(c)
    <2>1. held' # held
      OBVIOUS
    <2>2. \A c \in Calls : ~(Detach(c) \/ ResumeFollowing(c) \/ SetPrivateModels(c))
      BY <2>1 DEF Detach, ResumeFollowing, SetPrivateModels, Stores
    <2>3. \A c \in Calls : ModelsWritten(c) => ~Conflict(c)
      BY <2>1 DEF ModelsWritten
    <2> QED BY <2>1, <2>2, <2>3
         DEF Next, Proceeds, vars, OthersPublish, Adopt, Fetched, Compare, RecordWritten, Collect,
             Put, Publish, FetchFails, UpdateFails, PutFails, Restart
  <1>2. PICK c \in Calls : ModelsWritten(c) /\ ~Conflict(c)
    BY <1>1
  <1>3. call[c].at = "models" /\ held' = call[c].merged
    BY <1>2 DEF ModelsWritten
  <1>4. call[c].revision = revision
    BY <1>2, <1>3 DEF Conflict, Unguarded
  <1> QED BY <1>3, <1>4 DEF Merging

(* A step that is not the user's changes no entry the workspace has and      *)
(* gives back none that was removed after the read, but for a write that was *)
(* read from settings without a models section (model-settings.ts:132, 191). *)
THEOREM SyncOwnIsKept == Spec => OwnIsKept
  <1>1. Init => TypeOK /\ Merging
    BY TypeInit, MergingInit
  <1>2. TypeOK /\ Merging /\ [Next]_vars => (TypeOK /\ Merging)'
    BY TypeNext, MergingNext
  <1> DEFINE Kept ==
        ~(\E m \in Models : Edit(m)) =>
            \A m \in Models :
              held'[m] # held[m] =>
                \/ \E c \in Calls : Unguarded(c) /\ ModelsWritten(c)
                \/ /\ held[m] = "none" /\ held'[m] = "adoption"
                   /\ \E c \in Calls :
                        call[c].at = "models" /\ call[c].revision = revision
  <1>3. TypeOK /\ Merging /\ [Next]_vars => Kept
    BY OwnStep
  <1>4. OwnIsKept <=> [][Kept]_vars
    BY DEF OwnIsKept
  <1> HIDE DEF Kept
  <1>5. Spec => [][Kept]_vars
    BY <1>1, <1>2, <1>3, PTL DEF Spec
  <1> QED BY <1>4, <1>5

-----------------------------------------------------------------------------
(* The user's choices *)

(* The only call under way goes on or ends. *)
LEMMA Single ==
  ASSUME TypeOK, Alone, NEW c \in Calls, call[c] # Idle, NEW v, call' = [call EXCEPT ![c] = v]
  PROVE  call'[c] = v /\ \A d \in Calls : d # c => call[d] = Idle /\ call'[d] = Idle
  BY OtherCalls DEF Alone

(* A call that overtakes none is the only one under way. *)
LEMMA Beginning ==
  ASSUME TypeOK, NEW c \in Calls, NEW v, Begins(c, v), "overlap" \notin disturbed'
  PROVE  /\ "overlap" \notin disturbed /\ ("stale" \in disturbed' => "stale" \in disturbed)
         /\ call'[c] = v /\ \A d \in Calls : call[d] = Idle /\ (d # c => call'[d] = Idle)
  <1>1. UnderWay = {} /\ disturbed' = disturbed /\ "overlap" \notin disturbed
    BY DEF Begins
  <1>2. \A d \in Calls : call[d] = Idle
    BY <1>1 DEF UnderWay
  <1>3. call'[c] = v /\ \A d \in Calls : d # c => call'[d] = call[d]
    BY OtherCalls DEF Begins
  <1> QED BY <1>1, <1>2, <1>3

LEMMA BasedStep ==
  ASSUME TypeOK, Basing, NEW c \in Calls, NEW v, Based(v), call' = [call EXCEPT ![c] = v]
  PROVE  Basing'
  BY OtherCalls DEF Basing

LEMMA BasingInit == Init => Basing
  BY DEF Init, Basing, Based, Idle

LEMMA BasingNext == TypeOK /\ Basing /\ [Next]_vars => Basing'
  <1> SUFFICES ASSUME TypeOK, Basing, [Next]_vars PROVE Basing'
    OBVIOUS
  <1>r. record \in Record
    BY DEF TypeOK
  <1>1. ASSUME NEW c \in Calls, NEW v, v.at \notin {"models", "record"},
               call' = [call EXCEPT ![c] = v]
        PROVE  Basing'
    <2>1. Based(v)
      BY <1>1 DEF Based
    <2> QED BY <1>1, <2>1, BasedStep
  <1>i. Idle.at \notin {"models", "record"}
    BY DEF Idle
  <1>2. ASSUME UNCHANGED call PROVE Basing'
    BY <1>2 DEF Basing
  <1>3. ASSUME NEW c \in Calls, Adopt(c) PROVE Basing'
    <2>1. Adopting.at \notin {"models", "record"}
      BY <1>i DEF Adopting
    <2> QED BY <1>1, <1>3, <2>1 DEF Adopt, Begins
  <1>4. ASSUME NEW c \in Calls, Fetched(c) PROVE Basing'
    BY <1>1, <1>4 DEF Fetched
  <1>5. ASSUME NEW c \in Calls, FetchFails(c) \/ PutFails(c) \/ Put(c) \/ UpdateFails(c)
        PROVE  Basing'
    BY <1>1, <1>i, <1>5 DEF FetchFails, PutFails, Put, UpdateFails
  <1>6. ASSUME NEW c \in Calls, Compare(c) PROVE Basing'
    <2> DEFINE offered == Offers(call[c].publication)
               state == call[c].state
    <2>1. /\ call[c].at = "answered"
          /\ \/ call' = [call EXCEPT ![c] = Idle]
             \/ call' = [call EXCEPT ![c] = Noting(state, [state EXCEPT !.detached = TRUE])]
             \/ call' = [call EXCEPT ![c] = Noting(state, Noted(state, offered))]
             \/ call' = [call EXCEPT ![c] = Writing(Merged(offered), revision, state,
                                                    Noted(state, offered))]
      BY <1>6, Comparing
    <2>2. offered \in SUBSET Models /\ state \in Record
      BY <2>1, Fields DEF Publication, Offers
    <2> HIDE DEF offered, state
    <2>3. /\ Keeps(state, [state EXCEPT !.detached = TRUE])
          /\ Keeps(state, Noted(state, offered))
      BY <2>2, NotedType DEF Keeps, Record
    <2>4. /\ Based(Noting(state, [state EXCEPT !.detached = TRUE]))
          /\ Based(Noting(state, Noted(state, offered)))
          /\ Based(Writing(Merged(offered), revision, state, Noted(state, offered)))
      BY <2>3 DEF Based, Noting, Storing, Writing
    <2> QED BY <1>1, <1>i, <2>1, <2>4, BasedStep
  <1>7. ASSUME NEW c \in Calls, ModelsWritten(c) PROVE Basing'
    <2>1. CASE Conflict(c)
      BY <1>1, <1>7, <1>i, <2>1 DEF ModelsWritten
    <2>2. CASE ~Conflict(c)
      <3>1. call' = [call EXCEPT ![c] = Noting(call[c].base, call[c].next)]
        BY <1>7, <2>2 DEF ModelsWritten, Noting, Storing
      <3>2. Based(Noting(call[c].base, call[c].next))
        BY <1>7 DEF ModelsWritten, Basing, Based, Noting, Storing
      <3> QED BY <3>1, <3>2, BasedStep
    <2> QED BY <2>1, <2>2
  <1>8. ASSUME NEW c \in Calls, RecordWritten(c) PROVE Basing'
    <2>1. PICK v : v.at \notin {"models", "record"} /\ call' = [call EXCEPT ![c] = v]
      <3>1. /\ [at |-> "fetch", state |-> call[c].next].at \notin {"models", "record"}
            /\ [at |-> "token", sharing |-> TRUE].at \notin {"models", "record"}
        OBVIOUS
      <3>2. \/ call' = [call EXCEPT ![c] = [at |-> "fetch", state |-> call[c].next]]
            \/ call' = [call EXCEPT ![c] = [at |-> "token", sharing |-> TRUE]]
            \/ call' = [call EXCEPT ![c] = Idle]
        BY <1>8 DEF RecordWritten
      <3> QED BY <1>i, <3>1, <3>2
    <2> QED BY <1>1, <2>1
  <1>9. ASSUME NEW c \in Calls, NEW s, NEW t, Stores(c, s, t), Based(Storing(record, s, t))
        PROVE  Basing'
    <2>1. call' = [call EXCEPT ![c] = Storing(record, s, t)]
      BY <1>9 DEF Stores, Begins, Storing
    <2> QED BY <1>9, <2>1, BasedStep
  <1>10. ASSUME NEW c \in Calls, Detach(c) PROVE Basing'
    <2> DEFINE s == [record EXCEPT !.detached = TRUE]
    <2>1. Keeps(record, s) /\ s.detached
      BY <1>r DEF Record, Keeps
    <2>2. Stores(c, s, "detached")
      BY <1>10 DEF Detach
    <2> HIDE DEF s
    <2>3. Based(Storing(record, s, "detached"))
      BY <2>1 DEF Based, Storing
    <2> QED BY <1>9, <2>2, <2>3
  <1>11. ASSUME NEW c \in Calls, ResumeFollowing(c) PROVE Basing'
    <2> DEFINE s == [record EXCEPT !.detached = FALSE]
    <2>1. s.private = record.private
      BY <1>r DEF Record
    <2>2. Stores(c, s, "adopt")
      BY <1>11 DEF ResumeFollowing
    <2> HIDE DEF s
    <2>3. Based(Storing(record, s, "adopt"))
      BY <2>1 DEF Based, Storing
    <2> QED BY <1>9, <2>2, <2>3
  <1>12. ASSUME NEW c \in Calls, SetPrivateModels(c) PROVE Basing'
    <2>1. PICK ids \in Private, t \in {"publish", "stored"} :
             Stores(c, [record EXCEPT !.private = ids], t)
      BY <1>12 DEF SetPrivateModels
    <2> DEFINE s == [record EXCEPT !.private = ids]
    <2>2. s.detached = record.detached /\ Stores(c, s, t)
      BY <1>r, <2>1 DEF Record
    <2> HIDE DEF s
    <2>3. Based(Storing(record, s, t))
      BY <2>2 DEF Based, Storing
    <2> QED BY <1>9, <2>2, <2>3
  <1>13. ASSUME NEW c \in Calls, Publish(c) PROVE Basing'
    BY <1>1, <1>13 DEF Publish, Begins
  <1>14. ASSUME NEW c \in Calls, Collect(c) PROVE Basing'
    BY <1>1, <1>14 DEF Collect
  <1>15. CASE Restart
    BY <1>15 DEF Restart, Basing, Based, Idle
  <1>16. ASSUME NEW m \in Models, Edit(m) PROVE Basing'
    BY <1>2, <1>16 DEF Edit
  <1>17. ASSUME NEW p \in Others, OthersPublish(p) PROVE Basing'
    BY <1>2, <1>17 DEF OthersPublish
  <1>18. CASE UNCHANGED vars
    BY <1>2, <1>18 DEF vars
  <1> QED
    BY <1>3, <1>4, <1>5, <1>6, <1>7, <1>8, <1>10, <1>11, <1>12, <1>13, <1>14, <1>15, <1>16,
       <1>17, <1>18 DEF Next, Proceeds

LEMMA ChoicesInit == Init => Choices /\ Undisturbed
  BY DEF Init, Choices, Standing, Undisturbed, Reading, Alone, Reads, Idle

(* A record written over the one it was read from leaves the choices in it.  *)
LEMMA RecordStands ==
  ASSUME TypeOK, Basing, Standing, NEW c \in Calls, RecordWritten(c), call[c].base = record
  PROVE  Standing'
  <1>1. /\ record' = call[c].next /\ call[c].at = "record" /\ call[c].then \in Then
        /\ Based(call[c])
    BY Fields DEF RecordWritten, Basing
  <1>2. wanted \in [detached : BOOLEAN, private : SUBSET Ids]
    BY DEF TypeOK
  <1>3. CASE call[c].then = "done"
    <2>1. wanted' = wanted
      BY <1>3 DEF RecordWritten
    <2> QED BY <1>1, <1>3, <2>1 DEF Based, Keeps, Standing
  <1>4. CASE call[c].then = "detached"
    <2>1. wanted' = [wanted EXCEPT !.detached = TRUE]
      BY <1>4 DEF RecordWritten
    <2>2. wanted'.private = wanted.private
      BY <1>2, <2>1
    <2> QED BY <1>1, <1>4, <2>2 DEF Based, Keeps, Standing
  <1>5. CASE call[c].then = "adopt"
    <2>1. wanted' = [wanted EXCEPT !.detached = FALSE]
      BY <1>5 DEF RecordWritten
    <2>2. wanted'.private = wanted.private /\ wanted'.detached = FALSE
      BY <1>2, <2>1
    <2> QED BY <1>1, <1>5, <2>2 DEF Based, Standing
  <1>6. CASE call[c].then \in {"publish", "stored"}
    <2>1. wanted' = [wanted EXCEPT !.private = call[c].next.private]
      BY <1>6 DEF RecordWritten
    <2>2. wanted'.private = call[c].next.private /\ wanted'.detached = wanted.detached
      BY <1>2, <2>1
    <2> QED BY <1>1, <1>6, <2>2 DEF Based, Standing
  <1> QED BY <1>1, <1>3, <1>4, <1>5, <1>6 DEF Then

LEMMA ChoicesNext == TypeOK /\ Basing /\ Choices /\ [Next]_vars => Choices'
  <1> SUFFICES ASSUME TypeOK, Basing, Choices, [Next]_vars, "stale" \notin disturbed'
               PROVE  Standing'
    BY DEF Choices
  <1>1. CASE \E c \in Calls : RecordWritten(c)
    <2>1. PICK c \in Calls : RecordWritten(c)
      BY <1>1
    <2>2. "stale" \notin disturbed /\ call[c].base = record
      BY <2>1 DEF RecordWritten
    <2> QED BY <2>1, <2>2, RecordStands DEF Choices
  <1>2. CASE ~\E c \in Calls : RecordWritten(c)
    <2>1. \A c \in Calls : \A s, t : Stores(c, s, t) =>
            UNCHANGED <<record, wanted>> /\ disturbed \subseteq disturbed'
      BY DEF Stores, Begins
    <2>2. \A c \in Calls : Detach(c) \/ ResumeFollowing(c) \/ SetPrivateModels(c) =>
            UNCHANGED <<record, wanted>> /\ disturbed \subseteq disturbed'
      BY <2>1 DEF Detach, ResumeFollowing, SetPrivateModels
    <2>3. UNCHANGED <<record, wanted>> /\ disturbed \subseteq disturbed'
      BY <1>2, <2>2 DEF Next, Proceeds, vars, Edit, OthersPublish, Adopt, Begins, Fetched, Compare,
         ModelsWritten, Collect, Put, Publish, FetchFails, UpdateFails, PutFails, Restart
    <2> QED BY <2>3 DEF Choices, Standing
  <1> QED BY <1>1, <1>2

LEMMA ReadingFrom ==
  ASSUME NEW c \in Calls, \A d \in Calls : d # c => call'[d] = Idle, Reads(c)',
         "stale" \notin disturbed'
  PROVE  Reading'
  <1>1. Alone'
    BY DEF Alone
  <1>2. \A d \in Calls : Reads(d)'
    BY DEF Reads, Idle
  <1> QED BY <1>1, <1>2 DEF Reading

LEMMA UndisturbedNext ==
  TypeOK /\ Choices /\ Undisturbed /\ [Next]_vars => Undisturbed'
  <1> SUFFICES ASSUME TypeOK, Choices, Undisturbed, [Next]_vars, "overlap" \notin disturbed'
               PROVE  Reading'
    BY DEF Undisturbed
  <1> USE DEF serverVars
  <1>i. Idle.at = "idle"
    BY DEF Idle
  <1>1. ASSUME UNCHANGED <<call, record, wanted>>, "overlap" \notin disturbed,
               "stale" \in disturbed' => "stale" \in disturbed
        PROVE  Reading'
    <2>1. Reading
      BY <1>1 DEF Undisturbed
    <2> QED BY <1>1, <2>1 DEF Reading, Alone, Reads
  <1>2. ASSUME NEW m \in Models, Edit(m) PROVE Reading'
    BY <1>1, <1>2 DEF Edit
  <1>3. ASSUME NEW p \in Others, OthersPublish(p) PROVE Reading'
    BY <1>1, <1>3 DEF OthersPublish
  (* a call begins *)
  <1>4. ASSUME NEW c \in Calls, NEW v, Begins(c, v), UNCHANGED <<record, wanted>>,
               \/ v.at = "token"
               \/ v.at = "fetch" /\ v.state = record
               \/ v.at = "record" /\ v.base = record
        PROVE  Reading'
    <2>1. /\ "overlap" \notin disturbed /\ ("stale" \in disturbed' => "stale" \in disturbed)
          /\ call'[c] = v /\ \A d \in Calls : call[d] = Idle /\ (d # c => call'[d] = Idle)
      BY <1>4, Beginning
    <2>2. "stale" \notin disturbed'
      BY <2>1 DEF Undisturbed, Reading
    <2>3. Reads(c)'
      BY <1>4, <2>1 DEF Reads
    <2> QED BY <2>1, <2>2, <2>3, ReadingFrom
  <1>5. ASSUME NEW c \in Calls, Adopt(c) PROVE Reading'
    BY <1>4, <1>5 DEF Adopt, Adopting
  <1>6. ASSUME NEW c \in Calls, Publish(c) PROVE Reading'
    <2>1. PICK sharing \in BOOLEAN : Begins(c, [at |-> "token", sharing |-> sharing])
      BY <1>6 DEF Publish
    <2> QED BY <1>4, <1>6, <2>1 DEF Publish
  <1>7. ASSUME NEW c \in Calls, NEW s, NEW t, Stores(c, s, t) PROVE Reading'
    <2> DEFINE v == [at |-> "record", base |-> record, next |-> s, then |-> t]
    <2>1. Begins(c, v) /\ UNCHANGED <<record, wanted>>
      BY <1>7 DEF Stores
    <2>2. v.at = "record" /\ v.base = record
      OBVIOUS
    <2> HIDE DEF v
    <2> QED BY <1>4, <2>1, <2>2
  <1>8. ASSUME NEW c \in Calls, Detach(c) \/ ResumeFollowing(c) \/ SetPrivateModels(c)
        PROVE  Reading'
    BY <1>7, <1>8 DEF Detach, ResumeFollowing, SetPrivateModels
  (* the call under way goes on *)
  <1>9. ASSUME NEW c \in Calls, NEW v, call[c] # Idle, call' = [call EXCEPT ![c] = v],
               UNCHANGED <<record, wanted>>, "overlap" \notin disturbed,
               "stale" \in disturbed' => "stale" \in disturbed,
               Reading /\ Standing =>
                  \/ v.at \in {"idle", "token"}
                  \/ v.at = "answered" /\ v.state = record
                  \/ v.at \in {"models", "record"} /\ v.base = record
                  \/ v.at = "put" /\ v.publication.shared \cap wanted.private = {}
        PROVE  Reading'
    <2>1. Reading
      BY <1>9 DEF Undisturbed
    <2>2. Standing
      BY <2>1 DEF Choices, Reading
    <2>3. call'[c] = v /\ \A d \in Calls : d # c => call'[d] = Idle
      BY <1>9, <2>1, Single DEF Reading
    <2>4. Reads(c)'
      BY <1>9, <2>1, <2>2, <2>3 DEF Reads
    <2> QED BY <1>9, <2>1, <2>3, <2>4, ReadingFrom DEF Reading
  <1>10. ASSUME NEW c \in Calls, Fetched(c) PROVE Reading'
    <2> DEFINE v == [at |-> "answered", state |-> call[c].state, publication |-> published]
    <2>1. /\ call[c].at = "fetch" /\ call[c] # Idle /\ call' = [call EXCEPT ![c] = v]
          /\ UNCHANGED <<record, wanted, disturbed>>
      BY <1>10, <1>i DEF Fetched
    <2>2. Reading => v.at = "answered" /\ v.state = record
      BY <2>1 DEF Reading, Reads
    <2> HIDE DEF v
    <2> QED BY <1>9, <2>1, <2>2
  <1>11. ASSUME NEW c \in Calls, FetchFails(c) \/ PutFails(c) \/ Put(c) PROVE Reading'
    <2>1. /\ call[c] # Idle /\ call' = [call EXCEPT ![c] = Idle]
          /\ UNCHANGED <<record, wanted, disturbed>>
      BY <1>11, <1>i DEF FetchFails, PutFails, Put
    <2> QED BY <1>9, <1>i, <2>1
  <1>12. ASSUME NEW c \in Calls, Compare(c) PROVE Reading'
    <2> DEFINE offered == Offers(call[c].publication)
               state == call[c].state
    <2>1. /\ call[c].at = "answered" /\ call[c] # Idle
          /\ \/ call' = [call EXCEPT ![c] = Idle]
             \/ call' = [call EXCEPT ![c] = Noting(state, [state EXCEPT !.detached = TRUE])]
             \/ call' = [call EXCEPT ![c] = Noting(state, Noted(state, offered))]
             \/ call' = [call EXCEPT ![c] = Writing(Merged(offered), revision, state,
                                                    Noted(state, offered))]
      BY <1>12, <1>i, Comparing
    <2>2. UNCHANGED <<record, wanted, disturbed>>
      BY <1>12 DEF Compare
    <2>3. Reading => state = record
      BY <2>1 DEF Reading, Reads
    <2> HIDE DEF state, offered
    <2>4. PICK v : /\ call' = [call EXCEPT ![c] = v]
                   /\ v.at = "idle" \/ (v.at \in {"models", "record"} /\ v.base = state)
      <3>1. \A n : Noting(state, n).at = "record" /\ Noting(state, n).base = state
        BY DEF Noting, Storing
      <3>2. \A m, n : /\ Writing(m, revision, state, n).at = "models"
                      /\ Writing(m, revision, state, n).base = state
        BY DEF Writing
      <3> QED BY <1>i, <2>1, <3>1, <3>2
    <2> QED BY <1>9, <2>1, <2>2, <2>3, <2>4
  <1>13. ASSUME NEW c \in Calls, ModelsWritten(c) PROVE Reading'
    <2>1. call[c].at = "models" /\ call[c] # Idle /\ UNCHANGED <<record, wanted, disturbed>>
      BY <1>13, <1>i DEF ModelsWritten
    <2>2. CASE Conflict(c)
      BY <1>9, <1>13, <1>i, <2>1, <2>2 DEF ModelsWritten
    <2>3. CASE ~Conflict(c)
      <3> DEFINE v == Noting(call[c].base, call[c].next)
      <3>1. call' = [call EXCEPT ![c] = v]
        BY <1>13, <2>3 DEF ModelsWritten, Noting, Storing
      <3>2. v.at = "record" /\ v.base = call[c].base
        BY DEF Noting, Storing
      <3>3. Reading => v.base = record
        BY <2>1, <3>2 DEF Reading, Reads
      <3> HIDE DEF v
      <3> QED BY <1>9, <2>1, <3>1, <3>2, <3>3
    <2> QED BY <2>2, <2>3
  <1>14. ASSUME NEW c \in Calls, RecordWritten(c) PROVE Reading'
    <2>1. call[c].at = "record" /\ call[c] # Idle /\ "overlap" \notin disturbed
      BY <1>14, <1>i DEF RecordWritten
    <2>2. Reading
      BY <2>1 DEF Undisturbed
    <2>3. call[c].base = record
      BY <2>1, <2>2 DEF Reading, Reads
    <2>4. "stale" \notin disturbed'
      BY <1>14, <2>2, <2>3 DEF RecordWritten, Reading
    <2>5. \/ call' = [call EXCEPT ![c] = Idle]
          \/ call' = [call EXCEPT ![c] = [at |-> "fetch", state |-> call[c].next]]
          \/ call' = [call EXCEPT ![c] = [at |-> "token", sharing |-> TRUE]]
      BY <1>14 DEF RecordWritten
    <2>6. record' = call[c].next
      BY <1>14 DEF RecordWritten
    <2>7. PICK v : /\ call' = [call EXCEPT ![c] = v]
                   /\ v.at \in {"idle", "token"} \/ (v.at = "fetch" /\ v.state = record')
      <3>1. /\ [at |-> "fetch", state |-> call[c].next].at = "fetch"
            /\ [at |-> "fetch", state |-> call[c].next].state = record'
            /\ [at |-> "token", sharing |-> TRUE].at = "token"
        BY <2>6
      <3> QED BY <1>i, <2>5, <3>1
    <2>8. call'[c] = v /\ \A d \in Calls : d # c => call'[d] = Idle
      BY <2>1, <2>2, <2>7, Single DEF Reading
    <2>9. Reads(c)'
      BY <2>7, <2>8 DEF Reads
    <2> QED BY <2>4, <2>8, <2>9, ReadingFrom
  <1>15. ASSUME NEW c \in Calls, UpdateFails(c) PROVE Reading'
    <2>1. /\ call' = [call EXCEPT ![c] = Idle] /\ UNCHANGED <<record, wanted>>
          /\ "overlap" \notin disturbed /\ ("stale" \in disturbed' => "stale" \in disturbed)
      BY <1>15 DEF UpdateFails
    <2>2. CASE call[c] = Idle
      <3>1. \A d \in Calls : call'[d] = call[d]
        BY <2>1, <2>2, OtherCalls
      <3>2. Reading
        BY <2>1 DEF Undisturbed
      <3> QED BY <2>1, <3>1, <3>2 DEF Reading, Alone, Reads
    <2>3. CASE call[c] # Idle
      BY <1>9, <1>i, <2>1, <2>3
    <2> QED BY <2>2, <2>3
  <1>16. ASSUME NEW c \in Calls, Collect(c) PROVE Reading'
    <2> DEFINE v == [at |-> "put", publication |-> [sharing |-> call[c].sharing,
                                                    providers |-> Holding,
                                                    shared |-> OfferedModelIds]]
    <2>1. /\ call[c] # Idle /\ call' = [call EXCEPT ![c] = v]
          /\ UNCHANGED <<record, wanted, disturbed>>
      BY <1>16, <1>i DEF Collect
    <2>2. Standing => v.at = "put" /\ v.publication.shared \cap wanted.private = {}
      BY DEF Standing, OfferedModelIds
    <2> HIDE DEF v
    <2> QED BY <1>9, <2>1, <2>2
  <1>17. CASE Restart
    <2>1. /\ UNCHANGED <<record, wanted>> /\ "overlap" \notin disturbed
          /\ "stale" \in disturbed' => "stale" \in disturbed
          /\ \A d \in Calls : call'[d] = Idle
      BY <1>17 DEF Restart
    <2>2. Reading
      BY <2>1 DEF Undisturbed
    <2> QED BY <2>1, <2>2 DEF Reading, Alone, Reads, Idle
  <1>18. CASE UNCHANGED vars
    BY <1>1, <1>18 DEF vars
  <1> QED
    BY <1>2, <1>3, <1>5, <1>6, <1>8, <1>10, <1>11, <1>12, <1>13, <1>14, <1>15, <1>16,
       <1>17, <1>18 DEF Next, Proceeds

(* A detach lasts and the models kept private are those chosen last, until a *)
(* call writes over a record that changed since it read it; and while no     *)
(* call is overtaken none of them is offered by a publication on its way     *)
(* (model-sync.ts:283-284).                                                  *)
THEOREM SyncChoicesStick == Spec => []ChoicesStick
  <1>1. Init => TypeOK /\ Basing /\ Choices /\ Undisturbed
    BY TypeInit, BasingInit, ChoicesInit
  <1>2. TypeOK /\ Basing /\ Choices /\ Undisturbed /\ [Next]_vars
          => (TypeOK /\ Basing /\ Choices /\ Undisturbed)'
    BY TypeNext, BasingNext, ChoicesNext, UndisturbedNext
  <1>3. Choices /\ Undisturbed => ChoicesStick
    BY DEF Choices, Standing, Undisturbed, Reading, Reads, ChoicesStick
  <1> QED BY <1>1, <1>2, <1>3, PTL DEF Spec

-----------------------------------------------------------------------------
(* A follower *)

LEMMA FollowingFrom ==
  ASSUME NEW c \in Calls, \A d \in Calls : d # c => call'[d] = Idle, Follows(c)',
         record'.detached = wanted'.detached, record'.adopted \subseteq Offered',
         ~NotingCall(c)' => IdsOf(Holding)' \subseteq record'.adopted
  PROVE  Following'
  <1>1. \A d \in Calls : d # c => Follows(d)' /\ ~NotingCall(d)'
    BY DEF Follows, NotingCall, Idle
  <1> QED BY <1>1 DEF Following

LEMMA FollowingInit == Init => Follower
  <1> SUFFICES ASSUME Init, disturbed = {} PROVE Following
    BY DEF Follower
  <1>1. Initial = {} /\ Holding = {}
    BY DEF Init, Holding
  <1>2. IdsOf(Holding) = {}
    BY <1>1 DEF IdsOf
  <1>3. \A c \in Calls : call[c] = Idle
    BY DEF Init
  <1>4. \A c \in Calls : Follows(c) /\ ~NotingCall(c)
    BY <1>3 DEF Follows, NotingCall, Idle
  <1> QED BY <1>2, <1>4 DEF Init, Following

LEMMA StoresFollowing ==
  ASSUME TypeOK, Follower, NEW c \in Calls, NEW s \in Record, NEW t \in Then \ {"done"},
         Stores(c, s, t), disturbed' = {}, s.adopted = record.adopted,
         /\ t = "detached" => s.detached = TRUE
         /\ t = "adopt" => s.detached = FALSE
         /\ t \in {"publish", "stored"} => s.detached = record.detached
  PROVE  Following'
  <1> DEFINE v == [at |-> "record", base |-> record, next |-> s, then |-> t]
  <1>1. Begins(c, v) /\ UNCHANGED <<record, wanted, held, published>>
    BY DEF Stores, serverVars
  <1>2. call'[c] = v /\ \A d \in Calls : call[d] = Idle /\ (d # c => call'[d] = Idle)
    BY <1>1, Beginning
  <1>3. disturbed = {}
    BY <1>1 DEF Begins
  <1>4. Following /\ \A d \in Calls : ~NotingCall(d)
    BY <1>2, <1>3 DEF Follower, NotingCall, Idle
  <1>5. /\ call'[c].at = "record" /\ call'[c].then = t /\ call'[c].next = s
    BY <1>2
  <1> HIDE DEF v
  <1>6. Follows(c)'
    BY <1>1, <1>4, <1>5 DEF Follows, NotingCall, Following
  <1>7. IdsOf(Holding)' = IdsOf(Holding) /\ Offered' = Offered
    BY <1>1 DEF Holding, IdsOf, Offered
  <1> QED BY <1>1, <1>2, <1>4, <1>6, <1>7, FollowingFrom DEF Following

LEMMA RecordFollowing ==
  ASSUME TypeOK, Following, Reading, NEW c \in Calls, RecordWritten(c)
  PROVE  Following'
  <1>0. /\ call[c].at = "record" /\ call[c] # Idle /\ record' = call[c].next
        /\ call[c].next \in Record /\ call[c].then \in Then
        /\ UNCHANGED <<published, held>>
    BY Fields DEF RecordWritten, Idle, serverVars
  <1>1. Follows(c) /\ Alone /\ record.adopted \subseteq Offered
    BY DEF Following, Reading
  <1>2. PICK v : /\ call' = [call EXCEPT ![c] = v]
                 /\ v.at \in {"idle", "fetch", "token"}
    <2>1. \/ call' = [call EXCEPT ![c] = Idle]
          \/ call' = [call EXCEPT ![c] = [at |-> "fetch", state |-> call[c].next]]
          \/ call' = [call EXCEPT ![c] = [at |-> "token", sharing |-> TRUE]]
      BY DEF RecordWritten
    <2>2. /\ [at |-> "fetch", state |-> call[c].next].at = "fetch"
          /\ [at |-> "token", sharing |-> TRUE].at = "token"
          /\ Idle.at = "idle"
      BY DEF Idle
    <2> QED BY <2>1, <2>2
  <1>3. call'[c] = v /\ \A d \in Calls : d # c => call[d] = Idle /\ call'[d] = Idle
    BY <1>0, <1>1, <1>2, Single
  <1>4. Follows(c)' /\ ~NotingCall(c)'
    BY <1>2, <1>3 DEF Follows, NotingCall
  <1>5. IdsOf(Holding)' = IdsOf(Holding) /\ Offered' = Offered
    BY <1>0 DEF Holding, IdsOf, Offered
  <1>6. wanted \in [detached : BOOLEAN, private : SUBSET Ids]
    BY DEF TypeOK
  <1>7. CASE call[c].then = "done"
    <2>1. wanted' = wanted
      BY <1>7 DEF RecordWritten
    <2>2. NotingCall(c)
      BY <1>0, <1>7 DEF NotingCall
    <2> QED BY <1>0, <1>1, <1>3, <1>4, <1>5, <2>1, <2>2, FollowingFrom DEF Follows
  <1>8. CASE call[c].then # "done"
    <2>1. \A d \in Calls : ~NotingCall(d)
      BY <1>3, <1>8 DEF NotingCall, Idle
    <2>2. IdsOf(Holding) \subseteq record.adopted
      BY <2>1 DEF Following
    <2>3. record'.adopted = record.adopted
      BY <1>0, <1>1, <1>8 DEF Follows
    <2>4. record'.detached = wanted'.detached
      <3>1. CASE call[c].then = "detached"
        <4>1. wanted' = [wanted EXCEPT !.detached = TRUE]
          BY <3>1 DEF RecordWritten
        <4>2. wanted'.detached = TRUE
          BY <1>6, <4>1
        <4>3. record'.detached = TRUE
          BY <1>0, <1>1, <1>8, <3>1 DEF Follows
        <4> QED BY <4>2, <4>3
      <3>2. CASE call[c].then = "adopt"
        <4>1. wanted' = [wanted EXCEPT !.detached = FALSE]
          BY <3>2 DEF RecordWritten
        <4>2. wanted'.detached = FALSE
          BY <1>6, <4>1
        <4>3. record'.detached = FALSE
          BY <1>0, <1>1, <1>8, <3>2 DEF Follows
        <4> QED BY <4>2, <4>3
      <3>3. CASE call[c].then \in {"publish", "stored"}
        <4>1. wanted' = [wanted EXCEPT !.private = call[c].next.private]
          BY <3>3 DEF RecordWritten
        <4>2. wanted'.detached = wanted.detached
          BY <1>6, <4>1
        <4>3. record'.detached = wanted.detached
          BY <1>0, <1>1, <1>8, <3>3 DEF Follows
        <4> QED BY <4>2, <4>3
      <3> QED BY <1>0, <1>8, <3>1, <3>2, <3>3 DEF Then
    <2> QED BY <1>1, <1>3, <1>4, <1>5, <2>2, <2>3, <2>4, FollowingFrom
  <1> QED BY <1>7, <1>8

LEMMA CompareFollowing ==
  ASSUME TypeOK, Following, Reading, NEW c \in Calls, Compare(c)
  PROVE  Following'
  <1> DEFINE offered == Offers(call[c].publication)
             state == call[c].state
  <1>1. /\ call[c].at = "answered"
        /\ \/ call' = [call EXCEPT ![c] = Idle]
           \/ /\ EditedSinceAdoption(state.adopted)
              /\ call' = [call EXCEPT ![c] = Noting(state, [state EXCEPT !.detached = TRUE])]
           \/ /\ Missing(offered) = {}
              /\ call' = [call EXCEPT ![c] = Noting(state, Noted(state, offered))]
           \/ call' = [call EXCEPT ![c] = Writing(Merged(offered), revision, state, Noted(state, offered))]
    BY Comparing
  <1>2. UNCHANGED <<record, wanted, published, held>>
    BY DEF Compare, serverVars
  <1>3. offered \in SUBSET Models /\ state \in Record
    BY <1>1, Fields DEF Publication, Offers
  <1>4. state = record /\ Alone /\ call[c] # Idle
    BY <1>1 DEF Reading, Reads, Idle
  <1>5. record.adopted \subseteq IdsOf(offered) /\ offered \subseteq Offers(published)
    BY <1>1 DEF Following, Follows
  <1>6. \A d \in Calls : ~NotingCall(d)
    BY <1>1, <1>4 DEF Alone, NotingCall, Idle
  <1>7. IdsOf(Holding) \subseteq record.adopted
    BY <1>6 DEF Following
  <1>8. ~EditedSinceAdoption(state.adopted)
    BY <1>4, <1>7 DEF EditedSinceAdoption
  <1> HIDE DEF offered, state
  <1>9. /\ Noted(state, offered).adopted = IdsOf(offered)
        /\ Noted(state, offered).detached = wanted.detached
    BY <1>3, <1>4, NotedType DEF Following
  <1>10. IdsOf(offered) \subseteq Offered
    BY <1>5, IdsOfMembers DEF Offered
  <1>11. IdsOf(Holding)' = IdsOf(Holding) /\ Offered' = Offered
    BY <1>2 DEF Holding, IdsOf, Offered
  <1>12. record'.detached = wanted'.detached /\ record'.adopted \subseteq Offered'
         /\ IdsOf(Holding)' \subseteq record'.adopted
    BY <1>2, <1>7, <1>11 DEF Following
  <1>13. CASE call' = [call EXCEPT ![c] = Idle]
    <2>1. call'[c] = Idle /\ \A d \in Calls : d # c => call'[d] = Idle
      BY <1>4, <1>13, Single
    <2>2. Follows(c)'
      BY <2>1 DEF Follows, NotingCall, Idle
    <2> QED BY <1>12, <2>1, <2>2, FollowingFrom
  <1>14. CASE call' = [call EXCEPT ![c] = Noting(state, Noted(state, offered))]
    <2>1. call'[c] = Noting(state, Noted(state, offered)) /\ \A d \in Calls : d # c => call'[d] = Idle
      BY <1>4, <1>14, Single
    <2>2. call'[c].at = "record" /\ call'[c].then = "done" /\ call'[c].next = Noted(state, offered)
      BY <2>1 DEF Noting, Storing
    <2>3. IdsOf(Holding) \subseteq IdsOf(offered)
      BY <1>5, <1>7
    <2>4. Follows(c)'
      BY <1>2, <1>9, <1>10, <1>11, <2>2, <2>3 DEF Follows, NotingCall
    <2> QED BY <1>12, <2>1, <2>4, FollowingFrom
  <1>15. CASE call' = [call EXCEPT ![c] = Writing(Merged(offered), revision, state, Noted(state, offered))]
    <2>1. /\ call'[c] = Writing(Merged(offered), revision, state, Noted(state, offered))
          /\ \A d \in Calls : d # c => call'[d] = Idle
      BY <1>4, <1>15, Single
    <2>2. /\ call'[c].at = "models" /\ call'[c].next = Noted(state, offered)
          /\ call'[c].merged = Merged(offered)
      BY <2>1 DEF Writing
    <2>3. ASSUME NEW m \in Models, Merged(offered)[m] # "none" PROVE m.id \in IdsOf(offered)
      <3>1. held[m] # "none" \/ m \in offered
        BY <1>3, <2>3, MergedType
      <3>2. CASE held[m] # "none"
        <4>1. m.id \in IdsOf(Holding)
          BY <3>2 DEF Holding, IdsOf
        <4> QED BY <1>5, <1>7, <4>1
      <3>3. CASE m \in offered
        BY <3>3 DEF IdsOf
      <3> QED BY <3>1, <3>2, <3>3
    <2>4. Follows(c)'
      BY <1>2, <1>9, <1>10, <1>11, <2>2, <2>3 DEF Follows, NotingCall
    <2> QED BY <1>12, <2>1, <2>4, FollowingFrom
  <1> QED BY <1>1, <1>8, <1>13, <1>14, <1>15

LEMMA FollowerNext == TypeOK /\ Undisturbed /\ Follower /\ [Next]_vars => Follower'
  <1> SUFFICES ASSUME TypeOK, Undisturbed, Follower, [Next]_vars, disturbed' = {}
               PROVE  Following'
    BY DEF Follower
  <1> USE DEF serverVars
  <1>r. record \in Record
    BY DEF TypeOK
  <1>i. Idle.at = "idle"
    BY DEF Idle
  <1>c. disturbed = {} => Following /\ Reading
    BY DEF Follower, Undisturbed
  <1>u. UNCHANGED <<held, published>> => IdsOf(Holding)' = IdsOf(Holding) /\ Offered' = Offered
    BY DEF Holding, IdsOf, Offered
  <1>1. ASSUME NEW m \in Models, Edit(m) PROVE Following'
    BY <1>1 DEF Edit
  <1>2. ASSUME NEW p \in Others, OthersPublish(p) PROVE Following'
    <2>1. /\ disturbed = {} /\ Offers(published) \subseteq Offers(published')
          /\ UNCHANGED <<call, record, wanted, held>>
      BY <1>2 DEF OthersPublish
    <2>2. Offered \subseteq Offered'
      BY <2>1, IdsOfMembers DEF Offered, IdsOf
    <2>3. IdsOf(Holding)' = IdsOf(Holding)
      BY <2>1 DEF Holding, IdsOf
    <2>4. Following
      BY <1>c, <2>1
    <2>5. \A c \in Calls : Follows(c)'
      BY <2>1, <2>2, <2>3, <2>4 DEF Following, Follows, NotingCall, IdsOf
    <2> QED BY <2>1, <2>2, <2>3, <2>4, <2>5 DEF Following, NotingCall
  <1>3. ASSUME NEW c \in Calls, NEW v, Begins(c, v), v.at \in {"fetch", "token"},
               UNCHANGED <<record, wanted, held, published>>
        PROVE  Following'
    <2>1. call'[c] = v /\ \A d \in Calls : call[d] = Idle /\ (d # c => call'[d] = Idle)
      BY <1>3, Beginning
    <2>2. disturbed = {}
      BY <1>3 DEF Begins
    <2>3. Following /\ \A d \in Calls : ~NotingCall(d)
      BY <1>c, <1>i, <2>1, <2>2 DEF NotingCall
    <2>4. Follows(c)'
      BY <1>3, <2>1 DEF Follows, NotingCall
    <2> QED BY <1>3, <1>u, <2>1, <2>3, <2>4, FollowingFrom DEF Following
  <1>4. ASSUME NEW c \in Calls, Adopt(c) PROVE Following'
    BY <1>3, <1>4 DEF Adopt, Adopting
  <1>5. ASSUME NEW c \in Calls, Publish(c) PROVE Following'
    <2>1. PICK sharing \in BOOLEAN : Begins(c, [at |-> "token", sharing |-> sharing])
      BY <1>5 DEF Publish
    <2> QED BY <1>3, <1>5, <2>1 DEF Publish
  <1>6. ASSUME NEW c \in Calls, NEW v, call[c] # Idle, ~NotingCall(c),
               call' = [call EXCEPT ![c] = v], v.at \in {"idle", "answered", "put"},
               v.at = "answered" => v.publication = published,
               UNCHANGED <<record, wanted, held, published>>, disturbed = {}
        PROVE  Following'
    <2>1. Following /\ Alone
      BY <1>6, <1>c DEF Reading
    <2>2. call'[c] = v /\ \A d \in Calls : d # c => call[d] = Idle /\ call'[d] = Idle
      BY <1>6, <2>1, Single
    <2>3. \A d \in Calls : ~NotingCall(d)
      BY <1>6, <1>i, <2>2 DEF NotingCall
    <2>4. Follows(c)'
      BY <1>6, <2>1, <2>2 DEF Follows, NotingCall, Following, Offered
    <2> QED BY <1>6, <1>u, <2>1, <2>2, <2>3, <2>4, FollowingFrom DEF Following
  <1>7. ASSUME NEW c \in Calls, Fetched(c) PROVE Following'
    <2> DEFINE v == [at |-> "answered", state |-> call[c].state, publication |-> published]
    <2>1. /\ call[c] # Idle /\ ~NotingCall(c) /\ call' = [call EXCEPT ![c] = v]
          /\ UNCHANGED <<record, wanted, held, published>> /\ disturbed = {}
      BY <1>7, <1>i DEF Fetched, NotingCall
    <2>2. v.at = "answered" /\ v.publication = published
      OBVIOUS
    <2> HIDE DEF v
    <2> QED BY <1>6, <2>1, <2>2
  <1>8. ASSUME NEW c \in Calls, FetchFails(c) \/ PutFails(c) \/ Put(c) PROVE Following'
    <2>1. /\ call[c] # Idle /\ ~NotingCall(c) /\ call' = [call EXCEPT ![c] = Idle]
          /\ UNCHANGED <<record, wanted, held, published>> /\ disturbed = {}
      BY <1>8, <1>i DEF FetchFails, PutFails, Put, NotingCall
    <2> QED BY <1>6, <1>i, <2>1
  <1>9. ASSUME NEW c \in Calls, Compare(c) PROVE Following'
    BY <1>9, <1>c, CompareFollowing DEF Compare
  <1>10. ASSUME NEW c \in Calls, ModelsWritten(c) PROVE Following'
    <2>1. /\ call[c].at = "models" /\ call[c] # Idle /\ ~NotingCall(c) /\ disturbed = {}
          /\ UNCHANGED <<record, wanted, published>>
      BY <1>10, <1>i DEF ModelsWritten, NotingCall
    <2>2. CASE Conflict(c)
      BY <1>6, <1>10, <1>i, <2>1, <2>2 DEF ModelsWritten
    <2>3. CASE ~Conflict(c)
      <3> DEFINE v == Noting(call[c].base, call[c].next)
      <3>1. call' = [call EXCEPT ![c] = v] /\ held' = call[c].merged
        BY <1>10, <2>3 DEF ModelsWritten, Noting, Storing
      <3>2. v.at = "record" /\ v.then = "done" /\ v.next = call[c].next
        BY DEF Noting, Storing
      <3> HIDE DEF v
      <3>3. Following /\ Alone /\ Follows(c)
        BY <1>c, <2>1 DEF Reading, Following
      <3>4. call'[c] = v /\ \A d \in Calls : d # c => call'[d] = Idle
        BY <2>1, <3>1, <3>3, Single
      <3>5. Offered' = Offered
        BY <2>1 DEF Offered, IdsOf
      <3>6. IdsOf(Holding)' \subseteq call[c].next.adopted
        BY <2>1, <3>1, <3>3 DEF Follows, Holding, IdsOf
      <3>7. Follows(c)' /\ NotingCall(c)'
        BY <2>1, <3>2, <3>3, <3>4, <3>5, <3>6 DEF Follows, NotingCall
      <3> QED BY <2>1, <3>3, <3>4, <3>5, <3>7, FollowingFrom DEF Following
    <2> QED BY <2>2, <2>3
  <1>11. ASSUME NEW c \in Calls, RecordWritten(c) PROVE Following'
    BY <1>11, <1>c, RecordFollowing DEF RecordWritten
  <1>12. ASSUME NEW c \in Calls, UpdateFails(c) PROVE Following'
    <2>1. /\ call' = [call EXCEPT ![c] = Idle] /\ disturbed = {} /\ call[c].at # "record"
          /\ UNCHANGED <<record, wanted, held, published>>
      BY <1>12 DEF UpdateFails
    <2>2. CASE call[c] = Idle
      <3>1. \A d \in Calls : call'[d] = call[d]
        BY <2>1, <2>2, OtherCalls
      <3>2. Following
        BY <1>c, <2>1
      <3>3. \A d \in Calls : Follows(d)' /\ (NotingCall(d)' <=> NotingCall(d))
        BY <1>u, <2>1, <3>1, <3>2 DEF Following, Follows, NotingCall
      <3> QED BY <1>u, <2>1, <3>2, <3>3 DEF Following
    <2>3. CASE call[c] # Idle
      BY <1>6, <1>i, <2>1, <2>3 DEF NotingCall
    <2> QED BY <2>2, <2>3
  <1>13. ASSUME NEW c \in Calls, Detach(c) PROVE Following'
    <2> DEFINE s == [record EXCEPT !.detached = TRUE]
    <2>1. s \in Record /\ s.adopted = record.adopted /\ s.detached = TRUE
      BY <1>r DEF Record
    <2>2. Stores(c, s, "detached") /\ "detached" \in Then \ {"done"}
      BY <1>13 DEF Detach, Then
    <2> HIDE DEF s
    <2> QED BY <2>1, <2>2, StoresFollowing
  <1>14. ASSUME NEW c \in Calls, ResumeFollowing(c) PROVE Following'
    <2> DEFINE s == [record EXCEPT !.detached = FALSE]
    <2>1. s \in Record /\ s.adopted = record.adopted /\ s.detached = FALSE
      BY <1>r DEF Record
    <2>2. Stores(c, s, "adopt") /\ "adopt" \in Then \ {"done"}
      BY <1>14 DEF ResumeFollowing, Then
    <2> HIDE DEF s
    <2> QED BY <2>1, <2>2, StoresFollowing
  <1>15. ASSUME NEW c \in Calls, SetPrivateModels(c) PROVE Following'
    <2>1. PICK ids \in Private, t \in {"publish", "stored"} :
             Stores(c, [record EXCEPT !.private = ids], t)
      BY <1>15 DEF SetPrivateModels
    <2> DEFINE s == [record EXCEPT !.private = ids]
    <2>2. s \in Record /\ s.adopted = record.adopted /\ s.detached = record.detached
      BY <1>r, ModelSyncAssumption DEF Record
    <2>3. Stores(c, s, t) /\ t \in Then \ {"done"}
      BY <2>1 DEF Then
    <2> HIDE DEF s
    <2> QED BY <2>2, <2>3, StoresFollowing
  <1>16. ASSUME NEW c \in Calls, Collect(c) PROVE Following'
    <2> DEFINE v == [at |-> "put", publication |-> [sharing |-> call[c].sharing,
                                                    providers |-> Holding,
                                                    shared |-> OfferedModelIds]]
    <2>1. /\ call[c] # Idle /\ ~NotingCall(c) /\ call' = [call EXCEPT ![c] = v]
          /\ UNCHANGED <<record, wanted, held, published>> /\ disturbed = {}
      BY <1>16, <1>i DEF Collect, NotingCall
    <2>2. v.at = "put"
      OBVIOUS
    <2> HIDE DEF v
    <2> QED BY <1>6, <2>1, <2>2
  <1>17. CASE Restart
    <2>1. /\ UNCHANGED <<record, wanted, held, published>> /\ disturbed = {} /\ UnderWay = {}
          /\ \A d \in Calls : call'[d] = Idle
      BY <1>17 DEF Restart
    <2>2. \A d \in Calls : ~NotingCall(d)
      BY <1>i, <2>1 DEF UnderWay, NotingCall
    <2>3. Following
      BY <1>c, <2>1
    <2>4. \A d \in Calls : Follows(d)' /\ ~NotingCall(d)'
      BY <2>1 DEF Follows, NotingCall, Idle
    <2> QED BY <1>u, <2>1, <2>2, <2>3, <2>4 DEF Following
  <1>18. CASE UNCHANGED vars
    <2>1. UNCHANGED <<call, record, wanted, held, published, disturbed>>
      BY <1>18 DEF vars
    <2>2. Following
      BY <1>c, <2>1
    <2>3. \A d \in Calls : Follows(d)' /\ (NotingCall(d)' <=> NotingCall(d))
      BY <1>u, <2>1, <2>2 DEF Following, Follows, NotingCall
    <2> QED BY <1>u, <2>1, <2>2, <2>3 DEF Following
  <1> QED
    BY <1>1, <1>2, <1>4, <1>5, <1>7, <1>8, <1>9, <1>10, <1>11, <1>12, <1>13, <1>14, <1>15, <1>16,
       <1>17, <1>18 DEF Next, Proceeds

(* A workspace whose user edited nothing and did not detach goes on          *)
(* following, as long as publications grow and no call is overtaken or cut   *)
(* off between its two writes (model-sync.ts:241-278).                       *)
THEOREM SyncFollowerStays == Spec => []FollowerStays
  <1>1. Init => TypeOK /\ Basing /\ Choices /\ Undisturbed /\ Follower
    BY TypeInit, BasingInit, ChoicesInit, FollowingInit
  <1>2. TypeOK /\ Basing /\ Choices /\ Undisturbed /\ Follower /\ [Next]_vars
          => (TypeOK /\ Basing /\ Choices /\ Undisturbed /\ Follower)'
    BY TypeNext, BasingNext, ChoicesNext, UndisturbedNext, FollowerNext
  <1>3. Follower => FollowerStays
    BY DEF Follower, Following, FollowerStays
  <1> QED BY <1>1, <1>2, <1>3, PTL DEF Spec
=============================================================================
