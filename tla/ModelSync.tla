------------------------------- MODULE ModelSync -------------------------------
(***************************************************************************)
(* How a workspace takes and offers models                                   *)
(* (packages/dataops-managed/src/model-sync.ts, model-settings.ts and the    *)
(* model-sync route of index.ts).  On a start and on each sign-in it adopts  *)
(* what another workspace publishes: models it lacks are added, with the     *)
(* revision its read observed, and their ids noted in its own record; a      *)
(* model that is not in the note is the user's, and detaches the workspace.  *)
(* The page detaches, resumes, keeps models private and publishes.  Each     *)
(* call awaits the server and the settings service between its reads and its *)
(* writes, and calls overlap.                                                *)
(***************************************************************************)
EXTENDS Naturals, Sequences, FiniteSets

CONSTANTS Models,     \* [provider, id]: the entry of a model at a provider
          Calls,      \* bound: numbers of the calls under way at one time
          Initial,    \* models the user configured before the first start
          Others,     \* publications of the other workspace
          Private,    \* sets of ids the page may keep private
          Faults,     \* what may happen: "withdraw", "fetch", "put", "update", "restart"
          MaxEvents   \* bound: edits by the user, publications of the other
                      \* workspace, requests of the page, failures and restarts

Ids == {m.id : m \in Models}

ASSUME ModelSyncAssumption ==
    /\ \A m \in Models : DOMAIN m = {"provider", "id"}
    /\ Calls \subseteq Nat /\ Initial \subseteq Models
    /\ Others \subseteq [sharing : BOOLEAN, providers : SUBSET Models, shared : SUBSET Ids]
    /\ Private \subseteq SUBSET Ids
    /\ MaxEvents \in Nat

VARIABLES
    published,  \* DataOps: what another workspace offers to this one
    own,        \* DataOps: what this workspace offers
    held,       \* settings: whose entry a model has, "user", "adoption" or "none"
    revision,   \* settings: of the models, or Unset
    record,     \* settings: SyncState
    call,       \* calls of adopt, publish and the page's actions
    updates,    \* settings: calls whose update is queued, in order
    wanted,     \* history: the choices of the user that were stored
    disturbed,  \* history: "edit", "overlap", "stale", "withdrawal", "cut"
    events

serverVars == <<published, own>>
vars == <<serverVars, held, revision, record, call, updates, wanted, disturbed, events>>

Record == [detached : BOOLEAN, adopted : SUBSET Ids, private : SUBSET Ids]
Disturbances == {"edit", "overlap", "stale", "withdrawal", "cut"}
IdsOf(models) == {m.id : m \in models}
Holding == {m \in Models : held[m] # "none"}

(* A publication carries every provider profile its workspace holds, private *)
(* models included, and the ids others may use.                              *)
Publication == [sharing : BOOLEAN, providers : SUBSET Models, shared : SUBSET Ids]

(* selectSharedModels: the reader drops what is not offered to it.           *)
Offers(publication) == {m \in publication.providers : m.id \in publication.shared}

(* readModels of a workspace whose settings have no models section yet: the  *)
(* revision is undefined.                                                    *)
Unset == 0

Idle == [at |-> "idle"]
Init ==
    /\ published \in Others
    /\ own = [sharing |-> FALSE, providers |-> {}, shared |-> {}]
    /\ held = [m \in Models |-> IF m \in Initial THEN "user" ELSE "none"]
    /\ revision = IF Initial = {} THEN Unset ELSE Unset + 1
    /\ record = [detached |-> FALSE, adopted |-> {}, private |-> {}]
    /\ call = [c \in Calls |-> Idle] /\ updates = <<>>
    /\ wanted = [detached |-> FALSE, private |-> {}]
    /\ disturbed = IF Initial = {} THEN {} ELSE {"edit"}
    /\ events = 0

(* A call that begins takes the least number that is free. *)
UnderWay == {c \in Calls : call[c] # Idle}
Begins(c, next) ==
    /\ call[c] = Idle
    /\ \A d \in Calls : d < c => d \in UnderWay
    /\ call' = [call EXCEPT ![c] = next]
    /\ disturbed' = disturbed \cup (IF UnderWay = {} THEN {} ELSE {"overlap"})

Happens == events < MaxEvents /\ events' = events + 1
Fails(f) == f \in Faults /\ Happens

-----------------------------------------------------------------------------
(* The others: the user's edits of the models, and the other workspace.      *)
Edit(m) ==
    /\ Happens
    /\ \E entry \in {"user", "none"} :
         /\ entry = "none" => held[m] # "none"
         /\ held' = [held EXCEPT ![m] = entry]
    /\ revision' = revision + 1
    /\ disturbed' = disturbed \cup {"edit"}
    /\ UNCHANGED <<serverVars, record, call, updates, wanted>>

OthersPublish(p) ==
    /\ Happens
    /\ Offers(published) \subseteq Offers(p) \/ "withdraw" \in Faults
    /\ published' = p
    /\ disturbed' = disturbed \cup (IF Offers(published) \subseteq Offers(p) THEN {}
                                    ELSE {"withdrawal"})
    /\ UNCHANGED <<own, held, revision, record, call, updates, wanted>>

-----------------------------------------------------------------------------
(* adopt                                                                     *)

(* What begins when adopt is called: a detached workspace adopts nothing.    *)
Adopting == IF record.detached THEN Idle ELSE [at |-> "fetch", state |-> record]

Adopt(c) ==
    /\ ~record.detached
    /\ Begins(c, Adopting)
    /\ UNCHANGED <<serverVars, held, revision, record, updates, wanted, events>>

(* DataOps answers with the publication as it is then. *)
Fetched(c) ==
    /\ call[c].at = "fetch"
    /\ call' = [call EXCEPT ![c] = [at |-> "answered", state |-> call[c].state,
                                    publication |-> published]]
    /\ UNCHANGED <<serverVars, held, revision, record, updates, wanted, disturbed, events>>

(* No session, an error status or no answer. *)
FetchFails(c) ==
    /\ call[c].at = "fetch" /\ Fails("fetch")
    /\ call' = [call EXCEPT ![c] = Idle]
    /\ UNCHANGED <<serverVars, held, revision, record, updates, wanted, disturbed>>

EditedSinceAdoption(adopted) == adopted # {} /\ ~(IdsOf(Holding) \subseteq adopted)

(* mergeProviders.  Mutant: a provider the workspace has gains nothing.      *)
BugMissing(offered) ==
    {m \in offered : \A n \in Models : n.provider = m.provider => held[n] = "none"}
Missing(offered) == {m \in offered : held[m] = "none"}
Merged(offered) == [m \in Models |-> IF m \in Missing(offered) THEN "adoption" ELSE held[m]]

(* The record adoption writes.  Mutant: it notes only the models it adds.    *)
BugNotedMissing(state, offered) == [state EXCEPT !.adopted = IdsOf(Missing(offered))]
Noted(state, offered) == [state EXCEPT !.adopted = IdsOf(offered)]

(* The publication has come: read the models, and queue an update of them or *)
(* of the record.                                                            *)
Compare(c) ==
    /\ call[c].at = "answered"
    /\ LET offered == Offers(call[c].publication)
           state == call[c].state
           note(next) == [at |-> "record", base |-> state, next |-> next, then |-> "done"]
       IN IF ~call[c].publication.sharing \/ offered = {}
            THEN call' = [call EXCEPT ![c] = Idle] /\ UNCHANGED updates
            ELSE /\ updates' = Append(updates, c)
                 /\ call' = [call EXCEPT ![c] =
                      IF EditedSinceAdoption(state.adopted)
                        THEN note([state EXCEPT !.detached = TRUE])
                      ELSE IF Missing(offered) = {}
                        THEN note(Noted(state, offered))
                      ELSE [at |-> "models", merged |-> Merged(offered),
                            revision |-> revision, base |-> state,
                            next |-> Noted(state, offered)]]
    /\ UNCHANGED <<serverVars, held, revision, record, wanted, disturbed, events>>

-----------------------------------------------------------------------------
(* The settings service applies queued updates in order.                     *)

(* writeModels: merged over the models of the read, or refused when the      *)
(* revision has moved on; an undefined revision is not compared.  The record *)
(* is queued next.  Mutant: written whatever the revision.                   *)
BugConflict(c) == FALSE
Conflict(c) == call[c].revision # Unset /\ call[c].revision # revision

ModelsWritten(c) ==
    /\ updates # <<>> /\ Head(updates) = c /\ call[c].at = "models"
    /\ IF Conflict(c)
         THEN /\ call' = [call EXCEPT ![c] = Idle] /\ updates' = Tail(updates)
              /\ UNCHANGED <<held, revision>>
         ELSE /\ held' = call[c].merged
              /\ revision' = revision + 1
              /\ call' = [call EXCEPT ![c] = [at |-> "record", base |-> call[c].base,
                                              next |-> call[c].next, then |-> "done"]]
              /\ updates' = Append(Tail(updates), c)
    /\ UNCHANGED <<serverVars, record, wanted, disturbed, events>>

(* The record is written whole, over whatever it has become since the call   *)
(* read it; the call goes on as its action says.                             *)
RecordWritten(c) ==
    /\ updates # <<>> /\ Head(updates) = c /\ call[c].at = "record"
    /\ updates' = Tail(updates)
    /\ record' = call[c].next
    /\ call' = [call EXCEPT ![c] =
                  CASE call[c].then = "adopt" -> [at |-> "fetch", state |-> call[c].next]
                    [] call[c].then = "publish" -> [at |-> "token", sharing |-> TRUE]
                    [] OTHER -> Idle]
    /\ wanted' = CASE call[c].then = "detached" -> [wanted EXCEPT !.detached = TRUE]
                   [] call[c].then = "adopt" -> [wanted EXCEPT !.detached = FALSE]
                   [] call[c].then \in {"publish", "stored"} ->
                        [wanted EXCEPT !.private = call[c].next.private]
                   [] OTHER -> wanted
    /\ disturbed' = disturbed \cup (IF call[c].base = record THEN {} ELSE {"stale"})
    /\ UNCHANGED <<serverVars, held, revision, events>>

(* The update at the head is refused, and the call throws.                   *)
UpdateFails(c) ==
    /\ updates # <<>> /\ Head(updates) = c /\ Fails("update")
    /\ updates' = Tail(updates)
    /\ call' = [call EXCEPT ![c] = Idle]
    /\ disturbed' = disturbed \cup (IF call[c].at = "record" THEN {"cut"} ELSE {})
    /\ UNCHANGED <<serverVars, held, revision, record, wanted>>

-----------------------------------------------------------------------------
(* The page's actions; each reads the record and queues it changed.          *)
Stores(c, next, then) ==
    /\ Happens
    /\ Begins(c, [at |-> "record", base |-> record, next |-> next, then |-> then])
    /\ updates' = Append(updates, c)
    /\ UNCHANGED <<serverVars, held, revision, record, wanted>>

Detach(c) == Stores(c, [record EXCEPT !.detached = TRUE], "detached")
ResumeFollowing(c) == Stores(c, [record EXCEPT !.detached = FALSE], "adopt")

(* Mutant: the rest of the record is the one of a new workspace.             *)
BugSetPrivateModels(c) ==
    \E ids \in Private, sharing \in BOOLEAN :
        Stores(c, [detached |-> FALSE, adopted |-> {}, private |-> ids],
               IF sharing THEN "publish" ELSE "stored")
SetPrivateModels(c) ==
    \E ids \in Private, sharing \in BOOLEAN :
        Stores(c, [record EXCEPT !.private = ids], IF sharing THEN "publish" ELSE "stored")

(* publish: the credential is awaited, then models and record are read.      *)
Publish(c) ==
    /\ Happens
    /\ \E sharing \in BOOLEAN : Begins(c, [at |-> "token", sharing |-> sharing])
    /\ UNCHANGED <<serverVars, held, revision, record, updates, wanted>>

OfferedModelIds == IdsOf(Holding) \ record.private

Collect(c) ==
    /\ call[c].at = "token"
    /\ call' = [call EXCEPT ![c] =
                  [at |-> "put", publication |-> [sharing |-> call[c].sharing,
                                                  providers |-> Holding,
                                                  shared |-> OfferedModelIds]]]
    /\ UNCHANGED <<serverVars, held, revision, record, updates, wanted, disturbed, events>>

Put(c) ==
    /\ call[c].at = "put"
    /\ own' = call[c].publication
    /\ call' = [call EXCEPT ![c] = Idle]
    /\ UNCHANGED <<published, held, revision, record, updates, wanted, disturbed, events>>

PutFails(c) ==
    /\ call[c].at \in {"token", "put"} /\ Fails("put")
    /\ call' = [call EXCEPT ![c] = Idle]
    /\ UNCHANGED <<serverVars, held, revision, record, updates, wanted, disturbed>>

-----------------------------------------------------------------------------
(* The process ends; what the settings service has not applied is lost.      *)
Restart ==
    /\ Fails("restart")
    /\ call' = [c \in Calls |-> Idle] /\ updates' = <<>>
    /\ disturbed' = disturbed \cup (IF UnderWay = {} THEN {} ELSE {"cut"})
    /\ UNCHANGED <<serverVars, held, revision, record, wanted>>

Proceeds(c) ==
    Fetched(c) \/ Compare(c) \/ ModelsWritten(c) \/ RecordWritten(c) \/ Collect(c) \/ Put(c)

Next ==
    \/ \E m \in Models : Edit(m)
    \/ \E p \in Others : OthersPublish(p)
    \/ \E c \in Calls : \/ Adopt(c) \/ Proceeds(c)
                        \/ Detach(c) \/ ResumeFollowing(c) \/ SetPrivateModels(c)
                        \/ Publish(c)
                        \/ FetchFails(c) \/ UpdateFails(c) \/ PutFails(c)
    \/ Restart

(* What is awaited ends; sign-ins recur, as tokens expire. *)
Fairness ==
    /\ \A c \in Calls : WF_vars(Proceeds(c))
    /\ WF_vars(\E c \in Calls : Adopt(c))

Spec == Init /\ [][Next]_vars
FairSpec == Spec /\ Fairness

-----------------------------------------------------------------------------
(* Types of the state *)
CallType ==
    {Idle}
    \cup [at : {"fetch"}, state : Record]
    \cup [at : {"answered"}, state : Record, publication : Publication]
    \cup [at : {"models"}, merged : [Models -> {"user", "adoption", "none"}],
          revision : Nat, base : Record, next : Record]
    \cup [at : {"record"}, base : Record, next : Record,
          then : {"done", "detached", "adopt", "publish", "stored"}]
    \cup [at : {"token"}, sharing : BOOLEAN]
    \cup [at : {"put"}, publication : Publication]
TypeOK ==
    /\ published \in Publication /\ own \in Publication
    /\ held \in [Models -> {"user", "adoption", "none"}] /\ revision \in Nat
    /\ record \in Record
    /\ call \in [Calls -> CallType]
    /\ updates \in Seq(Calls)
    /\ wanted \in [detached : BOOLEAN, private : SUBSET Ids]
    /\ disturbed \subseteq Disturbances
    /\ events \in 0..MaxEvents

(* A write of models that were read when the settings had no section, made   *)
(* after somebody created the section.                                       *)
Unguarded(c) ==
    call[c].at = "models" /\ call[c].revision = Unset /\ revision # Unset

(* "The user's own entry for a model wins on conflict" (model-settings.ts,   *)
(* 132-133): whatever is edited while an adoption awaits the server or the   *)
(* settings service, a step that is not the user's changes no entry the      *)
(* workspace has, and gives back none the user removed after the read; only  *)
(* a write that was read from no section at all is not held to it.           *)
OwnIsKept ==
    [][~(\E m \in Models : Edit(m)) =>
        \A m \in Models :
            held'[m] # held[m] =>
                \/ \E c \in Calls : Unguarded(c) /\ ModelsWritten(c)
                \/ /\ held[m] = "none" /\ held'[m] = "adoption"
                   /\ \E c \in Calls :
                        call[c].at = "models" /\ call[c].revision = revision]_vars

(* What the user chose stays, through overlapping calls and failures, unless *)
(* a call writes a record that changed since it read it: the workspace is    *)
(* detached after a detach, however many sign-ins follow ("this choice is    *)
(* stored and survives the next start", model-sync.ts:283-284), and the      *)
(* private models are the ones kept private last.  And unless calls overlap, *)
(* no publication on its way offers one of them to others.                   *)
ChoicesStick ==
    /\ "stale" \notin disturbed =>
          /\ record.private = wanted.private
          /\ wanted.detached => record.detached
    /\ "overlap" \notin disturbed =>
          \A c \in Calls :
              call[c].at = "put" => call[c].publication.shared \cap wanted.private = {}

(* A workspace whose user edited nothing and did not detach follows, while   *)
(* publications grow and no call is overtaken or cut off in the middle.      *)
FollowerStays == disturbed = {} => record.detached = wanted.detached

(* A workspace that is not detached ends up with every model offered to it,  *)
(* whatever fails or conflicts on the way.                                   *)
OffersArrive ==
    <>[](record.detached \/ ~published.sharing \/ Offers(published) \subseteq Holding)
=============================================================================
