--------------------------- MODULE ExtractionQueue ---------------------------
(***************************************************************************)
(* The background extraction queue of the knowledge-base plugin            *)
(* (packages/knowledge-base/src/extractionQueue.ts): one worker loop, one  *)
(* task record per document path, callers that join, wait for one task     *)
(* (settled) or wait for an idle queue (drain).                            *)
(*                                                                         *)
(* A JavaScript Map iterates by FIRST insertion: setting an existing key   *)
(* keeps its slot.  slot[p] is that position, queuedAt[p] the time of the  *)
(* latest acceptance; both are drawn from one clock.                       *)
(***************************************************************************)
EXTENDS Naturals, Sequences, FiniteSets

CONSTANTS Paths,        \* source documents
          Extractable,  \* those with a reader (options.isExtractable)
          Markdown,     \* those that are already Markdown
          Callers,      \* callers of settled() and drain()
          MaxTasks,     \* MAX_FINISHED_TASKS
          MaxEnqueues,  \* bound: calls of enqueue that create a task
          None, Idle, Waiting

Terminal == {"succeeded", "failed", "unsupported", "already-markdown"}
InFlight == {"pending", "running"}
TaskState == Terminal \cup InFlight \cup {"absent"}

ASSUME QueueAssumption ==
    /\ Extractable \subseteq Paths
    /\ Markdown \subseteq Paths
    /\ MaxTasks \in Nat \ {0}
    /\ MaxEnqueues \in Nat
    /\ None \notin Paths
    /\ Idle \notin TaskState
    /\ Waiting \notin TaskState

VARIABLES
    state,        \* tasks: the state recorded for each path, or "absent"
    slot,         \* tasks: the position of the record in the Map
    queuedAt,     \* task.queuedAt
    clock,        \* source of slot and queuedAt
    waiting,      \* waiting: paths that wait for the worker
    running,      \* running: the path shown as running
    started,      \* started: a work() loop is active
    kicked,       \* a microtask that will call work() is scheduled
    inRun,        \* runOne calls suspended in options.run
    resuming,     \* number of work() loops whose runOne has returned
    taskWaiters,  \* taskWaiters: settled() callers by path
    idleWaiters,  \* idleWaiters: drain() callers
    answer        \* what each caller has: Idle, Waiting or its reply

vars == <<state, slot, queuedAt, clock, waiting, running, started, kicked,
          inRun, resuming, taskWaiters, idleWaiters, answer>>
mapVars == <<slot, queuedAt, clock>>
loopVars == <<running, started, inRun, resuming>>
callerVars == <<taskWaiters, idleWaiters, answer>>

Init ==
    /\ state = [p \in Paths |-> "absent"]
    /\ slot = [p \in Paths |-> 0]
    /\ queuedAt = [p \in Paths |-> 0]
    /\ clock = 0
    /\ waiting = <<>>
    /\ running = None
    /\ started = FALSE
    /\ kicked = FALSE
    /\ inRun = {}
    /\ resuming = 0
    /\ taskWaiters = [p \in Paths |-> {}]
    /\ idleWaiters = {}
    /\ answer = [c \in Callers |-> Idle]

-----------------------------------------------------------------------------
Recorded(s) == {p \in Paths : s[p] # "absent"}
Finished(s) == {p \in Paths : s[p] \in Terminal}

(* Operators named Bug... are faulty variants of the definition that follows  *)
(* them; no specification uses them.  They show that the properties below    *)
(* notice such a fault.                                                      *)

BugEvictAnyState(s, at) ==
    {p \in Recorded(s) :
        Cardinality({q \in Recorded(s) : at[q] <= at[p]})
            + MaxTasks <= Cardinality(Recorded(s))}

(* evictFinished: walk the Map in slot order and drop finished records until *)
(* the size fits the bound or only in-flight records are left.               *)
Evicted(s, at) ==
    {p \in Finished(s) :
        Cardinality({q \in Finished(s) : at[q] <= at[p]})
            + MaxTasks <= Cardinality(Recorded(s))}

AfterEviction(s, at) ==
    [p \in Paths |-> IF p \in Evicted(s, at) THEN "absent" ELSE s[p]]

(* settleIdle: release every drain() caller of a queue with nothing to do.   *)
SettleIdle(isRunning, queue) ==
    IF isRunning \/ queue # <<>>
    THEN UNCHANGED <<idleWaiters, answer>>
    ELSE /\ idleWaiters' = {}
         /\ answer' = [c \in Callers |->
                          IF c \in idleWaiters THEN "absent" ELSE answer[c]]

-----------------------------------------------------------------------------
AcceptedState(p) ==
    IF p \in Markdown THEN "already-markdown"
    ELSE IF p \in Extractable THEN "pending" ELSE "unsupported"

(* A pending task joins the line and schedules work() on a microtask.        *)
BugScheduleNoKick(p) == waiting' = Append(waiting, p) /\ UNCHANGED kicked

Schedule(p) == waiting' = Append(waiting, p) /\ kicked' = TRUE

(* enqueue(relPath) for a path with no task in flight.  A path in flight     *)
(* joins its task, which changes nothing.                                    *)
Enqueue(p) ==
    /\ clock < MaxEnqueues
    /\ state[p] \notin InFlight
    /\ clock' = clock + 1
    /\ queuedAt' = [queuedAt EXCEPT ![p] = clock']
    /\ slot' = [slot EXCEPT ![p] = IF state[p] = "absent" THEN clock' ELSE @]
    /\ LET accepted == [state EXCEPT ![p] = AcceptedState(p)]
       IN  state' = AfterEviction(accepted, slot')
    /\ IF AcceptedState(p) = "pending"
       THEN Schedule(p)
       ELSE UNCHANGED <<waiting, kicked>>
    /\ UNCHANGED loopVars
    /\ UNCHANGED callerVars

BugLast(live) == CHOOSE i \in live : \A j \in live : i >= j

First(live) == CHOOSE i \in live : \A j \in live : i <= j

BugLoopStaysStarted == running' = None /\ UNCHANGED started

LoopEnds == running' = None /\ started' = FALSE

(* One turn of the work() loop: shift entries until one still has a record   *)
(* and start it (runOne up to its await), or leave the loop.                 *)
TakeNext(queue) ==
    LET live == {i \in 1..Len(queue) : state[queue[i]] # "absent"}
    IN  IF live # {}
        THEN LET i == First(live)
             IN  /\ waiting' = SubSeq(queue, i + 1, Len(queue))
                 /\ state' = [state EXCEPT ![queue[i]] = "running"]
                 /\ running' = queue[i]
                 /\ inRun' = inRun \cup {queue[i]}
                 /\ started' = TRUE
                 /\ UNCHANGED <<idleWaiters, answer>>
        ELSE /\ waiting' = <<>>
             /\ LoopEnds
             /\ UNCHANGED <<state, inRun>>
             /\ SettleIdle(FALSE, <<>>)

BugAlwaysStart == TRUE

MayStart == ~started

(* The scheduled microtask calls work(); a second loop is refused.           *)
Work ==
    /\ kicked
    /\ kicked' = FALSE
    /\ IF MayStart
       THEN /\ TakeNext(waiting)
            /\ UNCHANGED <<resuming, taskWaiters>>
       ELSE UNCHANGED <<state, waiting, loopVars, callerVars>>
    /\ UNCHANGED mapVars

(* The waiters of a task get a copy of it in its terminal state and leave.   *)
BugCopyBeforeOutcome(p, outcome) ==
    /\ answer' = [c \in Callers |->
                     IF c \in taskWaiters[p] THEN state[p] ELSE answer[c]]
    /\ taskWaiters' = [taskWaiters EXCEPT ![p] = {}]

ReleaseWaiters(p, outcome) ==
    /\ answer' = [c \in Callers |->
                     IF c \in taskWaiters[p] THEN outcome ELSE answer[c]]
    /\ taskWaiters' = [taskWaiters EXCEPT ![p] = {}]

(* options.run settled: record the outcome (a rejection is "failed"), release *)
(* the waiters of this task with a copy of it, then evict.                    *)
FinishRun(p, outcome) ==
    /\ p \in inRun
    /\ inRun' = inRun \ {p}
    /\ resuming' = resuming + 1
    /\ running' = None
    /\ ReleaseWaiters(p, outcome)
    /\ state' = AfterEviction([state EXCEPT ![p] = outcome], slot)
    /\ UNCHANGED <<mapVars, waiting, started, kicked, idleWaiters>>

RunReturned == resuming > 0

(* The awaiting work() loop continues after runOne returned.                 *)
Resume ==
    /\ RunReturned
    /\ resuming' = resuming - 1
    /\ TakeNext(waiting)
    /\ UNCHANGED <<mapVars, kicked, taskWaiters>>

-----------------------------------------------------------------------------
Free(c) == answer[c] # Waiting

(* settled(relPath): undefined ("absent") or the terminal task at once,      *)
(* otherwise wait for the task.                                              *)
Settled(c, p) ==
    /\ Free(c)
    /\ IF state[p] \in InFlight
       THEN /\ taskWaiters' = [taskWaiters EXCEPT ![p] = @ \cup {c}]
            /\ answer' = [answer EXCEPT ![c] = Waiting]
       ELSE /\ answer' = [answer EXCEPT ![c] = state[p]]
            /\ UNCHANGED taskWaiters
    /\ UNCHANGED <<state, mapVars, waiting, kicked, loopVars, idleWaiters>>

(* drain(): answers at once when nothing runs and nothing waits.             *)
Drain(c) ==
    /\ Free(c)
    /\ IF running = None /\ waiting = <<>>
       THEN /\ answer' = [answer EXCEPT ![c] = "absent"]
            /\ UNCHANGED idleWaiters
       ELSE /\ answer' = [answer EXCEPT ![c] = Waiting]
            /\ idleWaiters' = idleWaiters \cup {c}
    /\ UNCHANGED <<state, mapVars, waiting, kicked, loopVars, taskWaiters>>

RunOutcomes == {"succeeded", "failed", "unsupported"}

Next ==
    \/ \E p \in Paths : Enqueue(p)
    \/ Work
    \/ \E p \in Paths, o \in RunOutcomes : FinishRun(p, o)
    \/ Resume
    \/ \E c \in Callers, p \in Paths : Settled(c, p)
    \/ \E c \in Callers : Drain(c)

(* Microtasks run, and every extraction ends: child processes are killed and *)
(* requests aborted after EXTRACT_TIMEOUT_MS (extract.ts).                   *)
Fairness ==
    /\ WF_vars(Work)
    /\ WF_vars(Resume)
    /\ \A p \in Paths : WF_vars(\E o \in RunOutcomes : FinishRun(p, o))

Spec == Init /\ [][Next]_vars
FairSpec == Spec /\ Fairness

-----------------------------------------------------------------------------
(* The types of the variables.                                               *)
TypeOK ==
    /\ state \in [Paths -> TaskState]
    /\ slot \in [Paths -> Nat]
    /\ queuedAt \in [Paths -> Nat]
    /\ clock \in Nat
    /\ waiting \in Seq(Paths)
    /\ running \in Paths \cup {None}
    /\ started \in BOOLEAN
    /\ kicked \in BOOLEAN
    /\ inRun \subseteq Paths
    /\ resuming \in Nat
    /\ taskWaiters \in [Paths -> SUBSET Callers]
    /\ idleWaiters \subseteq Callers
    /\ answer \in [Callers -> TaskState \cup {Idle, Waiting}]

(* At most one extraction runs, and it is the one the status surface names   *)
(* (MAX_CONCURRENT_EXTRACTIONS = 1), whatever the microtask order.           *)
OneRunAtATime ==
    /\ \A p, q \in inRun : p = q
    /\ \A p \in Paths : p \in inRun <=> running = p

(* A document the queue shows as pending is in line exactly once, and one    *)
(* shown as running is really being run: no phantom and no forgotten task,   *)
(* whatever the eviction of finished records does.                           *)
StatusIsTrue ==
    /\ \A i, j \in 1..Len(waiting) : waiting[i] = waiting[j] => i = j
    /\ \A p \in Paths :
          state[p] = "pending" <=> \E i \in 1..Len(waiting) : waiting[i] = p
    /\ \A p \in Paths : state[p] = "running" <=> p \in inRun

(* Nothing waits for a loop that will not come: work in line, and a drain()  *)
(* caller, have one that runs or is about to start, and a settled() caller   *)
(* waits only on a task that still has a run to come.                        *)
NoLostWakeup ==
    /\ waiting # <<>> => started \/ kicked
    /\ idleWaiters # {} => started \/ kicked
    /\ \A p \in Paths : taskWaiters[p] # {} => state[p] \in InFlight

(* Documents start in the order in which they were accepted, although a      *)
(* repeat of an old document keeps its old place in the Map.                 *)
StartsInAcceptanceOrder ==
    [][\A p, q \in Paths :
          /\ state[p] = "pending" /\ state'[p] = "running"
          /\ state[q] = "pending" /\ q # p
          => queuedAt[p] < queuedAt[q]]_vars

(* A released settled() caller holds the terminal state of its own document, *)
(* the one the record shows unless eviction just dropped the record.         *)
WaiterHearsItsTask ==
    [][\A c \in Callers, p \in Paths :
          c \in taskWaiters[p] /\ c \notin taskWaiters'[p]
          => /\ answer'[c] \in Terminal
             /\ state'[p] \in {answer'[c], "absent"}]_vars

(* Every caller that waits, for a task or for the idle queue, is answered.   *)
EveryCallerAnswered ==
    \A c \in Callers : answer[c] = Waiting ~> answer[c] # Waiting

Promise == INSTANCE ExtractionPromise WITH status <- state

(* What the readers of the status see is a serial extraction service: every  *)
(* step of the queue is an acceptance, the start or the end of the one run,  *)
(* and nothing is forgotten before it has ended.                             *)
KeepsPromise == Promise!Spec

(* Every document that is accepted for extraction is served.                 *)
ServesEveryTask == Promise!Served
=============================================================================
