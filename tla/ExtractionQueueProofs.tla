------------------------ MODULE ExtractionQueueProofs ------------------------
(***************************************************************************)
(* Safety of the extraction queue for every set of documents and callers   *)
(* and every bound.  The inductive invariant adds to the stated ones what   *)
(* makes them hold: the flag "started" counts the loops exactly.            *)
(***************************************************************************)
EXTENDS ExtractionQueue, SequenceTheorems, TLAPS

(* There is a work() loop exactly while "started" is set, and never two: it  *)
(* is suspended in one run or about to resume after it.                      *)
OneLoop ==
    /\ started <=> (inRun # {} \/ resuming > 0)
    /\ inRun # {} => resuming = 0
    /\ resuming <= 1

(* The two parts of NoLostWakeup: what is in line, and who waits.            *)
WorkIsReached == waiting # <<>> => started \/ kicked
WaitersAreReached ==
    /\ \A p \in Paths : taskWaiters[p] # {} => state[p] \in InFlight
    /\ idleWaiters # {} => started \/ kicked

IInv ==
    /\ TypeOK
    /\ OneLoop
    /\ OneRunAtATime
    /\ StatusIsTrue
    /\ WorkIsReached
    /\ WaitersAreReached

USE DEF Terminal, InFlight, TaskState, RunOutcomes

(* Eviction never touches a task that is pending or running, and changes a   *)
(* record only by dropping it.                                               *)
LEMMA EvictionKeepsInFlight ==
    ASSUME NEW s \in [Paths -> TaskState], NEW at
    PROVE  /\ AfterEviction(s, at) \in [Paths -> TaskState]
           /\ \A p \in Paths : s[p] \in InFlight \cup {"absent"}
                                  => AfterEviction(s, at)[p] = s[p]
           /\ \A p \in Paths : s[p] \in Terminal
                                  => AfterEviction(s, at)[p] \in {s[p], "absent"}
  BY DEF AfterEviction, Evicted, Finished

(* Every entry in line has a record, so a loop that turns takes the head.    *)
LEMMA TurnTakesHead ==
    ASSUME TypeOK, StatusIsTrue, TakeNext(waiting), waiting # <<>>
    PROVE  /\ waiting' = Tail(waiting)
           /\ Head(waiting) \in Paths
           /\ state[Head(waiting)] = "pending"
           /\ state' = [state EXCEPT ![Head(waiting)] = "running"]
           /\ running' = Head(waiting)
           /\ inRun' = inRun \cup {Head(waiting)}
           /\ started' = TRUE
           /\ UNCHANGED <<idleWaiters, answer>>
  <1> DEFINE live == {i \in 1..Len(waiting) : state[waiting[i]] # "absent"}
             first == First(live)
  <1>1. Len(waiting) \in Nat /\ Len(waiting) > 0
    BY DEF TypeOK
  <1>2. live = 1..Len(waiting)
    <2>1. ASSUME NEW i \in 1..Len(waiting)
          PROVE  state[waiting[i]] = "pending"
      BY <2>1 DEF TypeOK, StatusIsTrue
    <2> QED BY <2>1
  <1>3. 1 \in live /\ \A j \in live : 1 <= j
    BY <1>1, <1>2
  <1>4. first = 1
    <2>1. first \in live /\ \A j \in live : first <= j
      BY <1>3 DEF First
    <2> QED BY <2>1, <1>2, <1>3
  <1>5. Head(waiting) = waiting[1] /\ SubSeq(waiting, 2, Len(waiting)) = Tail(waiting)
    <2>1. waiting \in Seq(Paths)
      BY DEF TypeOK
    <2>2. Tail(waiting) = SubSeq(waiting, 2, Len(waiting))
      BY ONLY <2>1, waiting # <<>>, TailIsSubSeq
    <2>3. Head(waiting) = waiting[1]
      BY <2>1
    <2> QED BY <2>2, <2>3
  <1>6. live # {}
    BY <1>3
  <1>7. state[waiting[1]] = "pending"
    BY <1>1 DEF TypeOK, StatusIsTrue
  <1>8. /\ waiting' = SubSeq(waiting, first + 1, Len(waiting))
        /\ state' = [state EXCEPT ![waiting[first]] = "running"]
        /\ running' = waiting[first]
        /\ inRun' = inRun \cup {waiting[first]}
        /\ started' = TRUE
        /\ UNCHANGED <<idleWaiters, answer>>
    BY <1>6 DEF TakeNext
  <1> HIDE DEF first
  <1>9. waiting[1] \in Paths
    BY <1>1 DEF TypeOK
  <1>10. waiting' = SubSeq(waiting, 2, Len(waiting))
    BY <1>4, <1>8
  <1> QED
    BY <1>4, <1>5, <1>7, <1>8, <1>9, <1>10

(* A loop that finds nothing in line ends and releases the drain() callers.  *)
LEMMA TurnEndsLoop ==
    ASSUME TypeOK, TakeNext(waiting), waiting = <<>>
    PROVE  /\ waiting' = <<>>
           /\ running' = None
           /\ started' = FALSE
           /\ UNCHANGED <<state, inRun>>
           /\ idleWaiters' = {}
           /\ answer' = [c \in Callers |->
                            IF c \in idleWaiters THEN "absent" ELSE answer[c]]
  <1>1. {i \in 1..Len(waiting) : state[waiting[i]] # "absent"} = {}
    OBVIOUS
  <1> QED
    BY <1>1 DEF TakeNext, LoopEnds, SettleIdle

(* One turn of a loop that is about to run preserves the invariant; "before" *)
(* is what both callers of the turn know.                                    *)
LEMMA TurnPreserves ==
    ASSUME IInv, inRun = {}, resuming' = 0, TakeNext(waiting),
           kicked' \in BOOLEAN, UNCHANGED <<mapVars, taskWaiters>>
    PROVE  IInv'
  <1> USE DEF IInv, mapVars
  <1>1. CASE waiting = <<>>
    <2>1. /\ waiting' = <<>> /\ running' = None /\ started' = FALSE
          /\ UNCHANGED <<state, inRun>> /\ idleWaiters' = {}
          /\ answer' = [c \in Callers |->
                           IF c \in idleWaiters THEN "absent" ELSE answer[c]]
      BY <1>1, TurnEndsLoop
    <2>2. TypeOK'
      <3>1. answer' \in [Callers -> TaskState \cup {Idle, Waiting}]
        BY <2>1 DEF TypeOK
      <3>2. waiting' \in Seq(Paths)
        BY <1>1, <2>1 DEF TypeOK
      <3> QED BY <2>1, <3>1, <3>2 DEF TypeOK
    <2>3. OneLoop' /\ WorkIsReached' /\ WaitersAreReached'
      BY <2>1 DEF OneLoop, WorkIsReached, WaitersAreReached
    <2>4. OneRunAtATime' /\ StatusIsTrue'
      BY <1>1, <2>1, QueueAssumption DEF OneRunAtATime, StatusIsTrue
    <2> QED BY <2>2, <2>3, <2>4
  <1>2. CASE waiting # <<>>
    <2> DEFINE p == Head(waiting)
    <2>1. /\ waiting' = Tail(waiting) /\ p \in Paths /\ state[p] = "pending"
          /\ state' = [state EXCEPT ![p] = "running"]
          /\ running' = p /\ inRun' = {p} /\ started' = TRUE
          /\ UNCHANGED <<idleWaiters, answer>>
      BY <1>2, TurnTakesHead
    <2>2. /\ waiting' \in Seq(Paths)
          /\ Len(waiting') = Len(waiting) - 1
          /\ Len(waiting) \in Nat /\ Len(waiting) > 0
          /\ \A i \in 1..Len(waiting') : waiting'[i] = waiting[i + 1]
          /\ p = waiting[1]
      BY <1>2, <2>1, HeadTailProperties DEF TypeOK
    <2> HIDE DEF p
    <2>3. TypeOK'
      BY <2>1, <2>2 DEF TypeOK
    <2>4. OneLoop' /\ WorkIsReached' /\ OneRunAtATime'
      BY <2>1, QueueAssumption DEF OneLoop, WorkIsReached, OneRunAtATime
    <2>5. WaitersAreReached'
      BY <2>1 DEF WaitersAreReached, TypeOK
    <2>6. StatusIsTrue'
      <3>1. \A i, j \in 1..Len(waiting') : waiting'[i] = waiting'[j] => i = j
        <4> SUFFICES ASSUME NEW i \in 1..Len(waiting'), NEW j \in 1..Len(waiting'),
                            waiting'[i] = waiting'[j]
                     PROVE  i = j
          OBVIOUS
        <4>1. i + 1 \in 1..Len(waiting) /\ j + 1 \in 1..Len(waiting)
          BY <2>2
        <4>2. waiting[i + 1] = waiting[j + 1]
          BY <2>2
        <4> QED BY <4>1, <4>2, <2>2 DEF StatusIsTrue
      <3>2. ASSUME NEW q \in Paths
            PROVE  state'[q] = "pending" <=> \E i \in 1..Len(waiting') : waiting'[i] = q
        <4>1. CASE q = p
          <5>1. state'[q] = "running"
            BY <4>1, <2>1 DEF TypeOK
          <5>2. ASSUME NEW i \in 1..Len(waiting'), waiting'[i] = p PROVE FALSE
            <6>1. i + 1 \in 1..Len(waiting) /\ 1 \in 1..Len(waiting) /\ waiting[i + 1] = waiting[1]
              BY <5>2, <2>2
            <6>2. i + 1 = 1
              BY <6>1 DEF StatusIsTrue
            <6> QED BY <6>2, <2>2
          <5> QED BY <4>1, <5>1, <5>2
        <4>2. CASE q # p
          <5>1. state'[q] = state[q]
            BY <4>2, <2>1 DEF TypeOK
          <5>2. ASSUME NEW i \in 1..Len(waiting), waiting[i] = q
                PROVE  \E k \in 1..Len(waiting') : waiting'[k] = q
            <6>1. i # 1
              BY <5>2, <4>2, <2>2
            <6>2. i - 1 \in 1..Len(waiting') /\ waiting'[i - 1] = q
              BY <6>1, <5>2, <2>2
            <6> QED BY <6>2
          <5>3. ASSUME NEW i \in 1..Len(waiting'), waiting'[i] = q
                PROVE  \E k \in 1..Len(waiting) : waiting[k] = q
            <6>1. i + 1 \in 1..Len(waiting) /\ waiting[i + 1] = q
              BY <5>3, <2>2
            <6> QED BY <6>1
          <5> QED BY <5>1, <5>2, <5>3 DEF StatusIsTrue
        <4> QED BY <4>1, <4>2
      <3>3. \A q \in Paths : state'[q] = "running" <=> q \in inRun'
        BY <2>1 DEF StatusIsTrue, TypeOK
      <3> QED BY <3>1, <3>2, <3>3 DEF StatusIsTrue
    <2> QED BY <2>3, <2>4, <2>5, <2>6
  <1> QED BY <1>1, <1>2

(* An accepted document goes to the end of the line, so the line still shows *)
(* exactly the pending documents, each once.                                 *)
LEMMA EnqueuePreserves ==
    ASSUME IInv, NEW p \in Paths, Enqueue(p)
    PROVE  IInv'
  <1> USE DEF IInv, mapVars, loopVars, callerVars
  <1> DEFINE accepted == [state EXCEPT ![p] = AcceptedState(p)]
  <1>1. /\ accepted \in [Paths -> TaskState]
        /\ AcceptedState(p) \in {"already-markdown", "pending", "unsupported"}
        /\ state' = AfterEviction(accepted, slot')
        /\ state[p] \notin InFlight
    BY DEF Enqueue, AcceptedState, TypeOK
  <1>2. /\ state' \in [Paths -> TaskState]
        /\ \A q \in Paths : q # p => (state'[q] \in InFlight <=> state[q] \in InFlight)
        /\ \A q \in Paths : q # p /\ state[q] \in InFlight => state'[q] = state[q]
        /\ AcceptedState(p) = "pending" => state'[p] = "pending"
        /\ AcceptedState(p) # "pending" => state'[p] \notin InFlight
    <2> HIDE DEF accepted
    <2>1. /\ state' \in [Paths -> TaskState]
          /\ \A q \in Paths : accepted[q] \in InFlight \cup {"absent"} => state'[q] = accepted[q]
          /\ \A q \in Paths : accepted[q] \in Terminal => state'[q] \in {accepted[q], "absent"}
      BY <1>1, EvictionKeepsInFlight
    <2>2. /\ accepted[p] = AcceptedState(p)
          /\ \A q \in Paths : q # p => accepted[q] = state[q]
      BY DEF accepted, TypeOK
    <2>3. \A q \in Paths : state[q] \in TaskState
      BY DEF TypeOK
    <2> QED BY <1>1, <2>1, <2>2, <2>3
  <1> HIDE DEF accepted
  <1>3. \A i \in 1..Len(waiting) : waiting[i] # p
    BY <1>1 DEF StatusIsTrue, TypeOK
  <1>4. /\ slot' \in [Paths -> Nat] /\ queuedAt' \in [Paths -> Nat] /\ clock' \in Nat
        /\ UNCHANGED <<running, started, inRun, resuming, taskWaiters, idleWaiters, answer>>
    BY DEF Enqueue, TypeOK
  <1>5. CASE AcceptedState(p) = "pending"
    <2>1. waiting' = Append(waiting, p) /\ kicked' = TRUE
      BY <1>5 DEF Enqueue, Schedule
    <2>2. /\ waiting' \in Seq(Paths) /\ Len(waiting) \in Nat
          /\ Len(waiting') = Len(waiting) + 1
          /\ \A i \in 1..Len(waiting) : waiting'[i] = waiting[i]
          /\ waiting'[Len(waiting) + 1] = p
      BY <2>1 DEF TypeOK
    <2>3. TypeOK'
      BY <1>2, <1>4, <2>1, <2>2 DEF TypeOK
    <2>4. OneLoop' /\ OneRunAtATime' /\ WorkIsReached'
      BY <1>4, <2>1 DEF OneLoop, OneRunAtATime, WorkIsReached
    <2>5. WaitersAreReached'
      BY <1>1, <1>2, <1>4, <2>1 DEF WaitersAreReached
    <2>6. StatusIsTrue'
      <3>1. \A i, j \in 1..Len(waiting') : waiting'[i] = waiting'[j] => i = j
        BY <1>3, <2>2 DEF StatusIsTrue
      <3>2. ASSUME NEW q \in Paths
            PROVE  state'[q] = "pending" <=> \E i \in 1..Len(waiting') : waiting'[i] = q
        <4>1. CASE q = p
          BY <4>1, <1>2, <1>5, <2>2
        <4>2. CASE q # p
          <5>1. state'[q] = "pending" <=> state[q] = "pending"
            BY <4>2, <1>2 DEF TypeOK
          <5>2. (\E i \in 1..Len(waiting') : waiting'[i] = q)
                  <=> \E i \in 1..Len(waiting) : waiting[i] = q
            BY <4>2, <2>2
          <5> QED BY <5>1, <5>2 DEF StatusIsTrue
        <4> QED BY <4>1, <4>2
      <3>3. \A q \in Paths : state'[q] = "running" <=> q \in inRun'
        BY <1>1, <1>2, <1>4, <1>5 DEF StatusIsTrue, TypeOK
      <3> QED BY <3>1, <3>2, <3>3 DEF StatusIsTrue
    <2> QED BY <2>3, <2>4, <2>5, <2>6
  <1>6. CASE AcceptedState(p) # "pending"
    <2>1. UNCHANGED <<waiting, kicked>>
      BY <1>6 DEF Enqueue
    <2>2. TypeOK'
      BY <1>2, <1>4, <2>1 DEF TypeOK
    <2>3. OneLoop' /\ OneRunAtATime' /\ WorkIsReached'
      BY <1>4, <2>1 DEF OneLoop, OneRunAtATime, WorkIsReached
    <2>4. WaitersAreReached'
      BY <1>1, <1>2, <1>4, <2>1 DEF WaitersAreReached
    <2>5. StatusIsTrue'
      <3>1. ASSUME NEW q \in Paths
            PROVE  /\ state'[q] = "pending" <=> state[q] = "pending"
                   /\ state'[q] = "running" <=> state[q] = "running"
        BY <1>1, <1>2, <1>6 DEF TypeOK
      <3> QED BY <1>4, <2>1, <3>1 DEF StatusIsTrue
    <2> QED BY <2>2, <2>3, <2>4, <2>5
  <1> QED BY <1>5, <1>6

(* The end of a run releases its waiters before its record can be evicted.   *)
LEMMA FinishRunPreserves ==
    ASSUME IInv, NEW p \in Paths, NEW o \in RunOutcomes, FinishRun(p, o)
    PROVE  IInv'
  <1> USE DEF IInv, mapVars
  <1> DEFINE ended == [state EXCEPT ![p] = o]
  <1>1. /\ p \in inRun /\ inRun' = inRun \ {p} /\ resuming' = resuming + 1
        /\ running' = None /\ state' = AfterEviction(ended, slot)
        /\ taskWaiters' = [taskWaiters EXCEPT ![p] = {}]
        /\ answer' = [c \in Callers |-> IF c \in taskWaiters[p] THEN o ELSE answer[c]]
        /\ UNCHANGED <<slot, queuedAt, clock, waiting, started, kicked, idleWaiters>>
    BY DEF FinishRun, ReleaseWaiters
  <1>2. inRun' = {} /\ inRun = {p} /\ resuming = 0 /\ resuming' = 1 /\ started
    BY <1>1 DEF OneRunAtATime, OneLoop, TypeOK
  <1>3. /\ state' \in [Paths -> TaskState]
        /\ state'[p] \notin InFlight
        /\ \A q \in Paths : q # p => (state'[q] \in InFlight <=> state[q] \in InFlight)
        /\ \A q \in Paths : q # p /\ state[q] \in InFlight => state'[q] = state[q]
    <2>1. ended \in [Paths -> TaskState] /\ ended[p] = o
          /\ \A q \in Paths : q # p => ended[q] = state[q]
      BY DEF TypeOK
    <2> HIDE DEF ended
    <2>2. /\ state' \in [Paths -> TaskState]
          /\ \A q \in Paths : ended[q] \in InFlight \cup {"absent"} => state'[q] = ended[q]
          /\ \A q \in Paths : ended[q] \in Terminal => state'[q] \in {ended[q], "absent"}
      BY <1>1, <2>1, EvictionKeepsInFlight
    <2>3. \A q \in Paths : state[q] \in TaskState
      BY DEF TypeOK
    <2> QED BY <2>1, <2>2, <2>3
  <1> HIDE DEF ended
  <1>4. TypeOK'
    <2>1. answer' \in [Callers -> TaskState \cup {Idle, Waiting}]
      BY <1>1 DEF TypeOK
    <2>2. taskWaiters' \in [Paths -> SUBSET Callers]
      BY <1>1 DEF TypeOK
    <2> QED BY <1>1, <1>2, <1>3, <2>1, <2>2 DEF TypeOK
  <1>5. OneLoop' /\ WorkIsReached'
    BY <1>1, <1>2 DEF OneLoop, WorkIsReached
  <1>6. OneRunAtATime'
    BY <1>1, <1>2, QueueAssumption DEF OneRunAtATime
  <1>7. WaitersAreReached'
    BY <1>1, <1>2, <1>3 DEF WaitersAreReached, TypeOK
  <1>8. StatusIsTrue'
    <2>1. ASSUME NEW q \in Paths
          PROVE  state'[q] = "pending" <=> state[q] = "pending"
      BY <1>1, <1>2, <1>3 DEF StatusIsTrue, TypeOK
    <2>2. ASSUME NEW q \in Paths
          PROVE  state'[q] = "running" <=> q \in inRun'
      BY <1>1, <1>2, <1>3 DEF StatusIsTrue, TypeOK
    <2> QED BY <1>1, <2>1, <2>2 DEF StatusIsTrue
  <1> QED BY <1>4, <1>5, <1>6, <1>7, <1>8

-----------------------------------------------------------------------------
(* The invariant is inductive: every operation of the queue and every turn   *)
(* of its worker preserves it.                                               *)
LEMMA NextPreserves == IInv /\ [Next]_vars => IInv'
  <1> SUFFICES ASSUME IInv, [Next]_vars PROVE IInv'
    OBVIOUS
  <1>1. ASSUME NEW p \in Paths, Enqueue(p) PROVE IInv'
    BY <1>1, EnqueuePreserves
  <1>2. CASE Work
    <2>1. CASE started
      <3>1. kicked' = FALSE /\ UNCHANGED <<state, waiting, loopVars, callerVars, mapVars>>
        BY <1>2, <2>1 DEF Work, MayStart
      <3>2. UNCHANGED <<state, slot, queuedAt, clock, waiting, running, started,
                        inRun, resuming, taskWaiters, idleWaiters, answer>>
        BY <3>1 DEF mapVars, loopVars, callerVars
      <3>3. TypeOK'
        BY <3>1, <3>2 DEF IInv, TypeOK
      <3>4. OneLoop' /\ OneRunAtATime' /\ WorkIsReached' /\ WaitersAreReached'
        BY <2>1, <3>2 DEF IInv, OneLoop, OneRunAtATime, WorkIsReached, WaitersAreReached
      <3>5. StatusIsTrue'
        BY <3>2 DEF IInv, StatusIsTrue
      <3> QED BY <3>3, <3>4, <3>5 DEF IInv
    <2>2. CASE ~started
      <3>1. inRun = {} /\ resuming' = 0
        BY <1>2, <2>2 DEF Work, MayStart, IInv, OneLoop, TypeOK
      <3> QED
        BY <1>2, <2>2, <3>1, TurnPreserves DEF Work, MayStart
    <2> QED BY <2>1, <2>2
  <1>3. ASSUME NEW p \in Paths, NEW o \in RunOutcomes, FinishRun(p, o) PROVE IInv'
    BY <1>3, FinishRunPreserves
  <1>4. CASE Resume
    <2>1. inRun = {} /\ resuming' = 0 /\ kicked' \in BOOLEAN
      BY <1>4 DEF Resume, RunReturned, IInv, OneLoop, TypeOK
    <2> QED BY <1>4, <2>1, TurnPreserves DEF Resume, RunReturned
  <1>5. ASSUME NEW c \in Callers, NEW p \in Paths, Settled(c, p) PROVE IInv'
    <2>1. /\ UNCHANGED <<state, slot, queuedAt, clock, waiting, running, started,
                         kicked, inRun, resuming, idleWaiters>>
          /\ \/ /\ state[p] \in InFlight
                /\ taskWaiters' = [taskWaiters EXCEPT ![p] = @ \cup {c}]
                /\ answer' = [answer EXCEPT ![c] = Waiting]
             \/ /\ answer' = [answer EXCEPT ![c] = state[p]]
                /\ UNCHANGED taskWaiters
      BY <1>5 DEF Settled, mapVars, loopVars
    <2>2. /\ taskWaiters' \in [Paths -> SUBSET Callers]
          /\ answer' \in [Callers -> TaskState \cup {Idle, Waiting}]
      <3> DEFINE Reply == TaskState \cup {Idle, Waiting}
      <3>1. answer \in [Callers -> Reply] /\ state[p] \in Reply /\ Waiting \in Reply
        BY DEF IInv, TypeOK
      <3>2. taskWaiters \in [Paths -> SUBSET Callers]
        BY DEF IInv, TypeOK
      <3> HIDE DEF Reply
      <3>3. answer' \in [Callers -> Reply]
        BY <2>1, <3>1
      <3>4. taskWaiters' \in [Paths -> SUBSET Callers]
        BY <2>1, <3>2
      <3> QED BY <3>3, <3>4 DEF Reply
    <2>3. TypeOK'
      BY <2>1, <2>2 DEF IInv, TypeOK
    <2>4. WaitersAreReached'
      BY <2>1 DEF IInv, TypeOK, WaitersAreReached
    <2> QED
      BY <2>1, <2>3, <2>4 DEF IInv, OneLoop, OneRunAtATime, StatusIsTrue, WorkIsReached
  <1>6. ASSUME NEW c \in Callers, Drain(c) PROVE IInv'
    <2>1. UNCHANGED <<state, slot, queuedAt, clock, waiting, running, started,
                      kicked, inRun, resuming, taskWaiters>>
      BY <1>6 DEF Drain, mapVars, loopVars
    <2>2. TypeOK'
      BY <1>6, <2>1 DEF IInv, TypeOK, Drain
    <2>3. WaitersAreReached'
      BY <1>6, <2>1, QueueAssumption
         DEF IInv, TypeOK, WaitersAreReached, Drain, WorkIsReached, OneLoop, OneRunAtATime
    <2> QED
      BY <2>1, <2>2, <2>3 DEF IInv, OneLoop, OneRunAtATime, StatusIsTrue, WorkIsReached
  <1>7. CASE UNCHANGED vars
    BY <1>7 DEF vars, IInv, TypeOK, OneLoop, OneRunAtATime, StatusIsTrue,
                WorkIsReached, WaitersAreReached
  <1> QED
    BY <1>1, <1>2, <1>3, <1>4, <1>5, <1>6, <1>7 DEF Next

LEMMA InitEstablishes == Init => IInv
  <1> SUFFICES ASSUME Init PROVE IInv
    OBVIOUS
  <1>1. waiting = <<>> /\ <<>> \in Seq(Paths) /\ Len(<<>>) = 0
    BY DEF Init
  <1>2. TypeOK
    BY <1>1 DEF Init, TypeOK
  <1>3. OneLoop /\ OneRunAtATime /\ StatusIsTrue
    BY <1>1, QueueAssumption DEF Init, OneLoop, OneRunAtATime, StatusIsTrue
  <1>4. WorkIsReached /\ WaitersAreReached
    BY <1>1 DEF Init, WorkIsReached, WaitersAreReached
  <1> QED BY <1>2, <1>3, <1>4 DEF IInv

LEMMA Invariance == Spec => []IInv
  BY InitEstablishes, NextPreserves, PTL DEF Spec

(* The variables keep their types.                                           *)
THEOREM TypeCorrect == Spec => []TypeOK
  <1>1. IInv => TypeOK
    BY DEF IInv
  <1> QED BY <1>1, Invariance, PTL

(* At most one extraction runs at a time, whatever the order of microtasks,  *)
(* uploads and retries.                                                      *)
THEOREM Serialized == Spec => []OneRunAtATime
  <1>1. IInv => OneRunAtATime
    BY DEF IInv
  <1> QED BY <1>1, Invariance, PTL

(* The status surface never shows a phantom: pending means in line exactly   *)
(* once, running means being run.                                            *)
THEOREM StatusTruthful == Spec => []StatusIsTrue
  <1>1. IInv => StatusIsTrue
    BY DEF IInv
  <1> QED BY <1>1, Invariance, PTL

(* No accepted document waits without a loop that reaches it, and no caller  *)
(* for a task that has no run to come.                                       *)
THEOREM WakeupNeverLost == Spec => []NoLostWakeup
  <1>1. IInv => NoLostWakeup
    BY DEF IInv, NoLostWakeup, WorkIsReached, WaitersAreReached
  <1> QED BY <1>1, Invariance, PTL

-----------------------------------------------------------------------------
(* The order in which documents start.  The line is sorted by the time of    *)
(* acceptance: who joins is newer than all before, and only the head leaves. *)
LineIsOrdered ==
    /\ \A i, j \in 1..Len(waiting) : i < j => queuedAt[waiting[i]] < queuedAt[waiting[j]]
    /\ \A p \in Paths : queuedAt[p] <= clock

LEMMA OrderUntouched ==
    ASSUME LineIsOrdered, UNCHANGED <<waiting, queuedAt, clock>> PROVE LineIsOrdered'
  BY DEF LineIsOrdered

LEMMA EnqueueOrders ==
    ASSUME IInv, LineIsOrdered, NEW p \in Paths, Enqueue(p) PROVE LineIsOrdered'
  <1>1. /\ state[p] \notin InFlight /\ clock \in Nat /\ clock' = clock + 1
        /\ queuedAt' = [queuedAt EXCEPT ![p] = clock'] /\ queuedAt \in [Paths -> Nat]
        /\ waiting \in Seq(Paths) /\ Len(waiting) \in Nat
        /\ waiting' = waiting \/ waiting' = Append(waiting, p)
    BY DEF Enqueue, Schedule, IInv, TypeOK
  <1>2. \A i \in 1..Len(waiting) : waiting[i] # p
    BY <1>1 DEF IInv, StatusIsTrue
  <1>3. \A i \in 1..Len(waiting) :
           waiting[i] \in Paths /\ queuedAt'[waiting[i]] = queuedAt[waiting[i]]
    BY <1>1, <1>2
  <1>4. \A q \in Paths : queuedAt'[q] <= clock' /\ queuedAt'[p] = clock'
    BY <1>1 DEF LineIsOrdered
  <1>5. CASE waiting' = waiting
    BY <1>3, <1>4, <1>5 DEF LineIsOrdered
  <1>6. CASE waiting' = Append(waiting, p)
    <2>1. /\ Len(waiting') = Len(waiting) + 1 /\ waiting'[Len(waiting) + 1] = p
          /\ \A i \in 1..Len(waiting) : waiting'[i] = waiting[i]
      BY <1>1, <1>6
    <2>2. ASSUME NEW i \in 1..Len(waiting'), NEW j \in 1..Len(waiting'), i < j
          PROVE  queuedAt'[waiting'[i]] < queuedAt'[waiting'[j]]
      <3>1. i \in 1..Len(waiting) /\ waiting'[i] = waiting[i]
        BY <1>1, <2>1, <2>2
      <3>2. queuedAt[waiting[i]] \in Nat /\ queuedAt[waiting[i]] <= clock
        BY <1>1, <1>3, <3>1 DEF LineIsOrdered
      <3>3. CASE j = Len(waiting) + 1
        BY <1>1, <1>3, <1>4, <2>1, <3>1, <3>2, <3>3
      <3>4. CASE j \in 1..Len(waiting)
        BY <1>3, <2>1, <2>2, <3>1, <3>4 DEF LineIsOrdered
      <3> QED BY <1>1, <2>1, <3>3, <3>4
    <2> QED BY <1>4, <2>2 DEF LineIsOrdered
  <1> QED BY <1>1, <1>5, <1>6

LEMMA TurnOrders ==
    ASSUME IInv, LineIsOrdered, TakeNext(waiting), UNCHANGED mapVars
    PROVE  LineIsOrdered'
  <1>1. CASE waiting = <<>>
    BY <1>1, TurnEndsLoop DEF IInv, LineIsOrdered, mapVars
  <1>2. CASE waiting # <<>>
    <2>0. waiting' = Tail(waiting)
      BY <1>2, TurnTakesHead DEF IInv
    <2>1. /\ waiting' = Tail(waiting) /\ Len(waiting) \in Nat
          /\ Len(waiting') = Len(waiting) - 1
          /\ \A i \in 1..Len(waiting') : waiting'[i] = waiting[i + 1]
      BY <1>2, <2>0, HeadTailProperties DEF IInv, TypeOK
    <2>2. \A i, j \in 1..Len(waiting') : i < j =>
             i + 1 \in 1..Len(waiting) /\ j + 1 \in 1..Len(waiting) /\ i + 1 < j + 1
      BY <2>1
    <2>3. \A i, j \in 1..Len(waiting') : i < j =>
             queuedAt[waiting'[i]] < queuedAt[waiting'[j]]
      BY <2>1, <2>2 DEF LineIsOrdered
    <2> QED BY <2>3 DEF LineIsOrdered, mapVars
  <1> QED BY <1>1, <1>2

LEMMA NextOrders == IInv /\ LineIsOrdered /\ [Next]_vars => LineIsOrdered'
  <1> SUFFICES ASSUME IInv, LineIsOrdered, [Next]_vars PROVE LineIsOrdered'
    OBVIOUS
  <1>1. ASSUME NEW p \in Paths, Enqueue(p) PROVE LineIsOrdered'
    BY <1>1, EnqueueOrders
  <1>2. CASE Work
    BY <1>2, OrderUntouched, TurnOrders DEF Work, mapVars
  <1>3. CASE Resume
    BY <1>3, TurnOrders DEF Resume
  <1>4. ASSUME NEW p \in Paths, NEW o \in RunOutcomes, FinishRun(p, o) PROVE LineIsOrdered'
    BY <1>4, OrderUntouched DEF FinishRun, mapVars
  <1>5. ASSUME NEW c \in Callers, \/ \E p \in Paths : Settled(c, p)
                                  \/ Drain(c)
        PROVE  LineIsOrdered'
    BY <1>5, OrderUntouched DEF Settled, Drain, mapVars
  <1>6. CASE UNCHANGED vars
    BY <1>6, OrderUntouched DEF vars
  <1> QED BY <1>1, <1>2, <1>3, <1>4, <1>5, <1>6 DEF Next

(* A document that starts is the head of the line, so it was accepted before *)
(* every other one that waits.                                               *)
LEMMA StartsFirst ==
    ASSUME IInv, LineIsOrdered, TakeNext(waiting), NEW p \in Paths, NEW q \in Paths,
           state[p] = "pending", state'[p] = "running", state[q] = "pending", q # p
    PROVE  queuedAt[p] < queuedAt[q]
  <1>1. waiting # <<>>
    BY TurnEndsLoop DEF IInv
  <1>2a. state \in [Paths -> TaskState] /\ waiting \in Seq(Paths)
    BY DEF IInv, TypeOK
  <1>2b. Head(waiting) \in Paths /\ state' = [state EXCEPT ![Head(waiting)] = "running"]
    BY <1>1, TurnTakesHead DEF IInv
  <1>2c. p = Head(waiting)
    BY <1>2a, <1>2b
  <1>2. p = Head(waiting) /\ Len(waiting) \in Nat /\ Len(waiting) > 0 /\ waiting[1] = p
    BY <1>1, <1>2a, <1>2c
  <1>3. PICK i \in 1..Len(waiting) : waiting[i] = q
    BY DEF IInv, StatusIsTrue
  <1>4. 1 \in 1..Len(waiting) /\ 1 < i
    BY <1>2, <1>3
  <1> QED BY <1>2, <1>3, <1>4 DEF LineIsOrdered

LEMMA StepStartsFirst ==
    ASSUME IInv, LineIsOrdered, Next, NEW p \in Paths, NEW q \in Paths,
           state[p] = "pending", state'[p] = "running", state[q] = "pending", q # p
    PROVE  queuedAt[p] < queuedAt[q]
  <1>1. ASSUME NEW r \in Paths, Enqueue(r) PROVE FALSE
    <2> DEFINE accepted == [state EXCEPT ![r] = AcceptedState(r)]
    <2>1. /\ accepted \in [Paths -> TaskState] /\ state' = AfterEviction(accepted, slot')
          /\ accepted[p] = "pending"
      BY <1>1 DEF Enqueue, AcceptedState, IInv, TypeOK
    <2> HIDE DEF accepted
    <2> QED BY <2>1, EvictionKeepsInFlight
  <1>2. ASSUME NEW r \in Paths, NEW o \in RunOutcomes, FinishRun(r, o) PROVE FALSE
    <2> DEFINE ended == [state EXCEPT ![r] = o]
    <2>1. /\ ended \in [Paths -> TaskState] /\ state' = AfterEviction(ended, slot)
          /\ ended[p] \in {"pending"} \cup Terminal
      BY <1>2 DEF FinishRun, IInv, TypeOK
    <2> HIDE DEF ended
    <2> QED BY <2>1, EvictionKeepsInFlight
  <1>3. CASE Work
    BY <1>3, StartsFirst DEF Work
  <1>4. CASE Resume
    BY <1>4, StartsFirst DEF Resume
  <1>5. ASSUME NEW c \in Callers, (\E r \in Paths : Settled(c, r)) \/ Drain(c) PROVE FALSE
    BY <1>5 DEF Settled, Drain
  <1> QED BY <1>1, <1>2, <1>3, <1>4, <1>5 DEF Next

(* Documents start in the order in which they were accepted: a repeat keeps  *)
(* its place in the Map, but not in the line.                                *)
THEOREM StartsInOrder == Spec => StartsInAcceptanceOrder
  <1> DEFINE InOrder == \A p, q \in Paths :
                 /\ state[p] = "pending" /\ state'[p] = "running"
                 /\ state[q] = "pending" /\ q # p
                 => queuedAt[p] < queuedAt[q]
  <1>1. Init => LineIsOrdered
    BY DEF Init, LineIsOrdered
  <1>2. IInv /\ LineIsOrdered /\ [Next]_vars => [InOrder]_vars
    BY StepStartsFirst
  <1>3. StartsInAcceptanceOrder <=> [][InOrder]_vars
    BY DEF StartsInAcceptanceOrder
  <1> HIDE DEF InOrder
  <1> QED BY <1>1, <1>2, <1>3, NextOrders, Invariance, PTL DEF Spec

-----------------------------------------------------------------------------
(* What a caller of settled() hears.  Only the end of a run releases the     *)
(* waiters of a task, and its record may be evicted after that.              *)
LEMMA StepTellsWaiters ==
    ASSUME IInv, Next, NEW c \in Callers, NEW p \in Paths,
           c \in taskWaiters[p], c \notin taskWaiters'[p]
    PROVE  answer'[c] \in Terminal /\ state'[p] \in {answer'[c], "absent"}
  <1>0. taskWaiters \in [Paths -> SUBSET Callers] /\ state \in [Paths -> TaskState]
    BY DEF IInv, TypeOK
  <1>1. ASSUME UNCHANGED taskWaiters PROVE FALSE
    BY <1>1
  <1>2. ASSUME NEW r \in Paths, NEW o \in RunOutcomes, FinishRun(r, o)
        PROVE  answer'[c] \in Terminal /\ state'[p] \in {answer'[c], "absent"}
    <2>1. r = p /\ answer'[c] = o
      BY <1>0, <1>2 DEF FinishRun, ReleaseWaiters
    <2> DEFINE ended == [state EXCEPT ![p] = o]
    <2>2. ended \in [Paths -> TaskState] /\ ended[p] = o
      BY <1>0
    <2>3. state' = AfterEviction(ended, slot)
      BY <1>2, <2>1 DEF FinishRun
    <2> HIDE DEF ended
    <2> QED BY <2>1, <2>2, <2>3, EvictionKeepsInFlight
  <1>3. ASSUME NEW d \in Callers, NEW r \in Paths, Settled(d, r) PROVE FALSE
    BY <1>0, <1>3 DEF Settled
  <1>4. ASSUME NEW r \in Paths, Enqueue(r) PROVE FALSE
    BY <1>1, <1>4 DEF Enqueue, callerVars
  <1>5. CASE Work \/ Resume \/ \E d \in Callers : Drain(d)
    BY <1>1, <1>5 DEF Work, Resume, Drain, callerVars
  <1> QED BY <1>2, <1>3, <1>4, <1>5 DEF Next

(* Whoever waits for a document is told how its own run ended, and the       *)
(* record says the same unless it was evicted at once.                       *)
THEOREM WaitersAreTold == Spec => WaiterHearsItsTask
  <1> DEFINE Told == \A c \in Callers, p \in Paths :
                 c \in taskWaiters[p] /\ c \notin taskWaiters'[p]
                 => /\ answer'[c] \in Terminal
                    /\ state'[p] \in {answer'[c], "absent"}
  <1>1. IInv /\ [Next]_vars => [Told]_vars
    BY StepTellsWaiters
  <1>2. WaiterHearsItsTask <=> [][Told]_vars
    BY DEF WaiterHearsItsTask
  <1> HIDE DEF Told
  <1> QED BY <1>1, <1>2, Invariance, PTL DEF Spec

-----------------------------------------------------------------------------
(* The refinement of ExtractionPromise: its status is the queue's record.    *)
USE DEF Promise!Ended, Promise!Busy

(* A record that is changed and then subject to eviction is a step of the    *)
(* promised service.                                                         *)
LEMMA EvictionIsForgetting ==
    ASSUME TypeOK, TypeOK', NEW p \in Paths, NEW s \in TaskState, NEW at,
           state' = AfterEviction([state EXCEPT ![p] = s], at)
    PROVE  Promise!Becomes(p, s)
  <1> DEFINE t == [state EXCEPT ![p] = s]
  <1>1. t \in [Paths -> TaskState]
    BY DEF TypeOK
  <1>2. state' = AfterEviction(t, at)
    OBVIOUS
  <1> HIDE DEF t
  <1>3. \A q \in Paths : state'[q] = t[q] \/ (t[q] \in Terminal /\ state'[q] = "absent")
    BY <1>1, <1>2, EvictionKeepsInFlight
  <1>4. Promise!Forgetting(t, state')
    BY <1>3 DEF Promise!Forgetting
  <1>5. state' \in [Paths -> Promise!Ended \cup Promise!Busy \cup {"absent"}]
    BY DEF TypeOK
  <1> QED BY <1>4, <1>5 DEF Promise!Becomes, t

LEMMA TurnIsBegin ==
    ASSUME IInv, IInv', inRun = {}, TakeNext(waiting)
    PROVE  UNCHANGED state \/ \E p \in Paths : Promise!Begin(p)
  <1>1. CASE waiting = <<>>
    BY <1>1, TurnEndsLoop DEF IInv
  <1>2. CASE waiting # <<>>
    <2> DEFINE p == Head(waiting)
    <2>1. p \in Paths /\ state[p] = "pending" /\ state' = [state EXCEPT ![p] = "running"]
      BY <1>2, TurnTakesHead DEF IInv
    <2> HIDE DEF p
    <2>2. \A q \in Paths : state[q] # "running"
      BY DEF IInv, StatusIsTrue
    <2>3. Promise!Becomes(p, "running")
      BY <2>1 DEF Promise!Becomes, Promise!Forgetting, IInv, TypeOK
    <2> QED BY <2>1, <2>2, <2>3 DEF Promise!Begin
  <1> QED BY <1>1, <1>2

LEMMA NextRefines == IInv /\ IInv' /\ [Next]_vars => [Promise!Next]_state
  <1> SUFFICES ASSUME IInv, IInv', Next PROVE UNCHANGED state \/ Promise!Next
    BY DEF vars
  <1>0. TypeOK /\ TypeOK'
    BY DEF IInv
  <1>1. ASSUME NEW p \in Paths, Enqueue(p) PROVE Promise!Accept(p)
    <2>1. AcceptedState(p) \in {"pending", "already-markdown", "unsupported"}
      BY DEF AcceptedState
    <2>2. state' = AfterEviction([state EXCEPT ![p] = AcceptedState(p)], slot')
      BY <1>1 DEF Enqueue
    <2>3. Promise!Becomes(p, AcceptedState(p))
      BY <1>0, <2>1, <2>2, EvictionIsForgetting
    <2> QED BY <1>1, <2>1, <2>3 DEF Promise!Accept, Enqueue
  <1>2. CASE Work
    <2>1. CASE started
      BY <1>2, <2>1 DEF Work, MayStart
    <2>2. CASE ~started
      <3>1. inRun = {} /\ TakeNext(waiting)
        BY <1>2, <2>2 DEF Work, MayStart, IInv, OneLoop
      <3> QED BY <3>1, TurnIsBegin DEF Promise!Next
    <2> QED BY <2>1, <2>2
  <1>3. ASSUME NEW p \in Paths, NEW o \in RunOutcomes, FinishRun(p, o)
        PROVE  Promise!End(p)
    <2>1. state[p] = "running"
      BY <1>3 DEF FinishRun, IInv, StatusIsTrue
    <2>2. state' = AfterEviction([state EXCEPT ![p] = o], slot)
      BY <1>3 DEF FinishRun
    <2>3. Promise!Becomes(p, o)
      BY <1>0, <2>2, EvictionIsForgetting
    <2> QED BY <2>1, <2>3 DEF Promise!End
  <1>4. CASE Resume
    <2>1. inRun = {} /\ TakeNext(waiting)
      BY <1>4 DEF Resume, RunReturned, IInv, OneLoop
    <2> QED BY <2>1, TurnIsBegin DEF Promise!Next
  <1>5. ASSUME NEW c \in Callers, NEW p \in Paths, Settled(c, p) PROVE UNCHANGED state
    BY <1>5 DEF Settled
  <1>6. ASSUME NEW c \in Callers, Drain(c) PROVE UNCHANGED state
    BY <1>6 DEF Drain
  <1> QED
    BY <1>1, <1>2, <1>3, <1>4, <1>5, <1>6 DEF Next, Promise!Next

(* The queue implements the serial extraction service its interface          *)
(* describes, for any documents, callers and eviction bound.                 *)
THEOREM Refinement == Spec => KeepsPromise
  <1>1. Init => Promise!Init
    BY DEF Init, Promise!Init
  <1> QED
    BY <1>1, NextRefines, Invariance, PTL DEF Spec, KeepsPromise, Promise!Spec
=============================================================================
