-------------------------- MODULE SupervisorProofs ---------------------------
(***************************************************************************)
(* Theorems about Supervisor, for any number of Web processes, respawns and *)
(* commands, and whatever fails: the types, that a Web whose exit was seen   *)
(* is not owned any more, that respawns are bounded and that a command that  *)
(* succeeds leaves no captured session behind; and, until two flows have     *)
(* been under way at one time, that there is one Web and that a stop sticks. *)
(***************************************************************************)
EXTENDS Supervisor, TLAPS

USE SupervisorAssumption

LEMMA FlowUpdate ==
    ASSUME NEW s \in SupState, NEW f \in Flows, NEW x \in FlowState
    PROVE  [s EXCEPT !.flow[f] = x] \in SupState
BY DEF SupState

LEMMA FlowMoves ==
    ASSUME NEW s \in SupState, NEW f \in Flows,
           NEW pc \in {"takeover", "drain", "waitEntry", "retry", "answered", "captured"},
           s.flow[f].at \in Waiting \/ pc \notin Waiting
    PROVE  [s EXCEPT !.flow[f].at = pc] \in SupState
<1>0. s.flow[f] \in FlowState
  BY DEF SupState
<1>1. [s.flow[f] EXCEPT !.at = pc] \in FlowState
  BY <1>0 DEF FlowState, Waiting
<1>2. [s EXCEPT !.flow[f].at = pc] = [s EXCEPT !.flow[f] = [s.flow[f] EXCEPT !.at = pc]]
  BY DEF SupState
<1> QED BY <1>1, <1>2, FlowUpdate

LEMMA ScheduleType ==
    ASSUME NEW s \in SupState PROVE ScheduleRespawn(s) \in SupState
<1>1. s.attempts + 1 \in Nat
  BY DEF SupState
<1>2. [s EXCEPT !.attempts = @ + 1] \in SupState
  BY <1>1 DEF SupState
<1>3. ASSUME NEW b \in BOOLEAN PROVE [[s EXCEPT !.attempts = @ + 1] EXCEPT !.timer = b] \in SupState
  BY <1>2 DEF SupState
<1>4. (s.attempts < MaxRespawns) \in BOOLEAN
  OBVIOUS
<1>5. [[s EXCEPT !.attempts = @ + 1] EXCEPT !.timer = s.attempts < MaxRespawns] \in SupState
  BY <1>3, <1>4
<1>6. [[s EXCEPT !.attempts = @ + 1] EXCEPT !.timer = s.attempts < MaxRespawns]
      = [s EXCEPT !.attempts = @ + 1, !.timer = s.attempts < MaxRespawns]
  BY DEF SupState
<1> QED BY <1>5, <1>6 DEF ScheduleRespawn

LEMMA SettledType ==
    ASSUME NEW s \in SupState PROVE Settled(s) \in SupState
<1>1. Idle \in FlowState /\ "command" \in Flows
  BY DEF Idle, FlowState, Waiting, Flows
<1>2. [s EXCEPT !.flow["command"] = Idle] \in SupState
  BY <1>1, FlowUpdate
<1>3. NoCommand \in [kind : {"none"} \cup Commands, was : BOOLEAN, sessions : BOOLEAN]
  BY DEF NoCommand
<1>4. [[s EXCEPT !.flow["command"] = Idle] EXCEPT !.cmd = NoCommand, !.ended = TRUE] \in SupState
  BY <1>2, <1>3 DEF SupState
<1> QED BY <1>4 DEF Settled, SupState

LEMMA CommandFlow ==
    ASSUME NEW s \in SupState,
           NEW pc \in {"ask", "build", "capture", "recover"}
    PROVE  [s EXCEPT !.flow["command"] = At(pc, "command", None)] \in SupState
<1>1. At(pc, "command", None) \in FlowState /\ "command" \in Flows
  BY DEF At, FlowState, Waiting, Flows
<1> QED BY <1>1, FlowUpdate

LEMMA IdleFlow ==
    ASSUME NEW s \in SupState, NEW f \in Flows
    PROVE  [s EXCEPT !.flow[f] = Idle] \in SupState
<1>1. Idle \in FlowState
  BY DEF Idle, FlowState, Waiting
<1> QED BY <1>1, FlowUpdate

LEMMA ThrewType ==
    ASSUME NEW s \in SupState, NEW f \in Flows PROVE Threw(s, f) \in SupState
<1>1. [s EXCEPT !.flow[f] = Idle] \in SupState
  BY IdleFlow
<1>2. [[s EXCEPT !.flow[f] = Idle] EXCEPT !.exited = TRUE] \in SupState
  BY <1>1 DEF SupState
<1>3. [[s EXCEPT !.flow[f] = Idle] EXCEPT !.exited = TRUE]
      = [s EXCEPT !.flow[f] = Idle, !.exited = TRUE]
  BY DEF SupState
<1>4. [Settled(s) EXCEPT !.ended = FALSE] \in SupState
  BY SettledType DEF SupState
<1> QED BY <1>1, <1>2, <1>3, <1>4, ScheduleType DEF Threw

LEMMA RecoveringType ==
    ASSUME NEW s \in SupState PROVE Recovering(s) \in SupState
BY CommandFlow, SettledType DEF Recovering

LEMMA StartedType ==
    ASSUME NEW s \in SupState, NEW f \in Flows PROVE Started(s, f) \in SupState
<1>1. [s EXCEPT !.flow[f] = Idle] \in SupState
  BY IdleFlow
<1>2. [[s EXCEPT !.flow[f] = Idle] EXCEPT !.booted = @ \/ f = "boot"] \in SupState
  BY <1>1 DEF SupState
<1>3. [[s EXCEPT !.flow[f] = Idle] EXCEPT !.booted = @ \/ f = "boot"]
      = [s EXCEPT !.flow[f] = Idle, !.booted = @ \/ f = "boot"]
  BY DEF SupState
<1> QED BY <1>2, <1>3, SettledType, RecoveringType DEF Started

LEMMA StartWebType ==
    ASSUME NEW s \in SupState, NEW f \in Flows PROVE StartWeb(s, f) \in SupState
<1>1. At("probe", "start", None) \in FlowState
  BY DEF At, FlowState, Waiting
<1> QED BY <1>1, FlowUpdate, StartedType DEF StartWeb

LEMMA CommandedType ==
    ASSUME NEW s \in SupState PROVE Commanded(s) \in SupState
BY DEF Commanded, SupState

LEMMA StopType ==
    ASSUME NEW s \in SupState, NEW f \in Flows PROVE Stop(s, f) \in SupState
<1>1. s.web \in Webs \cup {None}
  BY DEF SupState
<1>2. /\ s.web # None => At("waitExit", "stop", s.web) \in FlowState
      /\ At("probe", "stop", None) \in FlowState
  BY <1>1 DEF At, FlowState, Waiting
<1> QED BY <1>2, CommandedType, FlowUpdate DEF Stop

LEMMA StoppedType ==
    ASSUME NEW s \in SupState PROVE Stopped(s) \in SupState
BY DEF Stopped, SupState

LEMMA StopReturnedType ==
    ASSUME NEW s \in SupState, NEW f \in Flows PROVE StopReturned(s, f) \in SupState
<1> DEFINE t == Stopped(s)
<1>1. t \in SupState
  BY StoppedType
<1> HIDE DEF t
<1>2. [t EXCEPT !.flow[f] = Idle] \in SupState
  BY <1>1, IdleFlow
<1>3. [[t EXCEPT !.flow[f] = Idle] EXCEPT !.exited = TRUE] \in SupState
  BY <1>2 DEF SupState
<1>4. [[t EXCEPT !.flow[f] = Idle] EXCEPT !.exited = TRUE]
      = [t EXCEPT !.flow[f] = Idle, !.exited = TRUE]
  BY <1>1 DEF SupState
<1>5. [Settled(t) EXCEPT !.down = TRUE] \in SupState
  BY <1>1, SettledType DEF SupState
<1>6. StartWeb(t, f) \in SupState /\ Recovering(t) \in SupState
  BY <1>1, StartWebType, RecoveringType
<1> QED BY <1>3, <1>4, <1>5, <1>6 DEF StopReturned, t

LEMMA ExitedType ==
    ASSUME NEW s \in SupState PROVE Exited(s) \in SupState
<1>1. Gone(s) \in SupState
  BY DEF Gone, SupState
<1> QED BY <1>1, ScheduleType DEF Exited

LEMMA ReadyType ==
    ASSUME NEW s \in SupState PROVE Ready(s) \in SupState
BY DEF Ready, SupState

LEMMA CaptureOrStopType ==
    ASSUME NEW s \in SupState PROVE CaptureOrStop(s) \in SupState
<1>1. "command" \in Flows
  BY DEF Flows
<1> QED BY <1>1, CommandFlow, StopType DEF CaptureOrStop

-----------------------------------------------------------------------------
(* What the operators do to the Web that is owned: none takes another one.   *)
LEMMA WebKept ==
    ASSUME NEW s \in SupState, NEW f \in Flows
    PROVE  /\ ScheduleRespawn(s).web = s.web
           /\ Settled(s).web = s.web
           /\ Recovering(s).web = s.web
           /\ Threw(s, f).web = s.web
           /\ Started(s, f).web = s.web
           /\ StartWeb(s, f).web = s.web
           /\ Stop(s, f).web = s.web
           /\ CaptureOrStop(s).web = s.web
<1>1. ASSUME NEW t \in SupState PROVE ScheduleRespawn(t).web = t.web
  BY <1>1 DEF ScheduleRespawn, SupState
<1>2. Settled(s).web = s.web
  BY DEF Settled, SupState
<1>3. Recovering(s).web = s.web
  BY <1>2 DEF Recovering, SupState
<1>4. Threw(s, f).web = s.web
  <2>1. [s EXCEPT !.flow[f] = Idle] \in SupState
    BY IdleFlow
  <2>2. [s EXCEPT !.flow[f] = Idle].web = s.web
    BY DEF SupState
  <2>3. [s EXCEPT !.flow[f] = Idle, !.exited = TRUE].web = s.web
    BY DEF SupState
  <2>4. [Settled(s) EXCEPT !.ended = FALSE].web = s.web
    BY <1>2, SettledType DEF SupState
  <2> QED BY <2>1, <2>2, <2>3, <2>4, <1>1 DEF Threw
<1>5. Started(s, f).web = s.web
  BY <1>2, <1>3 DEF Started, SupState
<1>6. StartWeb(s, f).web = s.web
  BY <1>5 DEF StartWeb, SupState
<1>7. ASSUME NEW g \in Flows PROVE Stop(s, g).web = s.web
  BY <1>7 DEF Stop, Commanded, SupState
<1>8. CaptureOrStop(s).web = s.web
  BY <1>7 DEF CaptureOrStop, SupState, Flows
<1> QED BY <1>1, <1>2, <1>3, <1>4, <1>5, <1>6, <1>7, <1>8

LEMMA WebGone ==
    ASSUME NEW s \in SupState, NEW f \in Flows
    PROVE  Exited(s).web = None /\ StopReturned(s, f).web = None
<1>1. Gone(s) \in SupState /\ Gone(s).web = None
  BY DEF Gone, SupState
<1>2. Exited(s).web = None
  BY <1>1, WebKept DEF Exited
<1> DEFINE t == Stopped(s)
<1>3. t \in SupState /\ t.web = None
  BY StoppedType DEF Stopped, SupState
<1> HIDE DEF t
<1>4. [t EXCEPT !.flow[f] = Idle, !.exited = TRUE].web = None
  BY <1>3 DEF SupState
<1>5. Settled(t) \in SupState /\ Settled(t).web = None
  BY <1>3, SettledType, WebKept
<1>6. [Settled(t) EXCEPT !.down = TRUE].web = None
  BY <1>5 DEF SupState
<1>7. StartWeb(t, f).web = None /\ Recovering(t).web = None
  BY <1>3, WebKept
<1>8. StopReturned(s, f).web = None
  BY <1>4, <1>6, <1>7 DEF StopReturned, t
<1> QED BY <1>2, <1>8

-----------------------------------------------------------------------------
Inv == TypeOK /\ OwnsNoGhost

(* A step of the event loop that leaves the processes alone and owns no      *)
(* other Web keeps the invariant.                                            *)
LEMMA BecomesKills ==
    ASSUME TypeOK, NEW t \in SupState, Becomes(t)
    PROVE  sup' \in SupState /\ killed' \subseteq Procs /\ met' \in BOOLEAN
<1>1. \A f \in Flows : t.flow[f].at = "waitExit" => t.flow[f].on \in Procs
  <2>1. ASSUME NEW f \in Flows, t.flow[f].at = "waitExit" PROVE t.flow[f].on \in Webs
    <3>1. t.flow[f] \in FlowState
      BY DEF SupState
    <3> QED BY <2>1, <3>1 DEF FlowState, Waiting
  <2> QED BY <2>1 DEF Procs
<1> QED BY <1>1 DEF Becomes, TypeOK

LEMMA BecomesKeeps ==
    ASSUME Inv, NEW t \in SupState, Becomes(t), t.web \in {sup.web, None},
           UNCHANGED <<proc, accepted, crashes>>
    PROVE  Inv'
<1>1. TypeOK'
  BY BecomesKills DEF Inv, TypeOK
<1>2. OwnsNoGhost'
  BY DEF Inv, OwnsNoGhost, Becomes, TypeOK
<1> QED BY <1>1, <1>2 DEF Inv

LEMMA ProcessKeeps ==
    ASSUME Inv, NEW p \in Procs,
           Listen(p) \/ PortTaken(p) \/ Terminated(p) \/ Crash(p)
    PROVE  Inv'
<1>1. PICK st \in {"listening", "dead"} : proc' = [proc EXCEPT ![p] = st]
  BY DEF Listen, PortTaken, Terminated, Crash
<1>2. UNCHANGED <<killed, sup, met, accepted>> /\ crashes' \in 0..MaxCrashes
  BY DEF Listen, PortTaken, Terminated, Crash, Inv, TypeOK, SupervisorAssumption
<1>3. TypeOK'
  BY <1>1, <1>2 DEF Inv, TypeOK
<1>4. OwnsNoGhost'
  BY <1>1, <1>2 DEF Inv, TypeOK, OwnsNoGhost
<1> QED BY <1>3, <1>4 DEF Inv

LEMMA ChildExitKeeps ==
    ASSUME Inv, NEW c \in Webs, ChildExit(c) PROVE Inv'
<1> DEFINE t == IF sup.web = c THEN Exited(sup) ELSE sup
<1>0. sup \in SupState /\ Becomes(t) /\ proc' = [proc EXCEPT ![c] = "reaped"]
      /\ UNCHANGED <<accepted, crashes>>
  BY DEF ChildExit, Inv, TypeOK
<1>1. t \in SupState
  BY <1>0, ExitedType
<1>2. t.web = None \/ (t.web = sup.web /\ sup.web # c)
  BY <1>0, WebGone DEF Flows
<1> HIDE DEF t
<1>3. TypeOK'
  BY <1>0, <1>1, BecomesKills DEF Inv, TypeOK
<1>4. OwnsNoGhost'
  BY <1>0, <1>2 DEF Inv, TypeOK, OwnsNoGhost, Becomes
<1> QED BY <1>3, <1>4 DEF Inv

LEMMA LaunchKeeps ==
    ASSUME Inv, NEW f \in Flows, Launch(f) PROVE Inv'
<1>1. PICK c \in Webs :
         /\ proc[c] = "unborn"
         /\ Becomes([sup EXCEPT !.web = c, !.flow[f] = At("waitPort", "start", c)])
         /\ proc' = [proc EXCEPT ![c] = "booting"]
         /\ UNCHANGED <<accepted, crashes>>
  BY DEF Launch
<1> DEFINE u == [sup EXCEPT !.flow[f] = At("waitPort", "start", c)]
           t == [sup EXCEPT !.web = c, !.flow[f] = At("waitPort", "start", c)]
<1>2. At("waitPort", "start", c) \in FlowState
  BY DEF At, FlowState, Waiting
<1>3. sup \in SupState /\ u \in SupState
  BY <1>2, FlowUpdate DEF Inv, TypeOK
<1>4. t \in SupState /\ t.web = c
  BY <1>2, <1>3 DEF SupState
<1>5. Becomes(t)
  BY <1>1
<1> HIDE DEF t, u
<1>6. TypeOK'
  BY <1>1, <1>4, <1>5, BecomesKills DEF Inv, TypeOK, Procs
<1>7. proc'[c] = "booting" /\ sup'.web = c
  BY <1>1, <1>4, <1>5 DEF Inv, TypeOK, Procs, Becomes
<1>8. OwnsNoGhost'
  BY <1>7 DEF OwnsNoGhost
<1> QED BY <1>6, <1>8 DEF Inv

LEMMA CheckSteps ==
    ASSUME NEW f \in Flows, sup \in SupState
    PROVE  [sup EXCEPT !.flow[f] = At("check", "stop", None)] \in SupState
<1>1. At("check", "stop", None) \in FlowState
  BY DEF At, FlowState, Waiting
<1> QED BY <1>1, FlowUpdate

LEMMA PortFreeKeeps ==
    ASSUME Inv, NEW f \in Flows, PortFree(f) PROVE Inv'
<1>0. sup \in SupState
  BY DEF Inv, TypeOK
<1>1. CASE sup.flow[f].doing = "start"
  BY <1>1, LaunchKeeps DEF PortFree
<1>2. CASE sup.flow[f].doing # "start"
  <2> DEFINE t == [sup EXCEPT !.flow[f] = At("check", "stop", None)]
  <2>1. t \in SupState /\ t.web = sup.web
    BY <1>0, CheckSteps DEF SupState
  <2>2. Becomes(t) /\ UNCHANGED <<proc, accepted, crashes>>
    BY <1>2 DEF PortFree
  <2> HIDE DEF t
  <2> QED BY <2>1, <2>2, BecomesKeeps
<1> QED BY <1>1, <1>2

(* What a failed stop or start leaves: the flow has ended, the Web is kept.  *)
LEMMA FailureSteps ==
    ASSUME NEW f \in Flows, sup \in SupState
    PROVE  LET quiet == [sup EXCEPT !.stopping = FALSE] IN
           /\ quiet \in SupState /\ quiet.web = sup.web
           /\ Threw(sup, f) \in SupState /\ Threw(sup, f).web = sup.web
           /\ Threw(quiet, f) \in SupState /\ Threw(quiet, f).web = sup.web
<1>1. [sup EXCEPT !.stopping = FALSE] \in SupState
      /\ [sup EXCEPT !.stopping = FALSE].web = sup.web
  BY DEF SupState
<1> QED BY <1>1, ThrewType, WebKept

LEMMA TakeoverKeeps ==
    ASSUME Inv, NEW f \in Flows, Takeover(f) PROVE Inv'
<1>0. sup \in SupState /\ UNCHANGED <<proc, accepted, crashes>>
  BY DEF Inv, TypeOK, Takeover
<1>1. CASE /\ killed' = killed \cup Owners /\ sup' = [sup EXCEPT !.flow[f].at = "drain"]
           /\ UNCHANGED met
  <2>1. sup' \in SupState /\ sup'.web = sup.web
    BY <1>0, <1>1, FlowMoves DEF SupState, Waiting
  <2>2. TypeOK'
    BY <1>0, <1>1, <2>1 DEF Inv, TypeOK, Owners
  <2>3. OwnsNoGhost'
    BY <1>0, <2>1 DEF Inv, OwnsNoGhost
  <2> QED BY <2>2, <2>3 DEF Inv
<1>2. CASE Becomes(Threw([sup EXCEPT !.stopping = FALSE], f))
  BY <1>0, <1>2, FailureSteps, BecomesKeeps
<1>3. CASE Becomes(Threw(sup, f))
  BY <1>0, <1>3, FailureSteps, BecomesKeeps
<1> QED BY <1>1, <1>2, <1>3 DEF Takeover

LEMMA FlowStepKeeps ==
    ASSUME Inv, NEW f \in Flows, FlowStep(f) PROVE Inv'
<1>0. sup \in SupState
  BY DEF Inv, TypeOK
<1>1. CASE Probe(f)
  <2>1. CASE PortOpen
    <3> DEFINE t == [sup EXCEPT !.flow[f].at = "takeover"]
    <3>1. t \in SupState /\ t.web = sup.web
      BY <1>0, FlowMoves DEF SupState, Waiting
    <3>2. Becomes(t) /\ UNCHANGED <<proc, accepted, crashes>>
      BY <1>1, <2>1 DEF Probe
    <3> HIDE DEF t
    <3> QED BY <3>1, <3>2, BecomesKeeps
  <2>2. CASE ~PortOpen
    BY <1>1, <2>2, PortFreeKeeps DEF Probe
  <2> QED BY <2>1, <2>2
<1>2. CASE Takeover(f)
  BY <1>2, TakeoverKeeps
<1>3. CASE Drain(f)
  BY <1>3, PortFreeKeeps DEF Drain
<1>4. CASE WaitPort(f)
  <2> DEFINE t == [sup EXCEPT !.flow[f].at = "waitEntry"]
  <2>1. t \in SupState /\ t.web = sup.web
    BY <1>0, <1>4, FlowMoves DEF SupState, WaitPort, Waiting
  <2>2. (Becomes(t) \/ Becomes(Threw(sup, f))) /\ UNCHANGED <<proc, accepted, crashes>>
    BY <1>4 DEF WaitPort
  <2> HIDE DEF t
  <2> QED BY <1>0, <2>1, <2>2, FailureSteps, BecomesKeeps
<1>5. CASE WaitEntry(f)
  <2> DEFINE t(pc) == [sup EXCEPT !.flow[f].at = pc]
  <2>1. ASSUME NEW pc \in {"answered", "retry"} PROVE t(pc) \in SupState /\ t(pc).web = sup.web
    BY <1>0, <1>5, FlowMoves DEF SupState, WaitEntry, Waiting
  <2>2. /\ UNCHANGED <<proc, accepted, crashes>>
        /\ Becomes(t("answered")) \/ Becomes(t("retry")) \/ Becomes(Threw(sup, f))
    BY <1>5 DEF WaitEntry
  <2> HIDE DEF t
  <2> QED BY <1>0, <2>1, <2>2, FailureSteps, BecomesKeeps
<1>6. CASE Answered(f)
  <2>1. Ready(sup) \in SupState /\ Ready(sup).web = sup.web
    BY <1>0, ReadyType DEF Ready, SupState
  <2>2. Started(Ready(sup), f) \in SupState /\ Started(Ready(sup), f).web = sup.web
    BY <2>1, StartedType, WebKept
  <2> QED BY <1>6, <2>2, BecomesKeeps DEF Answered
<1>7. CASE WaitExit(f)
  <2> DEFINE t == [sup EXCEPT !.flow[f] = At("check", "stop", None)]
  <2>1. t \in SupState /\ t.web = sup.web
    BY <1>0, CheckSteps DEF SupState
  <2>2. Becomes(t) /\ UNCHANGED <<proc, accepted, crashes>>
    BY <1>7 DEF WaitExit
  <2> HIDE DEF t
  <2> QED BY <2>1, <2>2, BecomesKeeps
<1>8. CASE Check(f)
  <2>1. StopReturned(sup, f) \in SupState /\ StopReturned(sup, f).web = None
    BY <1>0, StopReturnedType, WebGone
  <2>2. UNCHANGED <<proc, accepted, crashes>>
        /\ (Becomes(Threw([sup EXCEPT !.stopping = FALSE], f)) \/ Becomes(StopReturned(sup, f)))
    BY <1>8 DEF Check
  <2> QED BY <1>0, <2>1, <2>2, FailureSteps, BecomesKeeps
<1>9. CASE Retry(f)
  <2> DEFINE t == [sup EXCEPT !.flow[f].at = "waitEntry"]
  <2>1. t \in SupState /\ t.web = sup.web
    BY <1>0, <1>9, FlowMoves DEF SupState, Retry, Waiting
  <2>2. Becomes(t) /\ UNCHANGED <<proc, accepted, crashes>>
    BY <1>9 DEF Retry
  <2> HIDE DEF t
  <2> QED BY <2>1, <2>2, BecomesKeeps
<1> QED BY <1>1, <1>2, <1>3, <1>4, <1>5, <1>6, <1>7, <1>8, <1>9 DEF FlowStep

LEMMA TimerFiresKeeps ==
    ASSUME Inv, NEW f \in Respawns, TimerFires(f) PROVE Inv'
<1> DEFINE s == [sup EXCEPT !.timer = FALSE, !.tries = @ + 1]
<1>0. sup \in SupState
  BY DEF Inv, TypeOK
<1>1. s \in SupState /\ s.web = sup.web
  <2>1. sup.tries + 1 \in Nat
    BY <1>0 DEF SupState
  <2>2. ASSUME NEW n \in Nat
        PROVE  /\ [sup EXCEPT !.timer = FALSE, !.tries = n] \in SupState
               /\ [sup EXCEPT !.timer = FALSE, !.tries = n].web = sup.web
    BY <1>0 DEF SupState
  <2> QED BY <2>1, <2>2
<1>2. Becomes(StartWeb(s, f)) /\ UNCHANGED <<proc, accepted, crashes>>
  BY DEF TimerFires
<1> HIDE DEF s
<1>3. StartWeb(s, f) \in SupState /\ StartWeb(s, f).web = sup.web
  BY <1>1, StartWebType, WebKept DEF Flows
<1> QED BY <1>2, <1>3, BecomesKeeps

LEMMA AcceptKeeps ==
    ASSUME Inv, NEW k \in Commands, Accept(k) PROVE Inv'
<1> DEFINE s == [sup EXCEPT !.cmd = [NoCommand EXCEPT !.kind = k],
                            !.down = @ /\ k = "stop",
                            !.ended = FALSE, !.owed = "nothing"]
<1>0. sup \in SupState /\ "command" \in Flows
  BY DEF Inv, TypeOK, Flows
<1>1. [NoCommand EXCEPT !.kind = k]
        \in [kind : {"none"} \cup Commands, was : BOOLEAN, sessions : BOOLEAN]
  BY DEF NoCommand
<1>2. s \in SupState /\ s.web = sup.web
  BY <1>0, <1>1 DEF SupState
<1>3. /\ Becomes(IF k = "start" THEN StartWeb(s, "command")
                 ELSE IF k = "stop" THEN Stop(s, "command")
                 ELSE [s EXCEPT !.flow["command"] = At("ask", "command", None)])
      /\ UNCHANGED <<proc, crashes>> /\ accepted' \in 0..MaxCommands
  BY DEF Accept, Inv, TypeOK, SupervisorAssumption
<1> HIDE DEF s
<1>4. /\ StartWeb(s, "command") \in SupState /\ StartWeb(s, "command").web = sup.web
      /\ Stop(s, "command") \in SupState /\ Stop(s, "command").web = sup.web
  BY <1>0, <1>2, StartWebType, StopType, WebKept
<1>5. /\ [s EXCEPT !.flow["command"] = At("ask", "command", None)] \in SupState
      /\ [s EXCEPT !.flow["command"] = At("ask", "command", None)].web = sup.web
  BY <1>2, CommandFlow DEF SupState
<1>6. PICK t \in SupState : Becomes(t) /\ t.web = sup.web
  BY <1>3, <1>4, <1>5
<1>7. TypeOK'
  BY <1>3, <1>6, BecomesKills DEF Inv, TypeOK
<1>8. OwnsNoGhost'
  BY <1>3, <1>6 DEF Inv, OwnsNoGhost, Becomes
<1> QED BY <1>7, <1>8 DEF Inv

LEMMA CommandStepKeeps ==
    ASSUME Inv, CommandStep PROVE Inv'
<1>0. sup \in SupState /\ "command" \in Flows
  BY DEF Inv, TypeOK, Flows
<1>1. ASSUME NEW s \in SupState, s.web = sup.web
      PROVE  CaptureOrStop(s) \in SupState /\ CaptureOrStop(s).web = sup.web
  BY <1>0, <1>1, CaptureOrStopType, WebKept
<1>2. CASE AskRunning
  <2> DEFINE s == [sup EXCEPT !.cmd.was = sup.running \/ PortOpen]
             t == [s EXCEPT !.flow["command"] = At("build", "command", None)]
  <2>1. PortOpen \in BOOLEAN
    BY DEF PortOpen
  <2>2. s \in SupState /\ s.web = sup.web
    <3>1. (sup.running \/ PortOpen) \in BOOLEAN
      BY <2>1
    <3>2. ASSUME NEW b \in BOOLEAN
          PROVE  [sup EXCEPT !.cmd.was = b] \in SupState /\ [sup EXCEPT !.cmd.was = b].web = sup.web
      BY <1>0 DEF SupState
    <3> QED BY <3>1, <3>2
  <2>3. /\ Becomes(IF s.cmd.kind = "rebuild" THEN t ELSE CaptureOrStop(s))
        /\ UNCHANGED <<proc, accepted, crashes>>
    BY <1>2 DEF AskRunning
  <2> HIDE DEF s
  <2>4. t \in SupState /\ t.web = sup.web
    BY <2>2, CommandFlow DEF SupState
  <2> QED BY <1>1, <2>2, <2>3, <2>4, BecomesKeeps
<1>3. CASE BuildEnds
  <2>1. /\ Becomes(CaptureOrStop(sup)) \/ Becomes(Threw(sup, "command"))
        /\ UNCHANGED <<proc, accepted, crashes>>
    BY <1>3 DEF BuildEnds
  <2> QED BY <1>0, <1>1, <2>1, FailureSteps, BecomesKeeps
<1>4. CASE Capture
  <2>1. CASE Becomes(Threw(sup, "command")) /\ UNCHANGED <<proc, accepted, crashes>>
    BY <1>0, <2>1, FailureSteps, BecomesKeeps
  <2>2. ASSUME NEW some \in BOOLEAN,
               Becomes([sup EXCEPT !.cmd.sessions = some, !.owed = IF some THEN "captured" ELSE "nothing",
                                   !.flow["command"].at = "captured"])
        PROVE  Inv'
    <3> DEFINE s == [sup EXCEPT !.cmd.sessions = some, !.owed = IF some THEN "captured" ELSE "nothing"]
               t == [sup EXCEPT !.cmd.sessions = some, !.owed = IF some THEN "captured" ELSE "nothing",
                                !.flow["command"].at = "captured"]
    <3>1. s \in SupState /\ s.web = sup.web
      BY <1>0 DEF SupState
    <3>2. [s EXCEPT !.flow["command"].at = "captured"] \in SupState
      BY <1>0, <3>1, FlowMoves DEF Waiting
    <3>3. t = [s EXCEPT !.flow["command"].at = "captured"]
      BY <1>0 DEF SupState
    <3>4. t.web = sup.web
      BY <1>0 DEF SupState
    <3>5. Becomes(t) /\ UNCHANGED <<proc, accepted, crashes>>
      BY <1>4, <2>2 DEF Capture
    <3> HIDE DEF s, t
    <3> QED BY <3>2, <3>3, <3>4, <3>5, BecomesKeeps
  <2> QED BY <1>4, <2>1, <2>2 DEF Capture
<1>5. CASE StopAfterCapture
  <2>1. Stop(sup, "command") \in SupState /\ Stop(sup, "command").web = sup.web
    BY <1>0, StopType, WebKept
  <2> QED BY <1>5, <2>1, BecomesKeeps DEF StopAfterCapture
<1>6. CASE Recover
  <2>1. ASSUME NEW a \in {"told", "failed"}
        PROVE  Settled(Recovered(sup, a)) \in SupState /\ Settled(Recovered(sup, a)).web = sup.web
    <3>1. Recovered(sup, a) \in SupState /\ Recovered(sup, a).web = sup.web
      BY <1>0, <2>1 DEF Recovered, SupState
    <3> QED BY <1>0, <3>1, SettledType, WebKept
  <2>2. /\ UNCHANGED <<proc, accepted, crashes>>
        /\ \/ \E a \in {"told", "failed"} : Becomes(Settled(Recovered(sup, a)))
           \/ Becomes(Threw(sup, "command"))
    BY <1>6 DEF Recover
  <2> QED BY <1>0, <2>1, <2>2, FailureSteps, BecomesKeeps
<1> QED BY <1>2, <1>3, <1>4, <1>5, <1>6 DEF CommandStep

LEMMA CloseKeeps ==
    ASSUME Inv, Signal \/ CloseStops PROVE Inv'
<1>0. sup \in SupState /\ "close" \in Flows
  BY DEF Inv, TypeOK, Flows
<1>1. CASE Signal
  <2> DEFINE s == [sup EXCEPT !.closing = TRUE]
             t == [sup EXCEPT !.closing = TRUE,
                              !.flow["close"] = At("progress", "close", None)]
             u == [sup EXCEPT !.exited = TRUE]
  <2>1. s \in SupState /\ u \in SupState /\ u.web = sup.web
    BY <1>0 DEF SupState
  <2>2. At("progress", "close", None) \in FlowState
    BY DEF At, FlowState, Waiting
  <2>3. [s EXCEPT !.flow["close"] = At("progress", "close", None)] \in SupState
    BY <1>0, <2>1, <2>2, FlowUpdate
  <2>4. t = [s EXCEPT !.flow["close"] = At("progress", "close", None)]
    BY <1>0 DEF SupState
  <2>5. t.web = sup.web
    BY <1>0 DEF SupState
  <2>6. (Becomes(t) \/ Becomes(u)) /\ UNCHANGED <<proc, accepted, crashes>>
    BY <1>1 DEF Signal
  <2> HIDE DEF s, t, u
  <2> QED BY <2>1, <2>3, <2>4, <2>5, <2>6, BecomesKeeps
<1>2. CASE CloseStops
  <2>1. Stop(sup, "close") \in SupState /\ Stop(sup, "close").web = sup.web
    BY <1>0, StopType, WebKept
  <2> QED BY <1>2, <2>1, BecomesKeeps DEF CloseStops
<1> QED BY <1>1, <1>2

-----------------------------------------------------------------------------
LEMMA InitHolds == Init => Inv
<1> SUFFICES ASSUME Init PROVE Inv
  OBVIOUS
<1>1. PICK open \in BOOLEAN :
         /\ proc = [p \in Procs |-> IF p # External THEN "unborn"
                                    ELSE IF open THEN "listening" ELSE "reaped"]
         /\ sup = Loaded(open)
  BY DEF Init
<1>2. At("probe", "start", None) \in FlowState /\ Idle \in FlowState
  BY DEF At, Idle, FlowState, Waiting
<1>3. NoCommand \in [kind : {"none"} \cup Commands, was : BOOLEAN, sessions : BOOLEAN]
  BY DEF NoCommand
<1>4. sup \in SupState /\ sup.web = None
  BY <1>1, <1>2, <1>3 DEF Loaded, WebAtLoad, SupState
<1>5. proc \in [Procs -> {"unborn", "booting", "listening", "dead", "reaped"}]
  BY <1>1
<1>6. killed \subseteq Procs /\ accepted \in 0..MaxCommands /\ crashes \in 0..MaxCrashes
  BY DEF Init, SupervisorAssumption
<1>7. met \in BOOLEAN
  BY DEF Init
<1> QED BY <1>4, <1>5, <1>6, <1>7 DEF Inv, TypeOK, OwnsNoGhost

LEMMA NextKeeps == Inv /\ [Next]_vars => Inv'
<1> SUFFICES ASSUME Inv, [Next]_vars PROVE Inv'
  OBVIOUS
<1>1. CASE UNCHANGED vars
  BY <1>1 DEF Inv, TypeOK, OwnsNoGhost, vars
<1>2. CASE Next
  BY <1>2, ProcessKeeps, ChildExitKeeps, TimerFiresKeeps, FlowStepKeeps,
     AcceptKeeps, CommandStepKeeps, CloseKeeps DEF Next
<1> QED BY <1>1, <1>2

(* The state of the supervisor and of every flow keeps its type, whatever    *)
(* the order in which exits, timers, commands and signals arrive; a flow     *)
(* that waits always waits for a Web that was spawned.                       *)
THEOREM SupervisorTypeCorrect == Spec => []TypeOK
<1>1. Inv => TypeOK
  BY DEF Inv
<1> QED BY <1>1, InitHolds, NextKeeps, PTL DEF Spec

(* The supervisor never goes on owning a Web whose exit it has seen, for any *)
(* number of crashes, respawns and commands: a start after a crash is never  *)
(* mistaken for one that is already done.                                    *)
THEOREM SupervisorOwnsNoGhost == Spec => []OwnsNoGhost
<1>1. Inv => OwnsNoGhost
  BY DEF Inv
<1> QED BY <1>1, InitHolds, NextKeeps, PTL DEF Spec

-----------------------------------------------------------------------------
(* The budget of respawns.  RespawnsBounded is not inductive: an armed timer *)
(* is a try that is still to come, and attempts may be reset while it is     *)
(* armed.                                                                    *)
Budget(s) ==
    /\ s.tries <= s.attempts + 1
    /\ s.tries <= MaxRespawns + 1
    /\ s.timer => s.tries <= s.attempts /\ s.tries <= MaxRespawns

SameBudget(s, t) ==
    t.tries = s.tries /\ t.attempts = s.attempts /\ (t.timer => s.timer)

LEMMA SameBudgetKeeps ==
    ASSUME NEW s, NEW t, Budget(s), SameBudget(s, t) PROVE Budget(t)
BY DEF Budget, SameBudget

LEMMA BudgetFields ==
    ASSUME NEW s \in SupState
    PROVE  s.tries \in Nat /\ s.attempts \in Nat /\ s.timer \in BOOLEAN
BY DEF SupState

LEMMA ScheduleBudget ==
    ASSUME NEW s \in SupState, Budget(s) PROVE Budget(ScheduleRespawn(s))
<1>1. CASE s.timer \/ s.closing
  BY <1>1 DEF ScheduleRespawn
<1>2. CASE ~s.timer /\ ~s.closing
  <2> DEFINE t == [s EXCEPT !.attempts = @ + 1, !.timer = s.attempts < MaxRespawns]
  <2>1. t.tries = s.tries /\ t.attempts = s.attempts + 1
    BY DEF SupState
  <2>2. t.timer = (s.attempts < MaxRespawns)
    BY DEF SupState
  <2>3. ScheduleRespawn(s) = t
    BY <1>2 DEF ScheduleRespawn
  <2> HIDE DEF t
  <2>4. t.timer => s.attempts < MaxRespawns
    BY <2>2
  <2> QED BY <2>1, <2>3, <2>4, BudgetFields DEF Budget, SupervisorAssumption
<1> QED BY <1>1, <1>2

(* The operators that leave the budget alone, or only disarm the timer.      *)
LEMMA SameBudgets ==
    ASSUME NEW s \in SupState, NEW f \in Flows
    PROVE  /\ SameBudget(s, Settled(s))
           /\ SameBudget(s, Recovering(s))
           /\ SameBudget(s, Started(s, f))
           /\ SameBudget(s, StartWeb(s, f))
           /\ SameBudget(s, Stop(s, f))
           /\ SameBudget(s, CaptureOrStop(s))
           /\ SameBudget(s, Gone(s))
<1>1. SameBudget(s, Settled(s))
  BY DEF Settled, SupState, SameBudget
<1>2. SameBudget(s, Recovering(s))
  BY <1>1 DEF Recovering, SupState, SameBudget
<1>3. SameBudget(s, Started(s, f))
  BY <1>1, <1>2 DEF Started, SupState, SameBudget
<1>4. SameBudget(s, StartWeb(s, f))
  BY <1>3 DEF StartWeb, SupState, SameBudget
<1>5. ASSUME NEW g \in Flows PROVE SameBudget(s, Stop(s, g))
  BY <1>5 DEF Stop, Commanded, SupState, SameBudget
<1>6. SameBudget(s, CaptureOrStop(s))
  BY <1>5 DEF CaptureOrStop, SupState, SameBudget, Flows
<1>7. SameBudget(s, Gone(s))
  BY DEF Gone, SupState, SameBudget
<1> QED BY <1>1, <1>2, <1>3, <1>4, <1>5, <1>6, <1>7

LEMMA ThrewBudget ==
    ASSUME NEW s \in SupState, NEW f \in Flows, Budget(s) PROVE Budget(Threw(s, f))
<1> DEFINE t == [s EXCEPT !.flow[f] = Idle]
<1>1. t \in SupState
  BY IdleFlow
<1>2. SameBudget(s, t) /\ SameBudget(s, [s EXCEPT !.flow[f] = Idle, !.exited = TRUE])
  BY DEF SupState, SameBudget
<1>3. Threw(s, f) \in {[Settled(s) EXCEPT !.ended = FALSE], ScheduleRespawn(t),
                       [s EXCEPT !.flow[f] = Idle, !.exited = TRUE]}
  BY DEF Threw
<1> HIDE DEF t
<1>4. Budget(t)
  BY <1>2, SameBudgetKeeps
<1>5. SameBudget(s, [Settled(s) EXCEPT !.ended = FALSE])
  BY SameBudgets, SettledType DEF SupState, SameBudget
<1> QED BY <1>1, <1>2, <1>3, <1>4, <1>5, SameBudgetKeeps, ScheduleBudget

(* A success, and a stop that succeeds, start a new budget.                  *)
LEMMA FreshBudget ==
    ASSUME NEW s \in SupState
    PROVE  Budget(Ready(s)) /\ Budget(Stopped(s))
BY DEF Budget, Ready, Stopped, SupState, SupervisorAssumption

LEMMA StopReturnedBudget ==
    ASSUME NEW s \in SupState, NEW f \in Flows PROVE Budget(StopReturned(s, f))
<1> DEFINE t == Stopped(s)
<1>1. t \in SupState /\ Budget(t)
  BY StoppedType, FreshBudget
<1>2. StopReturned(s, f) \in {[t EXCEPT !.flow[f] = Idle, !.exited = TRUE],
                              [Settled(t) EXCEPT !.down = TRUE],
                              StartWeb(t, f), Recovering(t)}
  BY DEF StopReturned
<1> HIDE DEF t
<1>3. SameBudget(t, [t EXCEPT !.flow[f] = Idle, !.exited = TRUE])
  BY <1>1 DEF SupState, SameBudget
<1>4. Settled(t) \in SupState /\ SameBudget(t, Settled(t))
  BY <1>1, SettledType, SameBudgets
<1>5. SameBudget(t, [Settled(t) EXCEPT !.down = TRUE])
  BY <1>4 DEF SupState, SameBudget
<1> QED BY <1>1, <1>2, <1>3, <1>5, SameBudgets, SameBudgetKeeps

LEMMA FlowStepBudget ==
    ASSUME TypeOK, Budget(sup), NEW f \in Flows, FlowStep(f) PROVE Budget(sup')
<1>0. sup \in SupState
  BY DEF TypeOK
<1> DEFINE quiet == [sup EXCEPT !.stopping = FALSE]
<1>a. quiet \in SupState /\ SameBudget(sup, quiet)
  BY <1>0 DEF SupState, SameBudget
<1>b. Budget(quiet)
  BY <1>a, SameBudgetKeeps
<1> HIDE DEF quiet
<1>c. Budget(Threw(sup, f)) /\ Budget(Threw(quiet, f))
  BY <1>0, <1>a, <1>b, ThrewBudget
<1>1. ASSUME NEW pc, sup' = [sup EXCEPT !.flow[f].at = pc] PROVE Budget(sup')
  <2>1. SameBudget(sup, sup')
    BY <1>0, <1>1 DEF SupState, SameBudget
  <2> QED BY <2>1, SameBudgetKeeps
<1>2. ASSUME NEW x, sup' = [sup EXCEPT !.flow[f] = x] PROVE Budget(sup')
  <2>1. SameBudget(sup, sup')
    BY <1>0, <1>2 DEF SupState, SameBudget
  <2> QED BY <2>1, SameBudgetKeeps
<1>3. ASSUME PortFree(f) PROVE Budget(sup')
  <2>1. CASE Launch(f)
    <3>1. SameBudget(sup, sup')
      BY <1>0, <2>1 DEF Launch, Becomes, SupState, SameBudget
    <3> QED BY <3>1, SameBudgetKeeps
  <2>2. CASE sup' = [sup EXCEPT !.flow[f] = At("check", "stop", None)]
    BY <1>2, <2>2
  <2> QED BY <1>3, <2>1, <2>2 DEF PortFree, Becomes
<1>4. CASE Probe(f)
  BY <1>1, <1>3, <1>4 DEF Probe, Becomes
<1>5. CASE Takeover(f)
  BY <1>1, <1>c, <1>5 DEF Takeover, Becomes, quiet
<1>6. CASE Drain(f)
  BY <1>3, <1>6 DEF Drain
<1>7. CASE WaitPort(f)
  BY <1>1, <1>c, <1>7 DEF WaitPort, Becomes
<1>8. CASE WaitEntry(f)
  BY <1>1, <1>c, <1>8 DEF WaitEntry, Becomes
<1>9. CASE Answered(f)
  <2>1. Ready(sup) \in SupState /\ Budget(Ready(sup))
    BY <1>0, ReadyType, FreshBudget
  <2> QED BY <1>9, <2>1, SameBudgets, SameBudgetKeeps DEF Answered, Becomes
<1>10. CASE WaitExit(f)
  BY <1>2, <1>10 DEF WaitExit, Becomes
<1>11. CASE Check(f)
  BY <1>0, <1>c, <1>11, StopReturnedBudget DEF Check, Becomes, quiet
<1>12. CASE Retry(f)
  BY <1>1, <1>12 DEF Retry, Becomes
<1> QED BY <1>4, <1>5, <1>6, <1>7, <1>8, <1>9, <1>10, <1>11, <1>12 DEF FlowStep

LEMMA ExitBudget ==
    ASSUME TypeOK, Budget(sup), NEW c \in Webs, ChildExit(c) PROVE Budget(sup')
<1>1. sup \in SupState /\ Gone(sup) \in SupState
  BY DEF TypeOK, Gone, SupState
<1>2. Budget(Gone(sup))
  BY <1>1, SameBudgets, SameBudgetKeeps DEF Flows
<1>3. Budget(Exited(sup))
  BY <1>1, <1>2, ScheduleBudget DEF Exited
<1> QED BY <1>3 DEF ChildExit, Becomes

LEMMA TimerBudget ==
    ASSUME TypeOK, Budget(sup), NEW f \in Respawns, TimerFires(f) PROVE Budget(sup')
<1> DEFINE s == [sup EXCEPT !.timer = FALSE, !.tries = @ + 1]
<1>0. sup \in SupState
  BY DEF TypeOK
<1>1. ~s.timer /\ s.tries = sup.tries + 1 /\ s.attempts = sup.attempts
  BY <1>0 DEF SupState
<1>2. s \in SupState
  <2>1. sup.tries + 1 \in Nat
    BY <1>0 DEF SupState
  <2>2. ASSUME NEW n \in Nat PROVE [sup EXCEPT !.timer = FALSE, !.tries = n] \in SupState
    BY <1>0 DEF SupState
  <2> QED BY <2>1, <2>2
<1>3. sup' = StartWeb(s, f) /\ sup.timer
  BY DEF TimerFires, Becomes
<1> HIDE DEF s
<1>4. Budget(s)
  BY <1>0, <1>1, <1>3, BudgetFields DEF Budget, SupervisorAssumption
<1> QED BY <1>2, <1>3, <1>4, SameBudgets, SameBudgetKeeps DEF Flows

LEMMA CommandBudget ==
    ASSUME TypeOK, Budget(sup), CommandStep \/ Signal \/ CloseStops
           \/ (\E k \in Commands : Accept(k))
    PROVE  Budget(sup')
<1>0. sup \in SupState /\ "command" \in Flows /\ "close" \in Flows
  BY DEF TypeOK, Flows
<1>1. Budget(Threw(sup, "command"))
  BY <1>0, ThrewBudget
<1>2. CASE AskRunning
  <2> DEFINE s == [sup EXCEPT !.cmd.was = sup.running \/ PortOpen]
  <2>1. SameBudget(sup, s) /\ s \in SupState
    <3>1. (sup.running \/ PortOpen) \in BOOLEAN
      BY DEF PortOpen
    <3>2. ASSUME NEW b \in BOOLEAN
          PROVE  LET t == [sup EXCEPT !.cmd.was = b] IN SameBudget(sup, t) /\ t \in SupState
      BY <1>0 DEF SupState, SameBudget
    <3> QED BY <3>1, <3>2
  <2>2. sup' \in {[s EXCEPT !.flow["command"] = At("build", "command", None)], CaptureOrStop(s)}
    BY <1>2 DEF AskRunning, Becomes
  <2> HIDE DEF s
  <2>3. SameBudget(s, [s EXCEPT !.flow["command"] = At("build", "command", None)])
    BY <2>1 DEF SupState, SameBudget
  <2> QED BY <1>0, <2>1, <2>2, <2>3, SameBudgets, SameBudgetKeeps
<1>3. CASE BuildEnds
  BY <1>0, <1>1, <1>3, SameBudgets, SameBudgetKeeps DEF BuildEnds, Becomes
<1>4. CASE Capture
  <2>1. CASE sup' = Threw(sup, "command")
    BY <1>1, <2>1
  <2>2. ASSUME NEW some \in BOOLEAN,
               sup' = [sup EXCEPT !.cmd.sessions = some, !.owed = IF some THEN "captured" ELSE "nothing",
                                  !.flow["command"].at = "captured"]
        PROVE  Budget(sup')
    <3>1. SameBudget(sup, sup')
      BY <1>0, <2>2 DEF SupState, SameBudget
    <3> QED BY <3>1, SameBudgetKeeps
  <2> QED BY <1>4, <2>1, <2>2 DEF Capture, Becomes
<1>5. CASE StopAfterCapture
  BY <1>0, <1>5, SameBudgets, SameBudgetKeeps DEF StopAfterCapture, Becomes
<1>6. CASE Recover
  <2>1. ASSUME NEW a \in {"told", "failed"} PROVE Budget(Settled(Recovered(sup, a)))
    <3>1. Recovered(sup, a) \in SupState /\ SameBudget(sup, Recovered(sup, a))
      BY <1>0, <2>1 DEF Recovered, SupState, SameBudget
    <3> QED BY <1>0, <3>1, SameBudgets, SameBudgetKeeps
  <2> QED BY <1>1, <1>6, <2>1 DEF Recover, Becomes
<1>7. CASE Signal
  <2>1. SameBudget(sup, sup')
    BY <1>0, <1>7 DEF Signal, Becomes, SupState, SameBudget
  <2> QED BY <2>1, SameBudgetKeeps
<1>8. CASE CloseStops
  BY <1>0, <1>8, SameBudgets, SameBudgetKeeps DEF CloseStops, Becomes
<1>9. ASSUME NEW k \in Commands, Accept(k) PROVE Budget(sup')
  <2> DEFINE s == [sup EXCEPT !.cmd = [NoCommand EXCEPT !.kind = k],
                              !.down = @ /\ k = "stop",
                              !.ended = FALSE, !.owed = "nothing"]
  <2>1. [NoCommand EXCEPT !.kind = k]
          \in [kind : {"none"} \cup Commands, was : BOOLEAN, sessions : BOOLEAN]
    BY DEF NoCommand
  <2>2. s \in SupState /\ SameBudget(sup, s)
    BY <1>0, <2>1 DEF SupState, SameBudget
  <2>3. sup' \in {StartWeb(s, "command"), Stop(s, "command"),
                  [s EXCEPT !.flow["command"] = At("ask", "command", None)]}
    BY <1>9 DEF Accept, Becomes
  <2> HIDE DEF s
  <2>4. SameBudget(s, [s EXCEPT !.flow["command"] = At("ask", "command", None)])
    BY <2>2 DEF SupState, SameBudget
  <2> QED BY <1>0, <2>2, <2>3, <2>4, SameBudgets, SameBudgetKeeps
<1> QED BY <1>2, <1>3, <1>4, <1>5, <1>6, <1>7, <1>8, <1>9 DEF CommandStep

LEMMA BudgetStep == TypeOK /\ Budget(sup) /\ [Next]_vars => Budget(sup')
<1> SUFFICES ASSUME TypeOK, Budget(sup), [Next]_vars PROVE Budget(sup')
  OBVIOUS
<1>1. CASE sup' = sup
  BY <1>1
<1>2. ASSUME NEW p \in Procs, Listen(p) \/ PortTaken(p) \/ Terminated(p) \/ Crash(p)
      PROVE  sup' = sup
  BY <1>2 DEF Listen, PortTaken, Terminated, Crash
<1>3. CASE Next
  BY <1>1, <1>2, <1>3, FlowStepBudget, ExitBudget, TimerBudget, CommandBudget DEF Next
<1> QED BY <1>1, <1>3 DEF vars

(* However crashes, failed starts, commands and timers interleave, no more   *)
(* than MaxRespawns + 1 respawns are tried without a success in between.     *)
THEOREM SupervisorRespawnsBounded == Spec => []RespawnsBounded
<1> DEFINE Within == Budget(sup)
<1>1. Init => Within
  BY DEF Init, Loaded, Budget, SupervisorAssumption
<1>2. TypeOK /\ Within /\ [Next]_vars => Within'
  BY BudgetStep
<1>3. Within => RespawnsBounded
  BY DEF Budget, RespawnsBounded
<1> HIDE DEF Within
<1> QED BY <1>1, <1>2, <1>3, SupervisorTypeCorrect, PTL DEF Spec

-----------------------------------------------------------------------------
(* What a flow does at each of its waits: only a command or the shutdown     *)
(* stops a Web.                                                              *)
Asking == {"ask", "build", "capture"}

Doing(f, r) ==
    /\ r.at \in {"probe", "takeover", "drain"} => r.doing \in {"start", "stop"}
    /\ r.at \in {"waitExit", "check"} => r.doing = "stop"
    /\ r.at \in {"waitPort", "waitEntry", "retry", "answered"} => r.doing = "start"
    /\ r.at \in Asking \cup {"captured", "recover"} => r.doing = "command"
    /\ r.at = "progress" => r.doing = "close"
    /\ f \notin {"command", "close"} => r.at = "idle" \/ r.doing = "start"

InShape(s) == \A f \in Flows : Doing(f, s.flow[f])

LEMMA ShapeUpdate ==
    ASSUME NEW s \in SupState, InShape(s), NEW f \in Flows, NEW x, Doing(f, x),
           NEW t, t.flow = [s.flow EXCEPT ![f] = x]
    PROVE  InShape(t)
BY DEF InShape, SupState

LEMMA ShapeSame ==
    ASSUME NEW s, NEW t, InShape(s), t.flow = s.flow PROVE InShape(t)
BY DEF InShape

(* The records a flow is given are in shape.                                 *)
LEMMA ShapesOfFlows ==
    /\ \A f \in Flows : Doing(f, Idle)
    /\ \A f \in Flows : Doing(f, At("probe", "start", None))
    /\ \A c : \A f \in Flows : Doing(f, At("waitPort", "start", c))
    /\ \A f \in {"command", "close"} : Doing(f, At("probe", "stop", None))
    /\ \A f \in {"command", "close"} : Doing(f, At("check", "stop", None))
    /\ \A c : \A f \in {"command", "close"} : Doing(f, At("waitExit", "stop", c))
    /\ \A pc \in Asking \cup {"captured", "recover"} :
         Doing("command", At(pc, "command", None))
    /\ Doing("close", At("progress", "close", None))
BY DEF Doing, Idle, At, Asking

LEMMA EndsInShape ==
    ASSUME NEW s \in SupState, NEW f \in Flows, InShape(s)
    PROVE  /\ InShape(Settled(s)) /\ InShape(Recovering(s))
           /\ InShape(Threw(s, f)) /\ InShape(Started(s, f)) /\ InShape(StartWeb(s, f))
<1>0. "command" \in Flows
  BY DEF Flows
<1>1. Settled(s).flow = [s.flow EXCEPT !["command"] = Idle]
  BY DEF Settled, SupState
<1>2. InShape(Settled(s))
  BY <1>0, <1>1, ShapesOfFlows, ShapeUpdate
<1>3. InShape(Recovering(s))
  <2>1. [s EXCEPT !.flow["command"] = At("recover", "command", None)].flow
        = [s.flow EXCEPT !["command"] = At("recover", "command", None)]
    BY DEF SupState
  <2> QED BY <1>0, <1>2, <2>1, ShapesOfFlows, ShapeUpdate DEF Recovering
<1>4. ASSUME NEW t, t.flow = [s.flow EXCEPT ![f] = Idle] PROVE InShape(t)
  BY <1>4, ShapesOfFlows, ShapeUpdate
<1>5. InShape(Threw(s, f))
  <2>1. [Settled(s) EXCEPT !.ended = FALSE].flow = Settled(s).flow
    BY SettledType DEF SupState
  <2>2. [s EXCEPT !.flow[f] = Idle] \in SupState
        /\ [s EXCEPT !.flow[f] = Idle].flow = [s.flow EXCEPT ![f] = Idle]
    BY IdleFlow DEF SupState
  <2>3. [s EXCEPT !.flow[f] = Idle, !.exited = TRUE].flow = [s.flow EXCEPT ![f] = Idle]
    BY DEF SupState
  <2>4. ASSUME NEW t \in SupState PROVE ScheduleRespawn(t).flow = t.flow
    BY DEF ScheduleRespawn, SupState
  <2> QED BY <1>2, <1>4, <2>1, <2>2, <2>3, <2>4, ShapeSame DEF Threw
<1>6. InShape(Started(s, f))
  <2>1. [s EXCEPT !.flow[f] = Idle, !.booted = @ \/ f = "boot"].flow
        = [s.flow EXCEPT ![f] = Idle]
    BY DEF SupState
  <2> QED BY <1>2, <1>3, <1>4, <2>1 DEF Started
<1>7. InShape(StartWeb(s, f))
  <2>1. [s EXCEPT !.flow[f] = At("probe", "start", None)].flow
        = [s.flow EXCEPT ![f] = At("probe", "start", None)]
    BY DEF SupState
  <2> QED BY <1>6, <2>1, ShapesOfFlows, ShapeUpdate DEF StartWeb
<1> QED BY <1>2, <1>3, <1>5, <1>6, <1>7

LEMMA StopsInShape ==
    ASSUME NEW s \in SupState, NEW f \in {"command", "close"}, InShape(s)
    PROVE  InShape(Stop(s, f)) /\ InShape(StopReturned(s, f)) /\ InShape(CaptureOrStop(s))
<1>0. f \in Flows /\ "command" \in Flows
  BY DEF Flows
<1>1. ASSUME NEW g \in {"command", "close"} PROVE InShape(Stop(s, g))
  <2>1. Stop(s, g).flow = [s.flow EXCEPT ![g] = IF s.web # None
                             THEN At("waitExit", "stop", s.web) ELSE At("probe", "stop", None)]
    BY <1>1 DEF Stop, Commanded, SupState
  <2>2. g \in Flows
    BY <1>1 DEF Flows
  <2> QED BY <1>1, <2>1, <2>2, ShapesOfFlows, ShapeUpdate
<1>2. InShape(CaptureOrStop(s))
  <2>1. [s EXCEPT !.flow["command"] = At("capture", "command", None)].flow
        = [s.flow EXCEPT !["command"] = At("capture", "command", None)]
    BY DEF SupState
  <2>2. "capture" \in Asking \cup {"captured", "recover"}
    BY DEF Asking
  <2> QED BY <1>0, <1>1, <2>1, <2>2, ShapesOfFlows, ShapeUpdate DEF CaptureOrStop
<1>3. InShape(StopReturned(s, f))
  <2> DEFINE t == Stopped(s)
  <2>1. t \in SupState /\ t.flow = s.flow
    BY StoppedType DEF Stopped, SupState
  <2> HIDE DEF t
  <2>2. InShape(t)
    BY <2>1, ShapeSame
  <2>3. [t EXCEPT !.flow[f] = Idle, !.exited = TRUE].flow = [t.flow EXCEPT ![f] = Idle]
    BY <2>1 DEF SupState
  <2>4. InShape([t EXCEPT !.flow[f] = Idle, !.exited = TRUE])
    BY <1>0, <2>1, <2>2, <2>3, ShapesOfFlows, ShapeUpdate
  <2>5. [Settled(t) EXCEPT !.down = TRUE].flow = Settled(t).flow
    BY <2>1, SettledType DEF SupState
  <2>6. InShape(Settled(t)) /\ InShape(StartWeb(t, f)) /\ InShape(Recovering(t))
    BY <1>0, <2>1, <2>2, EndsInShape
  <2>7. InShape([Settled(t) EXCEPT !.down = TRUE])
    BY <2>5, <2>6, ShapeSame
  <2> QED BY <2>4, <2>6, <2>7 DEF StopReturned, t
<1> QED BY <1>1, <1>2, <1>3

LEMMA ExitedShape ==
    ASSUME NEW s \in SupState PROVE Exited(s).flow = s.flow
<1>1. Gone(s) \in SupState /\ Gone(s).flow = s.flow
  BY DEF Gone, SupState
<1>2. ScheduleRespawn(Gone(s)).flow = Gone(s).flow
  BY <1>1 DEF ScheduleRespawn, SupState
<1> QED BY <1>1, <1>2 DEF Exited

LEMMA MoveInShape ==
    ASSUME NEW s \in SupState, InShape(s), NEW f \in Flows, NEW pc,
           [s.flow[f] EXCEPT !.at = pc].doing = s.flow[f].doing
             => Doing(f, [s.flow[f] EXCEPT !.at = pc])
    PROVE  InShape([s EXCEPT !.flow[f].at = pc])
<1>1. s.flow[f] \in FlowState
  BY DEF SupState
<1>2. [s.flow[f] EXCEPT !.at = pc].doing = s.flow[f].doing
  BY <1>1 DEF FlowState
<1>3. [s EXCEPT !.flow[f].at = pc].flow = [s.flow EXCEPT ![f] = [s.flow[f] EXCEPT !.at = pc]]
  BY DEF SupState
<1> QED BY <1>2, <1>3, ShapeUpdate

LEMMA FlowStepShape ==
    ASSUME TypeOK, InShape(sup), NEW f \in Flows, FlowStep(f) PROVE InShape(sup')
<1>0. sup \in SupState /\ sup.flow[f] \in FlowState /\ Doing(f, sup.flow[f])
  BY DEF TypeOK, SupState, InShape
<1> DEFINE r == sup.flow[f]
           quiet == [sup EXCEPT !.stopping = FALSE]
<1>1. ASSUME NEW pc \in {"takeover", "drain", "waitEntry", "answered", "retry"},
             pc \in {"takeover", "drain"} => r.at \in {"probe", "takeover"},
             pc \notin {"takeover", "drain"} => r.at \in {"waitPort", "waitEntry", "retry"},
             sup' = [sup EXCEPT !.flow[f].at = pc]
      PROVE  InShape(sup')
  <2>1. [r EXCEPT !.at = pc].at = pc /\ [r EXCEPT !.at = pc].doing = r.doing
    BY <1>0 DEF FlowState
  <2>2. Doing(f, [r EXCEPT !.at = pc])
    BY <1>0, <1>1, <2>1 DEF Doing, Asking
  <2> QED BY <1>0, <1>1, <2>2, MoveInShape
<1>2. InShape(Threw(sup, f)) /\ InShape(Threw(quiet, f))
  <2>1. quiet \in SupState /\ quiet.flow = sup.flow
    BY <1>0 DEF SupState
  <2> HIDE DEF quiet
  <2> QED BY <1>0, <2>1, ShapeSame, EndsInShape
<1>3. r.at \in {"probe", "drain", "waitExit", "check"} /\ r.doing # "start"
        => f \in {"command", "close"}
  BY <1>0 DEF Doing
<1>4. ASSUME f \in {"command", "close"},
             sup' = [sup EXCEPT !.flow[f] = At("check", "stop", None)]
      PROVE  InShape(sup')
  <2>1. sup'.flow = [sup.flow EXCEPT ![f] = At("check", "stop", None)]
    BY <1>0, <1>4 DEF SupState
  <2> QED BY <1>0, <1>4, <2>1, ShapesOfFlows, ShapeUpdate
<1>5. ASSUME PortFree(f), r.at \in {"probe", "drain"} PROVE InShape(sup')
  <2>1. CASE Launch(f)
    <3>1. PICK c \in Webs :
            sup' = [sup EXCEPT !.web = c, !.flow[f] = At("waitPort", "start", c)]
      BY <2>1 DEF Launch, Becomes
    <3>2. sup'.flow = [sup.flow EXCEPT ![f] = At("waitPort", "start", c)]
      BY <1>0, <3>1 DEF SupState
    <3> QED BY <1>0, <3>2, ShapesOfFlows, ShapeUpdate
  <2>2. CASE r.doing # "start" /\ sup' = [sup EXCEPT !.flow[f] = At("check", "stop", None)]
    BY <1>3, <1>4, <1>5, <2>2
  <2> QED BY <1>5, <2>1, <2>2 DEF PortFree, Becomes
<1>6. CASE Probe(f)
  BY <1>1, <1>5, <1>6 DEF Probe, Becomes
<1>7. CASE Takeover(f)
  BY <1>1, <1>2, <1>7 DEF Takeover, Becomes
<1>8. CASE Drain(f)
  BY <1>5, <1>8 DEF Drain
<1>9. CASE WaitPort(f)
  BY <1>1, <1>2, <1>9 DEF WaitPort, Becomes
<1>10. CASE WaitEntry(f)
  BY <1>1, <1>2, <1>10 DEF WaitEntry, Becomes
<1>11. CASE Retry(f)
  BY <1>1, <1>11 DEF Retry, Becomes
<1>12. CASE Answered(f)
  <2>1. Ready(sup) \in SupState /\ Ready(sup).flow = sup.flow
    BY <1>0, ReadyType DEF Ready, SupState
  <2> QED BY <1>12, <2>1, ShapeSame, EndsInShape DEF Answered, Becomes
<1>13. CASE WaitExit(f)
  <2>1. f \in {"command", "close"}
    BY <1>0, <1>13 DEF WaitExit, Doing
  <2> QED BY <1>4, <1>13, <2>1 DEF WaitExit, Becomes
<1>14. CASE Check(f)
  <2>1. f \in {"command", "close"}
    BY <1>0, <1>14 DEF Check, Doing
  <2> QED BY <1>0, <1>2, <1>14, <2>1, StopsInShape DEF Check, Becomes
<1> QED BY <1>6, <1>7, <1>8, <1>9, <1>10, <1>11, <1>12, <1>13, <1>14 DEF FlowStep

LEMMA CommandShape ==
    ASSUME TypeOK, InShape(sup), CommandStep \/ Signal \/ CloseStops
           \/ (\E k \in Commands : Accept(k)) \/ (\E f \in Respawns : TimerFires(f))
           \/ (\E c \in Webs : ChildExit(c))
    PROVE  InShape(sup')
<1>0. sup \in SupState /\ "command" \in Flows /\ "close" \in Flows
  BY DEF TypeOK, Flows
<1>1. InShape(Threw(sup, "command")) /\ InShape(Settled(sup))
  BY <1>0, EndsInShape
<1>2. CASE AskRunning
  <2> DEFINE s == [sup EXCEPT !.cmd.was = sup.running \/ PortOpen]
             t == [s EXCEPT !.flow["command"] = At("build", "command", None)]
  <2>1. s \in SupState /\ s.flow = sup.flow
    <3>1. (sup.running \/ PortOpen) \in BOOLEAN
      BY DEF PortOpen
    <3>2. ASSUME NEW b \in BOOLEAN
          PROVE  LET u == [sup EXCEPT !.cmd.was = b] IN u \in SupState /\ u.flow = sup.flow
      BY <1>0 DEF SupState
    <3> QED BY <3>1, <3>2
  <2>2. sup' \in {t, CaptureOrStop(s)}
    BY <1>2 DEF AskRunning, Becomes
  <2> HIDE DEF s
  <2>3. InShape(s) /\ t.flow = [s.flow EXCEPT !["command"] = At("build", "command", None)]
    BY <2>1, ShapeSame DEF SupState
  <2>4. "build" \in Asking \cup {"captured", "recover"}
    BY DEF Asking
  <2>5. InShape(t)
    BY <1>0, <2>1, <2>3, <2>4, ShapesOfFlows, ShapeUpdate
  <2>6. InShape(CaptureOrStop(s))
    BY <2>1, <2>3, StopsInShape
  <2> QED BY <2>2, <2>5, <2>6
<1>3. CASE BuildEnds
  BY <1>0, <1>1, <1>3, StopsInShape DEF BuildEnds, Becomes
<1>4. CASE Capture
  <2>1. CASE sup' = Threw(sup, "command")
    BY <1>1, <2>1
  <2>2. ASSUME NEW some \in BOOLEAN, NEW o,
               sup' = [sup EXCEPT !.cmd.sessions = some, !.owed = o,
                                  !.flow["command"].at = "captured"]
        PROVE  InShape(sup')
    <3>1. sup'.flow = [sup.flow EXCEPT !["command"] = [@ EXCEPT !.at = "captured"]]
      BY <1>0, <2>2 DEF SupState
    <3>2. sup.flow["command"] \in FlowState /\ Doing("command", sup.flow["command"])
      BY <1>0 DEF SupState, InShape
    <3>3. Doing("command", [sup.flow["command"] EXCEPT !.at = "captured"])
      <4>1. [sup.flow["command"] EXCEPT !.at = "captured"].at = "captured"
            /\ [sup.flow["command"] EXCEPT !.at = "captured"].doing = "command"
        BY <1>4, <3>2 DEF Capture, Doing, Asking, FlowState
      <4> QED BY <4>1 DEF Doing, Asking
    <3> QED BY <1>0, <3>1, <3>3, ShapeUpdate
  <2> QED BY <1>4, <2>1, <2>2 DEF Capture, Becomes
<1>5. CASE StopAfterCapture
  BY <1>0, <1>5, StopsInShape DEF StopAfterCapture, Becomes
<1>6. CASE Recover
  <2>1. ASSUME NEW a \in {"told", "failed"} PROVE InShape(Settled(Recovered(sup, a)))
    <3>1. Recovered(sup, a) \in SupState /\ Recovered(sup, a).flow = sup.flow
      BY <1>0, <2>1 DEF Recovered, SupState
    <3> QED BY <1>0, <3>1, ShapeSame, EndsInShape
  <2> QED BY <1>1, <1>6, <2>1 DEF Recover, Becomes
<1>7. CASE Signal
  <2>1. sup'.flow = sup.flow \/ sup'.flow = [sup.flow EXCEPT !["close"] = At("progress", "close", None)]
    BY <1>0, <1>7 DEF Signal, Becomes, SupState
  <2> QED BY <1>0, <2>1, ShapeSame, ShapeUpdate, ShapesOfFlows
<1>8. CASE CloseStops
  BY <1>0, <1>8, StopsInShape DEF CloseStops, Becomes
<1>9. ASSUME NEW k \in Commands, Accept(k) PROVE InShape(sup')
  <2> DEFINE s == [sup EXCEPT !.cmd = [NoCommand EXCEPT !.kind = k],
                              !.down = @ /\ k = "stop",
                              !.ended = FALSE, !.owed = "nothing"]
             t == [s EXCEPT !.flow["command"] = At("ask", "command", None)]
  <2>1. [NoCommand EXCEPT !.kind = k]
          \in [kind : {"none"} \cup Commands, was : BOOLEAN, sessions : BOOLEAN]
    BY DEF NoCommand
  <2>2. s \in SupState /\ s.flow = sup.flow
    BY <1>0, <2>1 DEF SupState
  <2>3. sup' \in {StartWeb(s, "command"), Stop(s, "command"), t}
    BY <1>9 DEF Accept, Becomes
  <2> HIDE DEF s
  <2>4. InShape(s) /\ t.flow = [s.flow EXCEPT !["command"] = At("ask", "command", None)]
    BY <2>2, ShapeSame DEF SupState
  <2>5. "ask" \in Asking \cup {"captured", "recover"}
    BY DEF Asking
  <2>6. InShape(t)
    BY <1>0, <2>2, <2>4, <2>5, ShapesOfFlows, ShapeUpdate
  <2> QED BY <1>0, <2>2, <2>3, <2>4, <2>6, EndsInShape, StopsInShape
<1>10. ASSUME NEW f \in Respawns, TimerFires(f) PROVE InShape(sup')
  <2> DEFINE s == [sup EXCEPT !.timer = FALSE, !.tries = @ + 1]
  <2>1. s \in SupState /\ s.flow = sup.flow
    <3>1. sup.tries + 1 \in Nat
      BY <1>0 DEF SupState
    <3>2. ASSUME NEW n \in Nat
          PROVE  LET u == [sup EXCEPT !.timer = FALSE, !.tries = n] IN
                 u \in SupState /\ u.flow = sup.flow
      BY <1>0 DEF SupState
    <3> QED BY <3>1, <3>2
  <2>2. sup' = StartWeb(s, f)
    BY <1>10 DEF TimerFires, Becomes
  <2> HIDE DEF s
  <2> QED BY <2>1, <2>2, ShapeSame, EndsInShape DEF Flows
<1>11. ASSUME NEW c \in Webs, ChildExit(c) PROVE InShape(sup')
  BY <1>0, <1>11, ExitedShape, ShapeSame DEF ChildExit, Becomes
<1> QED BY <1>2, <1>3, <1>4, <1>5, <1>6, <1>7, <1>8, <1>9, <1>10, <1>11 DEF CommandStep

LEMMA ShapeStep == TypeOK /\ InShape(sup) /\ [Next]_vars => InShape(sup')
<1> SUFFICES ASSUME TypeOK, InShape(sup), [Next]_vars PROVE InShape(sup')
  OBVIOUS
<1>1. CASE sup' = sup
  BY <1>1
<1>2. ASSUME NEW p \in Procs, Listen(p) \/ PortTaken(p) \/ Terminated(p) \/ Crash(p)
      PROVE  sup' = sup
  BY <1>2 DEF Listen, PortTaken, Terminated, Crash
<1>3. CASE Next
  BY <1>1, <1>2, <1>3, FlowStepShape, CommandShape DEF Next
<1> QED BY <1>1, <1>3 DEF vars

LEMMA ShapeInit == Init => InShape(sup)
<1> SUFFICES ASSUME Init, NEW f \in Flows PROVE Doing(f, sup.flow[f])
  BY DEF InShape
<1>1. sup.flow[f] \in {At("probe", "start", None), Idle}
  BY DEF Init, Loaded
<1> QED BY <1>1, ShapesOfFlows

-----------------------------------------------------------------------------
(* Captured sessions.  That a command succeeded is known only when it ends,  *)
(* so the invariant follows it from the capture on: what it captured it      *)
(* still remembers, and only a command that recovers ever captures.          *)
Remembers(s) ==
    /\ s.ended => s.owed # "captured"
    /\ s.cmd.kind # "none" => ~s.ended
    /\ s.cmd.kind # "none" /\ s.owed = "captured"
         => s.cmd.sessions /\ s.cmd.kind \notin {"start", "stop"}
    /\ s.flow["command"].at # "idle" => s.cmd.kind # "none"
    /\ s.flow["command"].at \in Asking => s.cmd.kind \notin {"start", "stop"}

(* The command is left alone: its flow has not moved, or has ended or moved  *)
(* on.                                                                       *)
Untouched(s, t) ==
    /\ t.ended = s.ended /\ t.owed = s.owed /\ t.cmd = s.cmd
    /\ t.flow["command"].at # "idle" => s.flow["command"].at # "idle"
    /\ t.flow["command"].at \in Asking => s.flow["command"].at \in Asking

LEMMA UntouchedRemembers ==
    ASSUME NEW s, NEW t, Remembers(s), Untouched(s, t) PROVE Remembers(t)
BY DEF Remembers, Untouched

LEMMA SettledRemembers ==
    ASSUME NEW s \in SupState
    PROVE  /\ s.owed # "captured" => Remembers(Settled(s))
           /\ Remembers([Settled(s) EXCEPT !.ended = FALSE])
<1>1. /\ Settled(s).owed = s.owed
      /\ Settled(s).cmd = NoCommand /\ Settled(s).flow["command"] = Idle
  BY DEF Settled, SupState, Flows
<1> DEFINE t == Settled(s)
           u == [t EXCEPT !.ended = FALSE]
<1>2. t \in SupState
  BY SettledType
<1> HIDE DEF t
<1>3. u.ended = FALSE /\ u.owed = t.owed /\ u.cmd = t.cmd /\ u.flow = t.flow
  BY <1>2 DEF SupState
<1> HIDE DEF u
<1>4. s.owed # "captured" => Remembers(t)
  BY <1>1 DEF Remembers, NoCommand, Idle, Asking, t
<1>5. Remembers(u)
  BY <1>1, <1>3 DEF Remembers, NoCommand, Idle, Asking, t
<1> QED BY <1>4, <1>5 DEF t, u

LEMMA RecoveringRemembers ==
    ASSUME NEW s \in SupState, Remembers(s), s.cmd.kind # "none"
    PROVE  /\ Remembers(Recovering(s))
           /\ s.cmd.kind \in {"start", "stop"} => Remembers(Settled(s))
<1>1. CASE s.cmd.sessions
  <2> DEFINE t == [s EXCEPT !.flow["command"] = At("recover", "command", None)]
  <2>1. /\ t.ended = s.ended /\ t.owed = s.owed /\ t.cmd = s.cmd
        /\ t.flow["command"] = At("recover", "command", None)
    BY DEF SupState, Flows
  <2> HIDE DEF t
  <2>2. Remembers(t)
    BY <2>1 DEF Remembers, At, Asking
  <2> QED BY <1>1, <2>2, SettledRemembers DEF Recovering, Remembers, t
<1>2. CASE ~s.cmd.sessions
  BY <1>2, SettledRemembers DEF Recovering, Remembers
<1> QED BY <1>1, <1>2

LEMMA StartsRemember ==
    ASSUME NEW s \in SupState, NEW f \in Flows, Remembers(s),
           f = "command" => s.cmd.kind # "none"
    PROVE  Remembers(Started(s, f)) /\ Remembers(StartWeb(s, f))
<1>1. Remembers(Started(s, f))
  <2>1. CASE f = "command"
    BY <2>1, RecoveringRemembers DEF Started
  <2>2. CASE f # "command"
    <3>1. Untouched(s, [s EXCEPT !.flow[f] = Idle, !.booted = @ \/ f = "boot"])
      BY <2>2 DEF Untouched, SupState
    <3> QED BY <2>2, <3>1, UntouchedRemembers DEF Started
  <2> QED BY <2>1, <2>2
<1>2. CASE s.web # None
  BY <1>1, <1>2 DEF StartWeb
<1>3. CASE s.web = None
  <2> DEFINE t == [s EXCEPT !.flow[f] = At("probe", "start", None)]
  <2>1. /\ t.ended = s.ended /\ t.owed = s.owed /\ t.cmd = s.cmd
        /\ t.flow["command"] = IF f = "command" THEN At("probe", "start", None)
                               ELSE s.flow["command"]
    BY DEF SupState, Flows
  <2> HIDE DEF t
  <2>2. Remembers(t)
    BY <2>1 DEF Remembers, At, Asking
  <2> QED BY <1>1, <1>3, <2>2 DEF StartWeb, t
<1> QED BY <1>1, <1>2, <1>3

LEMMA StopsRemember ==
    ASSUME NEW s \in SupState, NEW f \in {"command", "close"}, Remembers(s),
           f = "command" => s.cmd.kind # "none"
    PROVE  Remembers(Stop(s, f)) /\ Remembers(StopReturned(s, f))
<1>0. f \in Flows
  BY DEF Flows
<1>1. Remembers(Stop(s, f))
  <2> DEFINE t == Stop(s, f)
  <2>1. /\ t.ended = s.ended /\ t.owed = s.owed /\ t.cmd = s.cmd
        /\ f # "command" => t.flow["command"] = s.flow["command"]
        /\ f = "command" => t.flow["command"].at \in {"waitExit", "probe"}
    BY <1>0 DEF Stop, Commanded, SupState, Flows, At
  <2> HIDE DEF t
  <2> QED BY <2>1 DEF Remembers, Asking, t
<1>2. Remembers(StopReturned(s, f))
  <2> DEFINE t == Stopped(s)
  <2>1. t \in SupState /\ t.cmd = s.cmd /\ t.flow = s.flow /\ Untouched(s, t)
    BY StoppedType DEF Stopped, SupState, Untouched
  <2> HIDE DEF t
  <2>2. Remembers(t)
    BY <2>1, UntouchedRemembers
  <2>3. CASE f = "close"
    <3>1. Untouched(t, [t EXCEPT !.flow[f] = Idle, !.exited = TRUE])
      BY <2>1, <2>3 DEF Untouched, SupState
    <3> QED BY <2>2, <2>3, <3>1, UntouchedRemembers DEF StopReturned, t
  <2>4. CASE f = "command" /\ s.cmd.kind = "stop"
    <3>1. Remembers(Settled(t)) /\ Settled(t) \in SupState
      BY <2>1, <2>2, <2>4, RecoveringRemembers, SettledType
    <3>2. Untouched(Settled(t), [Settled(t) EXCEPT !.down = TRUE])
      BY <3>1 DEF Untouched, SupState
    <3>3. Remembers([Settled(t) EXCEPT !.down = TRUE])
      BY <3>1, <3>2, UntouchedRemembers
    <3> QED BY <2>4, <3>3 DEF StopReturned, t
  <2>5. CASE f = "command" /\ s.cmd.kind # "stop"
    <3>1. Remembers(StartWeb(t, f)) /\ Remembers(Recovering(t))
      BY <1>0, <2>1, <2>2, <2>5, StartsRemember, RecoveringRemembers
    <3> QED BY <2>5, <3>1 DEF StopReturned, t
  <2> QED BY <2>3, <2>4, <2>5
<1> QED BY <1>1, <1>2

LEMMA CaptureOrStopRemembers ==
    ASSUME NEW s \in SupState, Remembers(s), s.flow["command"].at \in Asking
    PROVE  Remembers(CaptureOrStop(s))
<1>1. s.cmd.kind # "none"
  BY DEF Remembers, Asking
<1>2. Untouched(s, [s EXCEPT !.flow["command"] = At("capture", "command", None)])
  BY DEF Untouched, SupState, At, Asking, Flows
<1> QED BY <1>1, <1>2, UntouchedRemembers, StopsRemember DEF CaptureOrStop

LEMMA ThrewRemembers ==
    ASSUME NEW s \in SupState, NEW f \in Flows, Remembers(s) PROVE Remembers(Threw(s, f))
<1>1. CASE f = "command"
  BY <1>1, SettledRemembers DEF Threw
<1>2. CASE f # "command"
  <2> DEFINE t == [s EXCEPT !.flow[f] = Idle]
  <2>1. t \in SupState
    BY IdleFlow
  <2>2. /\ Untouched(s, t)
        /\ Untouched(s, [s EXCEPT !.flow[f] = Idle, !.exited = TRUE])
    BY <1>2 DEF Untouched, SupState
  <2> HIDE DEF t
  <2>3. Untouched(t, ScheduleRespawn(t))
    BY <2>1 DEF Untouched, ScheduleRespawn, SupState
  <2>4. Remembers(t) /\ Remembers([s EXCEPT !.flow[f] = Idle, !.exited = TRUE])
    BY <2>2, UntouchedRemembers
  <2>5. Remembers(ScheduleRespawn(t))
    BY <2>3, <2>4, UntouchedRemembers
  <2> QED BY <1>2, <2>4, <2>5 DEF Threw, t
<1> QED BY <1>1, <1>2

LEMMA FlowStepRemembers ==
    ASSUME TypeOK, InShape(sup), Remembers(sup), NEW f \in Flows, FlowStep(f)
    PROVE  Remembers(sup')
<1>0. sup \in SupState /\ Doing(f, sup.flow[f])
  BY DEF TypeOK, InShape
<1> DEFINE quiet == [sup EXCEPT !.stopping = FALSE]
<1>1. ASSUME NEW pc, pc \notin Asking, sup.flow[f].at # "idle",
             sup' = [sup EXCEPT !.flow[f].at = pc]
      PROVE  Remembers(sup')
  <2>1. Untouched(sup, sup')
    BY <1>0, <1>1 DEF Untouched, SupState, FlowState
  <2> QED BY <2>1, UntouchedRemembers
<1>2. Remembers(Threw(sup, f)) /\ Remembers(Threw(quiet, f))
  <2>1. quiet \in SupState /\ Untouched(sup, quiet)
    BY <1>0 DEF SupState, Untouched
  <2> HIDE DEF quiet
  <2> QED BY <1>0, <2>1, UntouchedRemembers, ThrewRemembers
<1>3. ASSUME sup' = [sup EXCEPT !.flow[f] = At("check", "stop", None)],
             sup.flow[f].at # "idle"
      PROVE  Remembers(sup')
  <2>1. Untouched(sup, sup')
    BY <1>0, <1>3 DEF Untouched, SupState, At, Asking
  <2> QED BY <2>1, UntouchedRemembers
<1>4. ASSUME PortFree(f), sup.flow[f].at # "idle" PROVE Remembers(sup')
  <2>1. CASE Launch(f)
    <3>1. Untouched(sup, sup')
      BY <1>0, <1>4, <2>1 DEF Launch, Becomes, Untouched, SupState, At, Asking
    <3> QED BY <3>1, UntouchedRemembers
  <2>2. CASE sup' = [sup EXCEPT !.flow[f] = At("check", "stop", None)]
    BY <1>3, <1>4, <2>2
  <2> QED BY <1>4, <2>1, <2>2 DEF PortFree, Becomes
<1>5. CASE Probe(f)
  BY <1>1, <1>4, <1>5 DEF Probe, Becomes, Asking
<1>6. CASE Takeover(f)
  BY <1>1, <1>2, <1>6 DEF Takeover, Becomes, Asking
<1>7. CASE Drain(f)
  BY <1>4, <1>7 DEF Drain
<1>8. CASE WaitPort(f)
  <2>1. sup.flow[f].at # "idle" /\ "waitEntry" \notin Asking
    BY <1>8 DEF WaitPort, Asking
  <2>2. sup' = [sup EXCEPT !.flow[f].at = "waitEntry"] \/ sup' = Threw(sup, f)
    BY <1>8 DEF WaitPort, Becomes
  <2> QED BY <1>1, <1>2, <2>1, <2>2
<1>9. CASE WaitEntry(f)
  <2>1. sup.flow[f].at # "idle" /\ "answered" \notin Asking /\ "retry" \notin Asking
    BY <1>9 DEF WaitEntry, Asking
  <2>2. \/ sup' = [sup EXCEPT !.flow[f].at = "answered"]
        \/ sup' = [sup EXCEPT !.flow[f].at = "retry"]
        \/ sup' = Threw(sup, f)
    BY <1>9 DEF WaitEntry, Becomes
  <2> QED BY <1>1, <1>2, <2>1, <2>2
<1>10. CASE Retry(f)
  BY <1>1, <1>10 DEF Retry, Becomes, Asking
<1>11. CASE Answered(f)
  <2>1. Ready(sup) \in SupState /\ Untouched(sup, Ready(sup))
    BY <1>0, ReadyType DEF Ready, SupState, Untouched
  <2>2. f = "command" => Ready(sup).cmd.kind # "none"
    BY <1>11, <2>1 DEF Answered, Remembers, Untouched
  <2> QED BY <1>11, <2>1, <2>2, UntouchedRemembers, StartsRemember DEF Answered, Becomes
<1>12. CASE WaitExit(f)
  BY <1>3, <1>12 DEF WaitExit, Becomes
<1>13. CASE Check(f)
  <2>1. f \in {"command", "close"} /\ (f = "command" => sup.cmd.kind # "none")
    BY <1>0, <1>13 DEF Check, Doing, Remembers
  <2> QED BY <1>0, <1>2, <1>13, <2>1, StopsRemember DEF Check, Becomes
<1> QED BY <1>5, <1>6, <1>7, <1>8, <1>9, <1>10, <1>11, <1>12, <1>13 DEF FlowStep

LEMMA CommandRemembers ==
    ASSUME TypeOK, Remembers(sup), CommandStep \/ Signal \/ CloseStops
           \/ (\E k \in Commands : Accept(k)) \/ (\E f \in Respawns : TimerFires(f))
           \/ (\E c \in Webs : ChildExit(c))
    PROVE  Remembers(sup')
<1>0. sup \in SupState /\ "command" \in Flows /\ "close" \in Flows
  BY DEF TypeOK, Flows
<1>1. Remembers(Threw(sup, "command"))
  BY <1>0, ThrewRemembers
<1>2. CASE AskRunning
  <2> DEFINE s == [sup EXCEPT !.cmd.was = sup.running \/ PortOpen]
             t == [s EXCEPT !.flow["command"] = At("build", "command", None)]
  <2>1. s \in SupState /\ s.flow = sup.flow /\ s.ended = sup.ended /\ s.owed = sup.owed
        /\ s.cmd.kind = sup.cmd.kind /\ s.cmd.sessions = sup.cmd.sessions
    <3>1. (sup.running \/ PortOpen) \in BOOLEAN
      BY DEF PortOpen
    <3>2. ASSUME NEW b \in BOOLEAN
          PROVE  LET u == [sup EXCEPT !.cmd.was = b] IN
                 u \in SupState /\ u.flow = sup.flow /\ u.ended = sup.ended /\ u.owed = sup.owed
                 /\ u.cmd.kind = sup.cmd.kind /\ u.cmd.sessions = sup.cmd.sessions
      BY <1>0 DEF SupState
    <3> QED BY <3>1, <3>2
  <2>2. sup' \in {t, CaptureOrStop(s)}
    BY <1>2 DEF AskRunning, Becomes
  <2> HIDE DEF s
  <2>3. Remembers(s) /\ s.flow["command"].at = "ask"
    BY <1>2, <2>1 DEF Remembers, AskRunning
  <2>4. Untouched(s, t)
    BY <2>1, <2>3 DEF Untouched, SupState, At, Asking, Flows
  <2>5. Remembers(t) /\ Remembers(CaptureOrStop(s))
    BY <2>1, <2>3, <2>4, UntouchedRemembers, CaptureOrStopRemembers DEF Asking
  <2> QED BY <2>2, <2>5
<1>3. CASE BuildEnds
  BY <1>0, <1>1, <1>3, CaptureOrStopRemembers DEF BuildEnds, Becomes, Asking
<1>4. CASE Capture
  <2>1. CASE sup' = Threw(sup, "command")
    BY <1>1, <2>1
  <2>2. ASSUME NEW some \in BOOLEAN,
               sup' = [sup EXCEPT !.cmd.sessions = some,
                                  !.owed = IF some THEN "captured" ELSE "nothing",
                                  !.flow["command"].at = "captured"]
        PROVE  Remembers(sup')
    <3>1. /\ sup'.cmd.kind = sup.cmd.kind /\ sup'.cmd.sessions = some
          /\ sup'.owed = IF some THEN "captured" ELSE "nothing"
          /\ sup'.ended = sup.ended /\ sup'.flow["command"].at = "captured"
      BY <1>0, <2>2 DEF SupState, FlowState
    <3>2. sup.flow["command"].at = "capture"
      BY <1>4 DEF Capture
    <3> QED BY <3>1, <3>2 DEF Remembers, Asking
  <2> QED BY <1>4, <2>1, <2>2 DEF Capture, Becomes
<1>5. CASE StopAfterCapture
  <2>1. sup.cmd.kind # "none"
    BY <1>5 DEF StopAfterCapture, Remembers
  <2> QED BY <1>0, <1>5, <2>1, StopsRemember DEF StopAfterCapture, Becomes
<1>6. CASE Recover
  <2>1. ASSUME NEW a \in {"told", "failed"} PROVE Remembers(Settled(Recovered(sup, a)))
    <3>1. Recovered(sup, a) \in SupState /\ Recovered(sup, a).owed = a
      BY <1>0, <2>1 DEF Recovered, SupState
    <3> QED BY <3>1, SettledRemembers
  <2> QED BY <1>1, <1>6, <2>1 DEF Recover, Becomes
<1>7. CASE Signal
  <2>1. Untouched(sup, sup')
    BY <1>0, <1>7 DEF Signal, Becomes, SupState, Untouched
  <2> QED BY <2>1, UntouchedRemembers
<1>8. CASE CloseStops
  BY <1>0, <1>8, StopsRemember DEF CloseStops, Becomes
<1>9. ASSUME NEW k \in Commands, Accept(k) PROVE Remembers(sup')
  <2> DEFINE s == [sup EXCEPT !.cmd = [NoCommand EXCEPT !.kind = k],
                              !.down = @ /\ k = "stop",
                              !.ended = FALSE, !.owed = "nothing"]
             t == [s EXCEPT !.flow["command"] = At("ask", "command", None)]
  <2>1. /\ [NoCommand EXCEPT !.kind = k]
             \in [kind : {"none"} \cup Commands, was : BOOLEAN, sessions : BOOLEAN]
        /\ [NoCommand EXCEPT !.kind = k].kind = k /\ k # "none"
    BY DEF NoCommand, SupervisorAssumption
  <2>2. s \in SupState /\ s.cmd.kind = k /\ s.flow = sup.flow
        /\ s.ended = FALSE /\ s.owed = "nothing"
    BY <1>0, <2>1 DEF SupState
  <2>3. \/ sup' \in {StartWeb(s, "command"), Stop(s, "command")}
        \/ sup' = t /\ k \notin {"start", "stop"}
    BY <1>9 DEF Accept, Becomes
  <2> HIDE DEF s
  <2>4. sup.cmd.kind = "none" /\ sup.flow["command"].at = "idle"
    BY <1>9 DEF Accept, NoneActive, Remembers
  <2>5. Remembers(s)
    BY <2>1, <2>2, <2>4 DEF Remembers, Asking
  <2>6. /\ t.ended = s.ended /\ t.owed = s.owed /\ t.cmd = s.cmd
        /\ t.flow["command"].at = "ask"
    BY <1>0, <2>2 DEF SupState, At
  <2>7. k \notin {"start", "stop"} => Remembers(t)
    BY <2>1, <2>2, <2>6 DEF Remembers
  <2> QED BY <1>0, <2>1, <2>2, <2>3, <2>5, <2>7, StartsRemember, StopsRemember
<1>10. ASSUME NEW f \in Respawns, TimerFires(f) PROVE Remembers(sup')
  <2> DEFINE s == [sup EXCEPT !.timer = FALSE, !.tries = @ + 1]
  <2>1. s \in SupState /\ Untouched(sup, s)
    <3>1. sup.tries + 1 \in Nat
      BY <1>0 DEF SupState
    <3>2. ASSUME NEW n \in Nat
          PROVE  LET u == [sup EXCEPT !.timer = FALSE, !.tries = n] IN
                 u \in SupState /\ Untouched(sup, u)
      BY <1>0 DEF SupState, Untouched
    <3> QED BY <3>1, <3>2
  <2>2. sup' = StartWeb(s, f) /\ f # "command" /\ f \in Flows
    BY <1>10 DEF TimerFires, Becomes, SupervisorAssumption, Flows
  <2> HIDE DEF s
  <2> QED BY <2>1, <2>2, UntouchedRemembers, StartsRemember
<1>11. ASSUME NEW c \in Webs, ChildExit(c) PROVE Remembers(sup')
  <2>1. Gone(sup) \in SupState /\ Untouched(sup, Gone(sup))
    BY <1>0 DEF Gone, SupState, Untouched
  <2>2. Untouched(Gone(sup), ScheduleRespawn(Gone(sup)))
    BY <2>1 DEF ScheduleRespawn, SupState, Untouched
  <2>3. Remembers(Exited(sup))
    BY <2>1, <2>2, UntouchedRemembers DEF Exited
  <2> QED BY <1>11, <2>3 DEF ChildExit, Becomes
<1> QED BY <1>2, <1>3, <1>4, <1>5, <1>6, <1>7, <1>8, <1>9, <1>10, <1>11 DEF CommandStep

LEMMA RemembersStep ==
    TypeOK /\ InShape(sup) /\ Remembers(sup) /\ [Next]_vars => Remembers(sup')
<1> SUFFICES ASSUME TypeOK, InShape(sup), Remembers(sup), [Next]_vars PROVE Remembers(sup')
  OBVIOUS
<1>1. CASE sup' = sup
  BY <1>1
<1>2. ASSUME NEW p \in Procs, Listen(p) \/ PortTaken(p) \/ Terminated(p) \/ Crash(p)
      PROVE  sup' = sup
  BY <1>2 DEF Listen, PortTaken, Terminated, Crash
<1>3. CASE Next
  BY <1>1, <1>2, <1>3, FlowStepRemembers, CommandRemembers DEF Next
<1> QED BY <1>1, <1>3 DEF vars

LEMMA RemembersInit == Init => Remembers(sup)
<1> SUFFICES ASSUME Init PROVE Remembers(sup)
  OBVIOUS
<1>1. sup.ended = FALSE /\ sup.cmd = NoCommand /\ sup.flow["command"] = Idle
  BY DEF Init, Loaded, Flows
<1> QED BY <1>1 DEF Remembers, NoCommand, Idle, Asking

LEMMA FollowsStep ==
    TypeOK /\ (InShape(sup) /\ Remembers(sup)) /\ [Next]_vars
      => (InShape(sup) /\ Remembers(sup))'
<1>1. TypeOK /\ InShape(sup) /\ Remembers(sup) /\ [Next]_vars
        => InShape(sup') /\ Remembers(sup')
  BY ShapeStep, RemembersStep
<1> QED BY <1>1 DEF InShape, Doing, Remembers, Asking

(* A command that succeeds leaves no session it captured behind, whatever    *)
(* crashes, respawns, fails or ends the supervisor between the capture and   *)
(* the recovery: there is no way from the capture to a success but a Web     *)
(* that was asked to recover it.                                             *)
THEOREM SupervisorRecoversCaptured == Spec => []CapturedAreRecovered
<1> DEFINE Follows == InShape(sup) /\ Remembers(sup)
<1>1. Init => Follows
  BY ShapeInit, RemembersInit
<1>2. TypeOK /\ Follows /\ [Next]_vars => Follows'
  BY FollowsStep
<1>3. Follows => CapturedAreRecovered
  BY DEF Remembers, CapturedAreRecovered
<1> HIDE DEF Follows
<1> QED BY <1>1, <1>2, <1>3, SupervisorTypeCorrect, PTL DEF Spec

-----------------------------------------------------------------------------
(* Until two flows meet.  Neither property is inductive: what keeps a second *)
(* Web from being spawned is what a flow knows of the Web that is owned, and *)
(* what keeps a stop is that no timer is armed and no start is under way     *)
(* when it returns.                                                          *)
OneFlow(s) == \A f, g \in Busy(s) : f = g

(* What a flow r knows of the supervisor: there is no Web it could hide when *)
(* it spawns or has stopped one, and no respawn follows a stop.              *)
Fine(s, r) ==
    /\ r.at \in {"probe", "takeover", "drain", "check"} => s.web = None
    /\ r.at = "waitExit" => s.web \in {None, r.on}
    /\ r.at # "idle" /\ r.doing = "stop" => s.stopping /\ ~s.timer

(* After a stop nothing is owned, no respawn is pending and no start is      *)
(* under way.                                                                *)
Rests(s) ==
    s.down => /\ s.web = None /\ ~s.timer
              /\ s.cmd.kind \in {"none", "stop"}
              /\ \A f \in Busy(s) : s.flow[f].doing \in {"stop", "close"}

Calm(s) == (\A f \in Flows : Fine(s, s.flow[f])) /\ Rests(s)

(* When only f may be busy, calm is about f alone.                           *)
Only(s, f) == \A g \in Flows : g # f => s.flow[g].at = "idle"

LEMMA OnlyOne ==
    ASSUME NEW s, OneFlow(s), NEW f \in Flows, s.flow[f].at # "idle" PROVE Only(s, f)
BY DEF OneFlow, Busy, Only

LEMMA CalmOfOne ==
    ASSUME NEW t, NEW f \in Flows, Only(t, f), Fine(t, t.flow[f]),
           t.down => /\ t.web = None /\ ~t.timer
                     /\ t.cmd.kind \in {"none", "stop"}
                     /\ t.flow[f].at = "idle" \/ t.flow[f].doing \in {"stop", "close"}
    PROVE  Calm(t)
<1>1. ASSUME NEW g \in Flows PROVE Fine(t, t.flow[g])
  BY <1>1 DEF Only, Fine
<1>2. Rests(t)
  BY DEF Rests, Only, Busy
<1> QED BY <1>1, <1>2 DEF Calm

(* A flow has ended, and it was the only one.                                *)
LEMMA CalmAtRest ==
    ASSUME NEW t, NEW f \in Flows, Only(t, f), t.flow[f].at = "idle",
           t.down => t.web = None /\ ~t.timer /\ t.cmd.kind \in {"none", "stop"}
    PROVE  Calm(t)
BY CalmOfOne DEF Fine

(* The effects of the operators that end a flow or let it go on.             *)
LEMMA SettledEffects ==
    ASSUME NEW s \in SupState
    PROVE  LET t == Settled(s) IN
           /\ t.web = s.web /\ t.timer = s.timer /\ t.stopping = s.stopping
           /\ t.down = s.down /\ t.cmd.kind = "none"
           /\ t.flow["command"].at = "idle"
           /\ \A g \in Flows : g # "command" => t.flow[g] = s.flow[g]
BY DEF Settled, SupState, NoCommand, Idle, Flows

LEMMA ThrewEffects ==
    ASSUME NEW s \in SupState, NEW f \in Flows
    PROVE  LET t == Threw(s, f) IN
           /\ t.web = s.web /\ t.stopping = s.stopping /\ t.down = s.down
           /\ f \notin Respawns => t.timer = s.timer
           /\ t.cmd.kind \in {s.cmd.kind, "none"}
           /\ t.flow[f].at = "idle"
           /\ \A g \in Flows : g # f => t.flow[g] = s.flow[g]
<1>1. CASE f = "command"
  <2> DEFINE u == Settled(s)
             t == [u EXCEPT !.ended = FALSE]
  <2>1. u \in SupState
    BY SettledType
  <2> HIDE DEF u
  <2>2. /\ t.web = u.web /\ t.timer = u.timer /\ t.stopping = u.stopping
        /\ t.down = u.down /\ t.cmd = u.cmd /\ t.flow = u.flow
    BY <2>1 DEF SupState
  <2> HIDE DEF t
  <2>3. Threw(s, f) = t
    BY <1>1 DEF Threw, t, u
  <2> QED BY <1>1, <2>2, <2>3, SettledEffects DEF u
<1>2. CASE f \in Respawns
  <2> DEFINE u == [s EXCEPT !.flow[f] = Idle]
             t == ScheduleRespawn(u)
  <2>1. /\ u \in SupState /\ u.web = s.web /\ u.stopping = s.stopping
        /\ u.down = s.down /\ u.cmd = s.cmd /\ u.flow[f].at = "idle"
        /\ \A g \in Flows : g # f => u.flow[g] = s.flow[g]
    BY IdleFlow DEF SupState, Idle
  <2> HIDE DEF u
  <2>2. /\ t.web = u.web /\ t.stopping = u.stopping /\ t.down = u.down
        /\ t.cmd = u.cmd /\ t.flow = u.flow
    BY <2>1 DEF ScheduleRespawn, SupState
  <2> HIDE DEF t
  <2>3. Threw(s, f) = t
    BY <1>2 DEF Threw, t, u, SupervisorAssumption
  <2> QED BY <1>2, <2>1, <2>2, <2>3
<1>3. CASE f \notin Respawns /\ f # "command"
  BY <1>3 DEF Threw, SupState, Idle
<1> QED BY <1>1, <1>2, <1>3

LEMMA RecoveringEffects ==
    ASSUME NEW s \in SupState
    PROVE  LET t == Recovering(s) IN
           /\ t.web = s.web /\ t.timer = s.timer /\ t.stopping = s.stopping
           /\ t.down = s.down
           /\ t.flow["command"].at = "idle"
              \/ (t.flow["command"].at = "recover" /\ t.flow["command"].doing = "command")
           /\ \A g \in Flows : g # "command" => t.flow[g] = s.flow[g]
<1>1. CASE s.cmd.sessions
  BY <1>1 DEF Recovering, SupState, At, Flows
<1>2. CASE ~s.cmd.sessions
  BY <1>2, SettledEffects DEF Recovering
<1> QED BY <1>1, <1>2

LEMMA StartedEffects ==
    ASSUME NEW s \in SupState, NEW f \in Flows
    PROVE  LET t == Started(s, f) IN
           /\ t.web = s.web /\ t.timer = s.timer /\ t.stopping = s.stopping
           /\ t.down = s.down
           /\ t.flow[f].at = "idle"
              \/ (f = "command" /\ s.cmd.kind # "start"
                    /\ t.flow[f].at = "recover" /\ t.flow[f].doing = "command")
           /\ \A g \in Flows : g # f => t.flow[g] = s.flow[g]
<1>1. CASE f = "command"
  BY <1>1, SettledEffects, RecoveringEffects DEF Started
<1>2. CASE f # "command"
  BY <1>2 DEF Started, SupState, Idle
<1> QED BY <1>1, <1>2

LEMMA ProbeEffects ==
    ASSUME NEW s \in SupState, NEW f \in Flows
    PROVE  LET t == [s EXCEPT !.flow[f] = At("probe", "start", None)] IN
           /\ t.web = s.web /\ t.timer = s.timer /\ t.down = s.down /\ t.cmd = s.cmd
           /\ t.flow[f].at = "probe" /\ t.flow[f].doing = "start"
           /\ \A g \in Flows : g # f => t.flow[g] = s.flow[g]
BY DEF SupState, At

LEMMA StopEffects ==
    ASSUME NEW s \in SupState, NEW f \in Flows
    PROVE  LET t == Stop(s, f) IN
           /\ t.web = s.web /\ ~t.timer /\ t.stopping /\ t.down = s.down /\ t.cmd = s.cmd
           /\ t.flow[f].doing = "stop"
           /\ IF s.web # None THEN t.flow[f].at = "waitExit" /\ t.flow[f].on = s.web
              ELSE t.flow[f].at = "probe"
           /\ \A g \in Flows : g # f => t.flow[g] = s.flow[g]
BY DEF Stop, Commanded, SupState, At

(* A stop that begins is calm, when no other flow is under way.              *)
LEMMA StopCalm ==
    ASSUME NEW s \in SupState, NEW f \in Flows, OneFlow(Stop(s, f)),
           s.down => s.web = None /\ s.cmd.kind \in {"none", "stop"}
    PROVE  Calm(Stop(s, f))
<1> DEFINE t == Stop(s, f)
<1>1. /\ t.web = s.web /\ ~t.timer /\ t.stopping /\ t.down = s.down /\ t.cmd = s.cmd
      /\ t.flow[f].doing = "stop"
      /\ IF s.web # None THEN t.flow[f].at = "waitExit" /\ t.flow[f].on = s.web
         ELSE t.flow[f].at = "probe"
  BY StopEffects
<1> HIDE DEF t
<1>2. Only(t, f)
  BY <1>1, OnlyOne DEF t
<1>3. Fine(t, t.flow[f])
  BY <1>1 DEF Fine
<1>4. Calm(t)
  BY <1>1, <1>2, <1>3, CalmOfOne
<1> QED BY <1>4 DEF t

LEMMA StartCalm ==
    ASSUME NEW s \in SupState, NEW f \in Flows, Only(s, f), ~s.down, s.web = None
    PROVE  Calm(StartWeb(s, f))
<1> DEFINE t == [s EXCEPT !.flow[f] = At("probe", "start", None)]
<1>1. /\ t.web = None /\ ~t.down
      /\ t.flow[f].at = "probe" /\ t.flow[f].doing = "start"
      /\ \A g \in Flows : g # f => t.flow[g] = s.flow[g]
  BY ProbeEffects
<1> HIDE DEF t
<1>2. Only(t, f) /\ Fine(t, t.flow[f])
  BY <1>1 DEF Only, Fine
<1>3. Calm(t)
  BY <1>1, <1>2, CalmOfOne
<1> QED BY <1>3 DEF StartWeb, t

LEMMA RecoveringCalm ==
    ASSUME NEW s \in SupState, Only(s, "command"), ~s.down PROVE Calm(Recovering(s))
<1> DEFINE t == Recovering(s)
<1>1. /\ ~t.down
      /\ t.flow["command"].at = "idle"
         \/ (t.flow["command"].at = "recover" /\ t.flow["command"].doing = "command")
      /\ \A g \in Flows : g # "command" => t.flow[g] = s.flow[g]
  BY RecoveringEffects
<1> HIDE DEF t
<1>2. Only(t, "command") /\ Fine(t, t.flow["command"])
  BY <1>1 DEF Only, Fine
<1>3. Calm(t)
  BY <1>1, <1>2, CalmOfOne DEF Flows
<1> QED BY <1>3 DEF t

LEMMA StartedCalm ==
    ASSUME NEW s \in SupState, NEW f \in Flows, Only(s, f), ~s.down
    PROVE  Calm(Started(s, f))
<1> DEFINE t == Started(s, f)
<1>1. /\ ~t.down
      /\ t.flow[f].at = "idle" \/ (t.flow[f].at = "recover" /\ t.flow[f].doing = "command")
      /\ \A g \in Flows : g # f => t.flow[g] = s.flow[g]
  BY StartedEffects
<1> HIDE DEF t
<1>2. Only(t, f) /\ Fine(t, t.flow[f])
  BY <1>1 DEF Only, Fine
<1>3. Calm(t)
  BY <1>1, <1>2, CalmOfOne
<1> QED BY <1>3 DEF t

LEMMA SettledCalm ==
    ASSUME NEW s \in SupState, Only(s, "command"), s.down => s.web = None /\ ~s.timer
    PROVE  Calm(Settled(s))
<1> DEFINE t == Settled(s)
<1>1. /\ t.web = s.web /\ t.timer = s.timer /\ t.down = s.down /\ t.cmd.kind = "none"
      /\ t.flow["command"].at = "idle"
      /\ \A g \in Flows : g # "command" => t.flow[g] = s.flow[g]
  BY SettledEffects
<1> HIDE DEF t
<1>2. Only(t, "command")
  BY <1>1 DEF Only
<1>3. Calm(t)
  BY <1>1, <1>2, CalmAtRest DEF Flows
<1> QED BY <1>3 DEF t

LEMMA ThrewCalm ==
    ASSUME NEW s \in SupState, NEW f \in Flows, Only(s, f), Rests(s),
           s.down => f \notin Respawns
    PROVE  Calm(Threw(s, f))
<1> DEFINE t == Threw(s, f)
<1>1. /\ t.web = s.web /\ t.down = s.down
      /\ f \notin Respawns => t.timer = s.timer
      /\ t.cmd.kind \in {s.cmd.kind, "none"}
      /\ t.flow[f].at = "idle"
      /\ \A g \in Flows : g # f => t.flow[g] = s.flow[g]
  BY ThrewEffects
<1> HIDE DEF t
<1>2. Only(t, f)
  BY <1>1 DEF Only
<1>3. t.down => t.web = None /\ ~t.timer /\ t.cmd.kind \in {"none", "stop"}
  BY <1>1 DEF Rests
<1>4. Calm(t)
  BY <1>1, <1>2, <1>3, CalmAtRest
<1> QED BY <1>4 DEF t

LEMMA StopReturnedCalm ==
    ASSUME NEW s \in SupState, NEW f \in {"command", "close"}, Only(s, f), Calm(s),
           s.flow[f].at = "check", s.flow[f].doing = "stop",
           f = "command" => s.cmd.kind # "none"
    PROVE  Calm(StopReturned(s, f))
<1>0. f \in Flows
  BY DEF Flows
<1>1. s.web = None /\ ~s.timer
  BY <1>0 DEF Calm, Fine
<1> DEFINE t == Stopped(s)
<1>2. /\ t \in SupState /\ t.web = None /\ ~t.timer /\ t.down = s.down
      /\ t.cmd = s.cmd /\ t.flow = s.flow
  <2>1. t \in SupState
    BY StoppedType
  <2>2. t.web = None /\ t.timer = s.timer /\ t.down = s.down
        /\ t.cmd = s.cmd /\ t.flow = s.flow
    BY DEF Stopped, SupState
  <2> QED BY <1>1, <2>1, <2>2
<1> HIDE DEF t
<1>3. Only(t, f) /\ (t.down => t.cmd.kind \in {"none", "stop"})
  BY <1>2 DEF Only, Calm, Rests
<1>4. CASE f = "close"
  <2> DEFINE u == [t EXCEPT !.flow[f] = Idle, !.exited = TRUE]
  <2>1. /\ u.web = None /\ ~u.timer /\ u.down = t.down /\ u.cmd = t.cmd
        /\ u.flow[f].at = "idle" /\ \A g \in Flows : g # f => u.flow[g] = t.flow[g]
    BY <1>0, <1>2 DEF SupState, Idle
  <2> HIDE DEF u
  <2>2. Only(u, f)
    BY <1>3, <2>1 DEF Only
  <2>3. Calm(u)
    BY <1>0, <1>3, <2>1, <2>2, CalmAtRest
  <2> QED BY <1>4, <2>3 DEF StopReturned, t, u
<1>5. CASE f = "command" /\ s.cmd.kind = "stop"
  <2> DEFINE v == Settled(t)
             u == [v EXCEPT !.down = TRUE]
  <2>1. v \in SupState /\ v.web = None /\ ~v.timer /\ v.cmd.kind = "none"
        /\ v.flow[f].at = "idle" /\ \A g \in Flows : g # f => v.flow[g] = t.flow[g]
    BY <1>2, <1>5, SettledType, SettledEffects
  <2> HIDE DEF v
  <2>2. u.web = None /\ ~u.timer /\ u.cmd.kind = "none" /\ u.flow = v.flow
    BY <2>1 DEF SupState
  <2> HIDE DEF u
  <2>3. Only(u, f) /\ u.flow[f].at = "idle"
    BY <1>3, <2>1, <2>2 DEF Only
  <2>4. Calm(u)
    BY <1>0, <2>2, <2>3, CalmAtRest
  <2> QED BY <1>5, <2>4 DEF StopReturned, t, u, v
<1>6. CASE f = "command" /\ s.cmd.kind # "stop"
  <2>1. ~t.down
    BY <1>2, <1>3, <1>6
  <2>2. Calm(StartWeb(t, f)) /\ Calm(Recovering(t))
    BY <1>0, <1>2, <1>3, <1>6, <2>1, StartCalm, RecoveringCalm
  <2> QED BY <1>6, <2>2 DEF StopReturned, t
<1> QED BY <1>4, <1>5, <1>6

LEMMA FlowStepCalm ==
    ASSUME TypeOK, OwnsNoGhost, InShape(sup), Remembers(sup), OneFlow(sup), Calm(sup),
           NEW f \in Flows, FlowStep(f)
    PROVE  Calm(sup')
<1> DEFINE r == sup.flow[f]
           quiet == [sup EXCEPT !.stopping = FALSE]
<1>0. sup \in SupState /\ r \in FlowState /\ Doing(f, r)
  BY DEF TypeOK, SupState, InShape
<1>1. r.at # "idle"
  BY DEF FlowStep, Probe, Takeover, Drain, WaitPort, WaitEntry, Retry, Answered, WaitExit, Check
<1>2. Only(sup, f) /\ Fine(sup, r) /\ Rests(sup)
  BY <1>1, OnlyOne DEF Calm
<1>3. sup.down => r.doing \in {"stop", "close"} /\ f \notin Respawns
  <2>1. sup.down => r.doing \in {"stop", "close"}
    BY <1>1, <1>2 DEF Rests, Busy
  <2> QED BY <1>0, <1>1, <2>1 DEF Doing, SupervisorAssumption
<1>4. Calm(Threw(sup, f)) /\ Calm(Threw(quiet, f))
  <2>1. /\ quiet \in SupState /\ quiet.web = sup.web /\ quiet.timer = sup.timer
        /\ quiet.down = sup.down /\ quiet.cmd = sup.cmd /\ quiet.flow = sup.flow
    BY <1>0 DEF SupState
  <2> HIDE DEF quiet
  <2>2. Only(quiet, f) /\ Rests(quiet)
    BY <1>2, <2>1 DEF Only, Rests, Busy
  <2> QED BY <1>0, <1>2, <1>3, <2>1, <2>2, ThrewCalm
<1>5. ASSUME NEW pc \in {"takeover", "drain", "waitEntry", "answered", "retry"},
             pc \in {"takeover", "drain"} => r.at \in {"probe", "takeover"},
             pc \notin {"takeover", "drain"} => r.at \in {"waitPort", "waitEntry", "retry"},
             sup' = [sup EXCEPT !.flow[f].at = pc]
      PROVE  Calm(sup')
  <2>1. /\ sup'.web = sup.web /\ sup'.timer = sup.timer /\ sup'.stopping = sup.stopping
        /\ sup'.down = sup.down /\ sup'.cmd = sup.cmd
        /\ sup'.flow[f].at = pc /\ sup'.flow[f].doing = r.doing
        /\ \A g \in Flows : g # f => sup'.flow[g] = sup.flow[g]
    BY <1>0, <1>5 DEF SupState, FlowState
  <2>2. Only(sup', f)
    BY <1>2, <2>1 DEF Only
  <2>3. Fine(sup', sup'.flow[f])
    BY <1>1, <1>2, <1>5, <2>1 DEF Fine
  <2>4. sup'.down => /\ sup'.web = None /\ ~sup'.timer
                     /\ sup'.cmd.kind \in {"none", "stop"}
                     /\ sup'.flow[f].doing \in {"stop", "close"}
    BY <1>2, <1>3, <2>1 DEF Rests
  <2> QED BY <2>2, <2>3, <2>4, CalmOfOne
<1>6. ASSUME sup.web = None, r.doing = "stop",
             sup' = [sup EXCEPT !.flow[f] = At("check", "stop", None)]
      PROVE  Calm(sup')
  <2>1. /\ sup'.web = sup.web /\ sup'.timer = sup.timer /\ sup'.stopping = sup.stopping
        /\ sup'.down = sup.down /\ sup'.cmd = sup.cmd
        /\ sup'.flow[f].at = "check" /\ sup'.flow[f].doing = "stop"
        /\ \A g \in Flows : g # f => sup'.flow[g] = sup.flow[g]
    BY <1>0, <1>6 DEF SupState, At
  <2>2. Only(sup', f) /\ Fine(sup', sup'.flow[f])
    BY <1>1, <1>2, <1>6, <2>1 DEF Only, Fine
  <2>3. sup'.down => /\ sup'.web = None /\ ~sup'.timer
                     /\ sup'.cmd.kind \in {"none", "stop"}
                     /\ sup'.flow[f].doing \in {"stop", "close"}
    BY <1>2, <2>1 DEF Rests
  <2> QED BY <2>2, <2>3, CalmOfOne
<1>7. ASSUME PortFree(f), r.at \in {"probe", "drain"} PROVE Calm(sup')
  <2>1. sup.web = None
    BY <1>2, <1>7 DEF Fine
  <2>2. CASE r.doing = "start"
    <3>1. PICK c \in Webs :
            sup' = [sup EXCEPT !.web = c, !.flow[f] = At("waitPort", "start", c)]
      BY <1>7, <2>2 DEF PortFree, Launch, Becomes
    <3>2. /\ sup'.down = sup.down
          /\ sup'.flow[f].at = "waitPort" /\ sup'.flow[f].doing = "start"
          /\ \A g \in Flows : g # f => sup'.flow[g] = sup.flow[g]
      BY <1>0, <3>1 DEF SupState, At
    <3>3. ~sup'.down
      BY <1>3, <2>2, <3>2
    <3>4. Only(sup', f) /\ Fine(sup', sup'.flow[f])
      BY <1>2, <3>2 DEF Only, Fine
    <3> QED BY <3>3, <3>4, CalmOfOne
  <2>3. CASE r.doing # "start"
    <3>1. r.doing = "stop"
      BY <1>0, <1>7, <2>3 DEF Doing
    <3>2. sup' = [sup EXCEPT !.flow[f] = At("check", "stop", None)]
      BY <1>7, <2>3 DEF PortFree, Becomes
    <3> QED BY <1>6, <2>1, <3>1, <3>2
  <2> QED BY <2>2, <2>3
<1>8. CASE Probe(f)
  BY <1>5, <1>7, <1>8 DEF Probe, Becomes
<1>9. CASE Takeover(f)
  <2>1. \/ sup' = [sup EXCEPT !.flow[f].at = "drain"]
        \/ sup' = Threw(sup, f) \/ sup' = Threw(quiet, f)
    BY <1>9 DEF Takeover, Becomes
  <2>2. r.at = "takeover"
    BY <1>9 DEF Takeover
  <2> HIDE DEF quiet
  <2> QED BY <1>4, <1>5, <2>1, <2>2
<1>10. CASE Drain(f)
  BY <1>7, <1>10 DEF Drain
<1>11. CASE WaitPort(f)
  <2>1. sup' = [sup EXCEPT !.flow[f].at = "waitEntry"] \/ sup' = Threw(sup, f)
    BY <1>11 DEF WaitPort, Becomes
  <2> QED BY <1>4, <1>5, <1>11, <2>1 DEF WaitPort
<1>12. CASE WaitEntry(f)
  <2>1. \/ sup' = [sup EXCEPT !.flow[f].at = "answered"]
        \/ sup' = [sup EXCEPT !.flow[f].at = "retry"]
        \/ sup' = Threw(sup, f)
    BY <1>12 DEF WaitEntry, Becomes
  <2> QED BY <1>4, <1>5, <1>12, <2>1 DEF WaitEntry
<1>13. CASE Retry(f)
  BY <1>5, <1>13 DEF Retry, Becomes
<1>14. CASE Answered(f)
  <2>1. r.doing = "start" /\ ~sup.down
    BY <1>0, <1>3, <1>14 DEF Answered, Doing
  <2>2. Ready(sup) \in SupState /\ Ready(sup).down = sup.down /\ Ready(sup).flow = sup.flow
    BY <1>0, ReadyType DEF Ready, SupState
  <2>3. Only(Ready(sup), f)
    BY <1>2, <2>2 DEF Only
  <2> QED BY <1>14, <2>1, <2>2, <2>3, StartedCalm DEF Answered, Becomes
<1>15. CASE WaitExit(f)
  <2>1. sup.web = None /\ r.doing = "stop"
    BY <1>0, <1>2, <1>15 DEF WaitExit, Fine, Doing, OwnsNoGhost
  <2> QED BY <1>6, <1>15, <2>1 DEF WaitExit, Becomes
<1>16. CASE Check(f)
  <2>1. r.at = "check" /\ r.doing = "stop" /\ f \in {"command", "close"}
        /\ (f = "command" => sup.cmd.kind # "none")
    BY <1>0, <1>16 DEF Check, Doing, Remembers
  <2>2. Calm(StopReturned(sup, f))
    BY <1>0, <1>2, <2>1, StopReturnedCalm
  <2>3. sup' \in {Threw(quiet, f), StopReturned(sup, f)}
    BY <1>16 DEF Check, Becomes
  <2> QED BY <1>4, <2>2, <2>3
<1> QED BY <1>8, <1>9, <1>10, <1>11, <1>12, <1>13, <1>14, <1>15, <1>16 DEF FlowStep

(* A command that goes on: it stops the Web, captures its sessions first, or *)
(* moves to a wait that knows nothing of the Web.                            *)
LEMMA CommandMoveCalm ==
    ASSUME NEW s, NEW t, Only(s, "command"), ~t.down,
           t.flow["command"].at \in Asking \cup {"captured", "recover"},
           t.flow["command"].doing = "command",
           \A g \in Flows : g # "command" => t.flow[g] = s.flow[g]
    PROVE  Calm(t)
<1>1. Only(t, "command") /\ Fine(t, t.flow["command"])
  BY DEF Only, Fine, Asking
<1> QED BY <1>1, CalmOfOne DEF Flows

LEMMA CaptureOrStopCalm ==
    ASSUME NEW s \in SupState, Only(s, "command"), ~s.down
    PROVE  Calm(CaptureOrStop(s))
<1>0. "command" \in Flows
  BY DEF Flows
<1>1. CASE s.cmd.was
  <2> DEFINE t == [s EXCEPT !.flow["command"] = At("capture", "command", None)]
  <2>1. /\ ~t.down /\ t.flow["command"].at = "capture" /\ t.flow["command"].doing = "command"
        /\ \A g \in Flows : g # "command" => t.flow[g] = s.flow[g]
    BY <1>0 DEF SupState, At
  <2> HIDE DEF t
  <2>2. Calm(t)
    BY <2>1, CommandMoveCalm DEF Asking
  <2> QED BY <1>1, <2>2 DEF CaptureOrStop, t
<1>2. CASE ~s.cmd.was
  <2> DEFINE t == Stop(s, "command")
  <2>1. \A g \in Flows : g # "command" => t.flow[g] = s.flow[g]
    BY <1>0, StopEffects
  <2>2. OneFlow(t)
    BY <2>1 DEF OneFlow, Busy, Only
  <2>3. Calm(t)
    BY <1>0, <2>2, StopCalm
  <2> QED BY <1>2, <2>3 DEF CaptureOrStop
<1> QED BY <1>1, <1>2

LEMMA CommandStepCalm ==
    ASSUME TypeOK, InShape(sup), OneFlow(sup), Calm(sup), CommandStep
    PROVE  Calm(sup')
<1> DEFINE r == sup.flow["command"]
<1>0. /\ sup \in SupState /\ "command" \in Flows /\ r \in FlowState
      /\ Doing("command", r) /\ "command" \notin Respawns
  BY DEF TypeOK, SupState, InShape, Flows, SupervisorAssumption
<1>1. r.at \in Asking \cup {"captured", "recover"}
  BY DEF CommandStep, AskRunning, BuildEnds, Capture, StopAfterCapture, Recover, Asking
<1>2. r.at # "idle" /\ r.doing = "command"
  BY <1>0, <1>1 DEF Doing, Asking
<1>3. Only(sup, "command") /\ Rests(sup) /\ ~sup.down
  BY <1>0, <1>2, OnlyOne DEF Calm, Rests, Busy
<1>4. Calm(Threw(sup, "command"))
  BY <1>0, <1>3, ThrewCalm
<1>5. CASE AskRunning
  <2> DEFINE s == [sup EXCEPT !.cmd.was = sup.running \/ PortOpen]
             t == [s EXCEPT !.flow["command"] = At("build", "command", None)]
  <2>1. s \in SupState /\ s.flow = sup.flow /\ s.down = sup.down
    <3>1. (sup.running \/ PortOpen) \in BOOLEAN
      BY DEF PortOpen
    <3>2. ASSUME NEW b \in BOOLEAN
          PROVE  LET u == [sup EXCEPT !.cmd.was = b] IN
                 u \in SupState /\ u.flow = sup.flow /\ u.down = sup.down
      BY <1>0 DEF SupState
    <3> QED BY <3>1, <3>2
  <2>2. sup' \in {t, CaptureOrStop(s)}
    BY <1>5 DEF AskRunning, Becomes
  <2> HIDE DEF s
  <2>3. Only(s, "command") /\ ~s.down
    BY <1>3, <2>1 DEF Only
  <2>4. /\ ~t.down /\ t.flow["command"].at = "build" /\ t.flow["command"].doing = "command"
        /\ \A g \in Flows : g # "command" => t.flow[g] = s.flow[g]
    BY <1>0, <2>1, <2>3 DEF SupState, At
  <2> HIDE DEF t
  <2>5. Calm(t)
    BY <2>3, <2>4, CommandMoveCalm DEF Asking
  <2>6. Calm(CaptureOrStop(s))
    BY <2>1, <2>3, CaptureOrStopCalm
  <2> QED BY <2>2, <2>5, <2>6
<1>6. CASE BuildEnds
  BY <1>0, <1>3, <1>4, <1>6, CaptureOrStopCalm DEF BuildEnds, Becomes
<1>7. CASE Capture
  <2>1. CASE sup' = Threw(sup, "command")
    BY <1>4, <2>1
  <2>2. ASSUME NEW some \in BOOLEAN, NEW o,
               sup' = [sup EXCEPT !.cmd.sessions = some, !.owed = o,
                                  !.flow["command"].at = "captured"]
        PROVE  Calm(sup')
    <3>1. /\ sup'.down = sup.down
          /\ sup'.flow["command"].at = "captured" /\ sup'.flow["command"].doing = r.doing
          /\ \A g \in Flows : g # "command" => sup'.flow[g] = sup.flow[g]
      BY <1>0, <2>2 DEF SupState, FlowState
    <3> QED BY <1>2, <1>3, <3>1, CommandMoveCalm
  <2> QED BY <1>7, <2>1, <2>2 DEF Capture, Becomes
<1>8. CASE StopAfterCapture
  <2>1. \A g \in Flows : g # "command" => Stop(sup, "command").flow[g] = sup.flow[g]
    BY <1>0, StopEffects
  <2>2. OneFlow(Stop(sup, "command"))
    BY <1>3, <2>1 DEF OneFlow, Busy, Only
  <2>3. Calm(Stop(sup, "command"))
    BY <1>0, <1>3, <2>2, StopCalm
  <2> QED BY <1>8, <2>3 DEF StopAfterCapture, Becomes
<1>9. CASE Recover
  <2>1. ASSUME NEW a \in {"told", "failed"} PROVE Calm(Settled(Recovered(sup, a)))
    <3>1. /\ Recovered(sup, a) \in SupState /\ Recovered(sup, a).flow = sup.flow
          /\ Recovered(sup, a).down = sup.down
      BY <1>0, <2>1 DEF Recovered, SupState
    <3>2. Only(Recovered(sup, a), "command")
      BY <1>3, <3>1 DEF Only
    <3> QED BY <1>3, <3>1, <3>2, SettledCalm
  <2> QED BY <1>4, <1>9, <2>1 DEF Recover, Becomes
<1> QED BY <1>5, <1>6, <1>7, <1>8, <1>9 DEF CommandStep

(* The flows have not moved, or one has ended: what they know still holds.   *)
LEMMA CalmSame ==
    ASSUME NEW s, NEW t, Calm(s),
           t.web = s.web, t.timer => s.timer, t.stopping = s.stopping,
           t.down => s.down /\ t.cmd.kind \in {"none", "stop"},
           \A g \in Flows : t.flow[g] = s.flow[g] \/ t.flow[g].at = "idle"
    PROVE  Calm(t)
<1>1. ASSUME NEW g \in Flows PROVE Fine(t, t.flow[g])
  BY <1>1 DEF Calm, Fine
<1>2. Rests(t)
  BY DEF Calm, Rests, Busy
<1> QED BY <1>1, <1>2 DEF Calm

LEMMA AcceptCalm ==
    ASSUME TypeOK, Calm(sup), OneFlow(sup'), NEW k \in Commands, Accept(k)
    PROVE  Calm(sup')
<1> DEFINE s == [sup EXCEPT !.cmd = [NoCommand EXCEPT !.kind = k],
                            !.down = @ /\ k = "stop",
                            !.ended = FALSE, !.owed = "nothing"]
           t == [s EXCEPT !.flow["command"] = At("ask", "command", None)]
<1>0. sup \in SupState /\ "command" \in Flows
  BY DEF TypeOK, Flows
<1>1. /\ [NoCommand EXCEPT !.kind = k]
           \in [kind : {"none"} \cup Commands, was : BOOLEAN, sessions : BOOLEAN]
      /\ [NoCommand EXCEPT !.kind = k].kind = k
  BY DEF NoCommand
<1>2. /\ s \in SupState /\ s.cmd.kind = k /\ s.flow = sup.flow /\ s.web = sup.web
      /\ s.timer = sup.timer /\ s.stopping = sup.stopping
      /\ s.down = (sup.down /\ k = "stop")
  <2>1. (sup.down /\ k = "stop") \in BOOLEAN
    OBVIOUS
  <2>2. ASSUME NEW b \in BOOLEAN
        PROVE  LET u == [sup EXCEPT !.cmd = [NoCommand EXCEPT !.kind = k], !.down = b,
                                    !.ended = FALSE, !.owed = "nothing"] IN
               /\ u \in SupState /\ u.cmd.kind = k /\ u.flow = sup.flow /\ u.web = sup.web
               /\ u.timer = sup.timer /\ u.stopping = sup.stopping /\ u.down = b
    BY <1>0, <1>1 DEF SupState
  <2>3. s = [sup EXCEPT !.cmd = [NoCommand EXCEPT !.kind = k], !.down = sup.down /\ k = "stop",
                        !.ended = FALSE, !.owed = "nothing"]
    BY <1>0 DEF SupState
  <2> QED BY <2>1, <2>2, <2>3
<1>3. \/ k = "start" /\ sup' = StartWeb(s, "command")
      \/ k = "stop" /\ sup' = Stop(s, "command")
      \/ k \notin {"start", "stop"} /\ sup' = t
  BY DEF Accept, Becomes
<1> HIDE DEF s
<1>4. CASE k = "start" /\ sup' = StartWeb(s, "command") /\ s.web # None
  <2>1. sup' = Settled(s)
    BY <1>2, <1>4 DEF StartWeb, Started
  <2>2. /\ sup'.web = sup.web /\ sup'.timer = sup.timer /\ sup'.stopping = sup.stopping
        /\ ~sup'.down
        /\ \A g \in Flows : sup'.flow[g] = sup.flow[g] \/ sup'.flow[g].at = "idle"
    <3>1. /\ Settled(s).web = s.web /\ Settled(s).timer = s.timer
          /\ Settled(s).stopping = s.stopping /\ Settled(s).down = s.down
          /\ \A g \in Flows : Settled(s).flow[g] = s.flow[g] \/ Settled(s).flow[g].at = "idle"
      BY <1>2, SettledEffects
    <3>2. ~s.down
      BY <1>2, <1>4
    <3> QED BY <1>2, <2>1, <3>1, <3>2
  <2> QED BY <2>2, CalmSame
<1>5. CASE k = "start" /\ sup' = StartWeb(s, "command") /\ s.web = None
  <2> DEFINE u == [s EXCEPT !.flow["command"] = At("probe", "start", None)]
  <2>1. sup' = u
    BY <1>5 DEF StartWeb
  <2>2. u.flow["command"].at = "probe"
        /\ \A g \in Flows : g # "command" => u.flow[g] = s.flow[g]
    BY <1>0, <1>2, ProbeEffects
  <2> HIDE DEF u
  <2>3. Only(u, "command")
    BY <1>0, <2>1, <2>2, OnlyOne
  <2>4. Only(s, "command")
    BY <2>2, <2>3 DEF Only
  <2> QED BY <1>0, <1>2, <1>5, <2>4, StartCalm
<1>6. CASE k = "stop" /\ sup' = Stop(s, "command")
  <2>1. s.down => s.web = None /\ s.cmd.kind \in {"none", "stop"}
    BY <1>2, <1>6 DEF Calm, Rests
  <2> QED BY <1>0, <1>2, <1>6, <2>1, StopCalm
<1>7. CASE k \notin {"start", "stop"} /\ sup' = t
  <2>1. /\ ~t.down /\ t.flow["command"].at = "ask" /\ t.flow["command"].doing = "command"
        /\ \A g \in Flows : g # "command" => t.flow[g] = s.flow[g]
    BY <1>0, <1>2, <1>7 DEF SupState, At
  <2> HIDE DEF t
  <2>2. Only(t, "command")
    BY <1>0, <1>7, <2>1, OnlyOne
  <2>3. Calm(t)
    BY <2>1, <2>2, CommandMoveCalm DEF Asking
  <2> QED BY <1>7, <2>3
<1> QED BY <1>3, <1>4, <1>5, <1>6, <1>7

LEMMA TimerCalm ==
    ASSUME TypeOK, Calm(sup), OneFlow(sup'), NEW f \in Respawns, TimerFires(f)
    PROVE  Calm(sup')
<1> DEFINE s == [sup EXCEPT !.timer = FALSE, !.tries = @ + 1]
<1>0. sup \in SupState /\ f \in Flows /\ f # "command"
  BY DEF TypeOK, Flows, SupervisorAssumption
<1>1. /\ s \in SupState /\ s.flow = sup.flow /\ s.web = sup.web /\ ~s.timer
      /\ s.stopping = sup.stopping /\ s.down = sup.down /\ s.cmd = sup.cmd
  <2>1. sup.tries + 1 \in Nat
    BY <1>0 DEF SupState
  <2>2. ASSUME NEW n \in Nat
        PROVE  LET u == [sup EXCEPT !.timer = FALSE, !.tries = n] IN
               /\ u \in SupState /\ u.flow = sup.flow /\ u.web = sup.web /\ ~u.timer
               /\ u.stopping = sup.stopping /\ u.down = sup.down /\ u.cmd = sup.cmd
    BY <1>0 DEF SupState
  <2> QED BY <2>1, <2>2
<1>2. sup' = StartWeb(s, f) /\ sup.timer
  BY DEF TimerFires, Becomes
<1> HIDE DEF s
<1>3. ~sup.down
  BY <1>2 DEF Calm, Rests
<1>4. CASE s.web # None
  <2>1. sup' = Started(s, f)
    BY <1>2, <1>4 DEF StartWeb
  <2>2. /\ sup'.web = sup.web /\ ~sup'.timer /\ sup'.stopping = sup.stopping /\ ~sup'.down
        /\ \A g \in Flows : sup'.flow[g] = sup.flow[g] \/ sup'.flow[g].at = "idle"
    BY <1>0, <1>1, <1>3, <2>1, StartedEffects
  <2> QED BY <2>2, CalmSame
<1>5. CASE s.web = None
  <2> DEFINE u == [s EXCEPT !.flow[f] = At("probe", "start", None)]
  <2>1. sup' = u
    BY <1>2, <1>5 DEF StartWeb
  <2>2. u.flow[f].at = "probe" /\ \A g \in Flows : g # f => u.flow[g] = s.flow[g]
    BY <1>0, <1>1, ProbeEffects
  <2> HIDE DEF u
  <2>3. Only(u, f)
    BY <1>0, <2>1, <2>2, OnlyOne
  <2>4. Only(s, f)
    BY <2>2, <2>3 DEF Only
  <2> QED BY <1>0, <1>1, <1>2, <1>3, <1>5, <2>4, StartCalm
<1> QED BY <1>4, <1>5

LEMMA ExitCalm ==
    ASSUME TypeOK, Calm(sup), NEW c \in Webs, ChildExit(c) PROVE Calm(sup')
<1>0. sup \in SupState /\ c # None
  BY DEF TypeOK, Webs, None
<1>1. CASE sup.web # c
  BY <1>1 DEF ChildExit, Becomes
<1>2. CASE sup.web = c
  <2> DEFINE t == Exited(sup)
             g == Gone(sup)
  <2>1. /\ g \in SupState /\ g.web = None /\ g.timer = sup.timer /\ g.stopping = sup.stopping
        /\ g.down = sup.down /\ g.flow = sup.flow
    BY <1>0 DEF Gone, SupState
  <2> HIDE DEF g
  <2>2. /\ ScheduleRespawn(g).web = g.web /\ ScheduleRespawn(g).stopping = g.stopping
        /\ ScheduleRespawn(g).down = g.down /\ ScheduleRespawn(g).flow = g.flow
    BY <2>1 DEF ScheduleRespawn, SupState
  <2>3. /\ t.web = None /\ t.stopping = sup.stopping /\ t.down = sup.down
        /\ t.flow = sup.flow /\ (sup.stopping => t.timer = sup.timer)
    BY <2>1, <2>2 DEF Exited, g
  <2> HIDE DEF t
  <2>4. ~sup.down
    BY <1>0, <1>2 DEF Calm, Rests
  <2>5. ASSUME NEW f \in Flows PROVE Fine(t, t.flow[f])
    BY <2>3, <2>5 DEF Calm, Fine
  <2>6. Calm(t)
    BY <2>3, <2>4, <2>5 DEF Calm, Rests
  <2> QED BY <1>2, <2>6 DEF ChildExit, Becomes, t
<1> QED BY <1>1, <1>2

LEMMA CloseCalm ==
    ASSUME TypeOK, InShape(sup), OneFlow(sup), OneFlow(sup'), Calm(sup),
           Signal \/ CloseStops
    PROVE  Calm(sup')
<1>0. sup \in SupState /\ "close" \in Flows
  BY DEF TypeOK, Flows
<1>1. CASE Signal /\ sup.booted
  <2> DEFINE t == [sup EXCEPT !.closing = TRUE,
                              !.flow["close"] = At("progress", "close", None)]
  <2>1. sup' = t
    BY <1>1 DEF Signal, Becomes
  <2>2. /\ t.web = sup.web /\ t.timer = sup.timer /\ t.down = sup.down /\ t.cmd = sup.cmd
        /\ t.flow["close"].at = "progress" /\ t.flow["close"].doing = "close"
    BY <1>0 DEF SupState, At
  <2> HIDE DEF t
  <2>3. Only(t, "close") /\ Fine(t, t.flow["close"])
    BY <1>0, <2>1, <2>2, OnlyOne DEF Fine
  <2>4. Rests(sup)
    BY DEF Calm
  <2>5. Calm(t)
    BY <1>0, <2>2, <2>3, <2>4, CalmOfOne DEF Rests
  <2> QED BY <2>1, <2>5
<1>2. CASE Signal /\ ~sup.booted
  <2>1. sup' = [sup EXCEPT !.exited = TRUE]
    BY <1>2 DEF Signal, Becomes
  <2>2. /\ sup'.web = sup.web /\ sup'.timer = sup.timer /\ sup'.stopping = sup.stopping
        /\ sup'.down = sup.down /\ sup'.cmd = sup.cmd /\ sup'.flow = sup.flow
    BY <1>0, <2>1 DEF SupState
  <2>3. sup.down => sup.cmd.kind \in {"none", "stop"}
    BY DEF Calm, Rests
  <2> QED BY <2>2, <2>3, CalmSame
<1>3. CASE CloseStops
  <2>1. sup' = Stop(sup, "close")
    BY <1>3 DEF CloseStops, Becomes
  <2>2. sup.down => sup.web = None /\ sup.cmd.kind \in {"none", "stop"}
    BY DEF Calm, Rests
  <2> QED BY <1>0, <2>1, <2>2, StopCalm
<1> QED BY <1>1, <1>2, <1>3

-----------------------------------------------------------------------------
(* Whatever is done, the history of meetings is kept, and no process that    *)
(* was told to end is spared.                                                *)
Noticed == met' = (met \/ \E f, g \in Busy(sup') : f # g) /\ killed \subseteq killed'

LEMMA BecomesNotices == ASSUME NEW t, Becomes(t) PROVE Noticed /\ sup' = t
BY DEF Becomes, Noticed

LEMMA FlowStepNotices ==
    ASSUME TypeOK, NEW f \in Flows, FlowStep(f)
    PROVE  Noticed \/ (Takeover(f) /\ UNCHANGED met /\ killed \subseteq killed'
                         /\ sup' = [sup EXCEPT !.flow[f].at = "drain"])
<1>1. ASSUME PortFree(f) PROVE Noticed
  BY <1>1, BecomesNotices DEF PortFree, Launch
<1>2. CASE Probe(f) \/ Drain(f)
  BY <1>1, <1>2, BecomesNotices DEF Probe, Drain
<1>3. CASE Takeover(f)
  BY <1>3, BecomesNotices DEF Takeover
<1>4. CASE WaitPort(f)
  BY <1>4, BecomesNotices DEF WaitPort
<1>5. CASE WaitEntry(f)
  BY <1>5, BecomesNotices DEF WaitEntry
<1>6. CASE Retry(f) \/ Answered(f) \/ WaitExit(f) \/ Check(f)
  BY <1>6, BecomesNotices DEF Retry, Answered, WaitExit, Check
<1> QED BY <1>2, <1>3, <1>4, <1>5, <1>6 DEF FlowStep

LEMMA OthersNotice ==
    ASSUME CommandStep \/ Signal \/ CloseStops
           \/ (\E k \in Commands : Accept(k)) \/ (\E f \in Respawns : TimerFires(f))
           \/ (\E c \in Webs : ChildExit(c))
    PROVE  Noticed
<1>1. CASE AskRunning
  BY <1>1, BecomesNotices DEF AskRunning
<1>2. CASE BuildEnds
  BY <1>2, BecomesNotices DEF BuildEnds
<1>3. CASE Capture
  BY <1>3, BecomesNotices DEF Capture
<1>4. CASE StopAfterCapture \/ CloseStops \/ Signal
  BY <1>4, BecomesNotices DEF StopAfterCapture, CloseStops, Signal
<1>5. CASE Recover
  BY <1>5, BecomesNotices DEF Recover
<1>6. ASSUME NEW k \in Commands, Accept(k) PROVE Noticed
  BY <1>6, BecomesNotices DEF Accept
<1>7. ASSUME NEW f \in Respawns, TimerFires(f) PROVE Noticed
  BY <1>7, BecomesNotices DEF TimerFires
<1>8. ASSUME NEW c \in Webs, ChildExit(c) PROVE Noticed
  BY <1>8, BecomesNotices DEF ChildExit
<1> QED BY <1>1, <1>2, <1>3, <1>4, <1>5, <1>6, <1>7, <1>8 DEF CommandStep

-----------------------------------------------------------------------------
(* The Web that is owned changes by a launch, which finds none owned, and by *)
(* an exit that is noticed.                                                  *)
LEMMA FlowStepWeb ==
    ASSUME TypeOK, InShape(sup), Calm(sup), NEW f \in Flows, FlowStep(f)
    PROVE  \/ sup'.web = sup.web /\ proc' = proc
           \/ /\ sup.web = None
              /\ \E c \in Webs : proc' = [proc EXCEPT ![c] = "booting"] /\ sup'.web = c
<1>0. sup \in SupState /\ Fine(sup, sup.flow[f])
  BY DEF TypeOK, Calm
<1> DEFINE quiet == [sup EXCEPT !.stopping = FALSE]
<1>1. Threw(sup, f).web = sup.web /\ Threw(quiet, f).web = sup.web
  BY <1>0, FailureSteps
<1>2. ASSUME NEW pc, sup' = [sup EXCEPT !.flow[f].at = pc] PROVE sup'.web = sup.web
  BY <1>0, <1>2 DEF SupState
<1>3. ASSUME sup' = [sup EXCEPT !.flow[f] = At("check", "stop", None)]
      PROVE  sup'.web = sup.web
  BY <1>0, <1>3 DEF SupState
<1>4. ASSUME PortFree(f), sup.flow[f].at \in {"probe", "drain"}
      PROVE  \/ sup'.web = sup.web /\ proc' = proc
             \/ /\ sup.web = None
                /\ \E c \in Webs : proc' = [proc EXCEPT ![c] = "booting"] /\ sup'.web = c
  <2>1. sup.web = None
    BY <1>0, <1>4 DEF Fine
  <2>2. CASE sup.flow[f].doing = "start"
    <3>1. PICK c \in Webs :
            /\ sup' = [sup EXCEPT !.web = c, !.flow[f] = At("waitPort", "start", c)]
            /\ proc' = [proc EXCEPT ![c] = "booting"]
      BY <1>4, <2>2 DEF PortFree, Launch, Becomes
    <3>2. sup'.web = c
      BY <1>0, <3>1 DEF SupState
    <3> QED BY <2>1, <3>1, <3>2
  <2>3. CASE sup.flow[f].doing # "start"
    BY <1>3, <1>4, <2>3 DEF PortFree, Becomes
  <2> QED BY <2>2, <2>3
<1> HIDE DEF quiet
<1>5. CASE Probe(f)
  <2>1. CASE PortFree(f)
    BY <1>4, <1>5, <2>1 DEF Probe
  <2>2. CASE sup' = [sup EXCEPT !.flow[f].at = "takeover"] /\ proc' = proc
    BY <1>2, <2>2
  <2> QED BY <1>5, <2>1, <2>2 DEF Probe, Becomes
<1>6. CASE Takeover(f)
  <2>1. /\ proc' = proc
        /\ \/ sup' = [sup EXCEPT !.flow[f].at = "drain"]
           \/ sup' = Threw(sup, f) \/ sup' = Threw(quiet, f)
    BY <1>6 DEF Takeover, Becomes, quiet
  <2> QED BY <1>1, <1>2, <2>1
<1>7. CASE Drain(f)
  BY <1>4, <1>7 DEF Drain
<1>8. CASE WaitPort(f)
  <2>1. /\ proc' = proc
        /\ sup' = [sup EXCEPT !.flow[f].at = "waitEntry"] \/ sup' = Threw(sup, f)
    BY <1>8 DEF WaitPort, Becomes
  <2> QED BY <1>1, <1>2, <2>1
<1>9. CASE WaitEntry(f)
  <2>1. /\ proc' = proc
        /\ \/ sup' = [sup EXCEPT !.flow[f].at = "answered"]
           \/ sup' = [sup EXCEPT !.flow[f].at = "retry"]
           \/ sup' = Threw(sup, f)
    BY <1>9 DEF WaitEntry, Becomes
  <2> QED BY <1>1, <1>2, <2>1
<1>10. CASE Retry(f)
  <2>1. proc' = proc /\ sup' = [sup EXCEPT !.flow[f].at = "waitEntry"]
    BY <1>10 DEF Retry, Becomes
  <2> QED BY <1>2, <2>1
<1>11. CASE Answered(f)
  <2>1. Ready(sup) \in SupState /\ Ready(sup).web = sup.web
    BY <1>0, ReadyType DEF Ready, SupState
  <2> QED BY <1>11, <2>1, WebKept DEF Answered, Becomes
<1>12. CASE WaitExit(f)
  <2>1. proc' = proc /\ sup' = [sup EXCEPT !.flow[f] = At("check", "stop", None)]
    BY <1>12 DEF WaitExit, Becomes
  <2> QED BY <1>3, <2>1
<1>13. CASE Check(f)
  <2>1. sup.web = None /\ StopReturned(sup, f).web = None
    BY <1>0, <1>13, WebGone DEF Check, Fine
  <2>2. proc' = proc /\ sup' \in {Threw(quiet, f), StopReturned(sup, f)}
    BY <1>13 DEF Check, Becomes, quiet
  <2> QED BY <1>1, <2>1, <2>2
<1> QED BY <1>5, <1>6, <1>7, <1>8, <1>9, <1>10, <1>11, <1>12, <1>13 DEF FlowStep

LEMMA OthersKeepWeb ==
    ASSUME TypeOK, CommandStep \/ Signal \/ CloseStops
           \/ (\E k \in Commands : Accept(k)) \/ (\E f \in Respawns : TimerFires(f))
    PROVE  sup'.web = sup.web /\ proc' = proc
<1>0. sup \in SupState /\ "command" \in Flows /\ "close" \in Flows
  BY DEF TypeOK, Flows
<1>1. Threw(sup, "command").web = sup.web
  BY <1>0, WebKept
<1>2. CASE AskRunning
  <2> DEFINE s == [sup EXCEPT !.cmd.was = sup.running \/ PortOpen]
  <2>1. s \in SupState /\ s.web = sup.web
    <3>1. (sup.running \/ PortOpen) \in BOOLEAN
      BY DEF PortOpen
    <3>2. ASSUME NEW b \in BOOLEAN
          PROVE  LET u == [sup EXCEPT !.cmd.was = b] IN u \in SupState /\ u.web = sup.web
      BY <1>0 DEF SupState
    <3> QED BY <3>1, <3>2
  <2>2. /\ proc' = proc
        /\ sup' \in {[s EXCEPT !.flow["command"] = At("build", "command", None)], CaptureOrStop(s)}
    BY <1>2 DEF AskRunning, Becomes
  <2> HIDE DEF s
  <2>3. [s EXCEPT !.flow["command"] = At("build", "command", None)].web = s.web
    BY <2>1 DEF SupState
  <2> QED BY <1>0, <2>1, <2>2, <2>3, WebKept
<1>3. CASE BuildEnds
  BY <1>0, <1>1, <1>3, WebKept DEF BuildEnds, Becomes
<1>4. CASE Capture
  <2>1. ASSUME NEW some, NEW o,
               sup' = [sup EXCEPT !.cmd.sessions = some, !.owed = o,
                                  !.flow["command"].at = "captured"]
        PROVE  sup'.web = sup.web
    BY <1>0, <2>1 DEF SupState
  <2>2. CASE sup' = Threw(sup, "command") /\ proc' = proc
    BY <1>1, <2>2
  <2> QED BY <1>4, <2>1, <2>2 DEF Capture, Becomes
<1>5. CASE StopAfterCapture \/ CloseStops
  BY <1>0, <1>5, WebKept DEF StopAfterCapture, CloseStops, Becomes
<1>6. CASE Recover
  <2>1. ASSUME NEW a \in {"told", "failed"} PROVE Settled(Recovered(sup, a)).web = sup.web
    <3>1. Recovered(sup, a) \in SupState /\ Recovered(sup, a).web = sup.web
      BY <1>0, <2>1 DEF Recovered, SupState
    <3> QED BY <1>0, <3>1, WebKept
  <2> QED BY <1>1, <1>6, <2>1 DEF Recover, Becomes
<1>7. CASE Signal
  <2>1. /\ proc' = proc
        /\ \/ sup' = [sup EXCEPT !.closing = TRUE,
                                 !.flow["close"] = At("progress", "close", None)]
           \/ sup' = [sup EXCEPT !.exited = TRUE]
    BY <1>7 DEF Signal, Becomes
  <2>2. /\ [sup EXCEPT !.closing = TRUE,
                     !.flow["close"] = At("progress", "close", None)].web = sup.web
        /\ [sup EXCEPT !.exited = TRUE].web = sup.web
    BY <1>0 DEF SupState
  <2> QED BY <2>1, <2>2
<1>8. ASSUME NEW k \in Commands, Accept(k) PROVE sup'.web = sup.web /\ proc' = proc
  <2> DEFINE s == [sup EXCEPT !.cmd = [NoCommand EXCEPT !.kind = k],
                              !.down = @ /\ k = "stop",
                              !.ended = FALSE, !.owed = "nothing"]
             t == [s EXCEPT !.flow["command"] = At("ask", "command", None)]
  <2>1. [NoCommand EXCEPT !.kind = k]
          \in [kind : {"none"} \cup Commands, was : BOOLEAN, sessions : BOOLEAN]
    BY DEF NoCommand
  <2>2. s \in SupState /\ s.web = sup.web
    BY <1>0, <2>1 DEF SupState
  <2>3. proc' = proc /\ sup' \in {StartWeb(s, "command"), Stop(s, "command"), t}
    BY <1>8 DEF Accept, Becomes
  <2> HIDE DEF s
  <2>4. t.web = s.web
    BY <2>2 DEF SupState
  <2>5. StartWeb(s, "command").web = s.web /\ Stop(s, "command").web = s.web
    BY <1>0, <2>2, WebKept
  <2> HIDE DEF t
  <2> QED BY <2>2, <2>3, <2>4, <2>5
<1>9. ASSUME NEW f \in Respawns, TimerFires(f) PROVE sup'.web = sup.web /\ proc' = proc
  <2> DEFINE s == [sup EXCEPT !.timer = FALSE, !.tries = @ + 1]
  <2>1. s \in SupState /\ s.web = sup.web
    <3>1. sup.tries + 1 \in Nat
      BY <1>0 DEF SupState
    <3>2. ASSUME NEW n \in Nat
          PROVE  LET u == [sup EXCEPT !.timer = FALSE, !.tries = n] IN
                 u \in SupState /\ u.web = sup.web
      BY <1>0 DEF SupState
    <3> QED BY <3>1, <3>2
  <2>2. sup' = StartWeb(s, f) /\ proc' = proc /\ f \in Flows
    BY <1>9 DEF TimerFires, Becomes, Flows
  <2> HIDE DEF s
  <2> QED BY <2>1, <2>2, WebKept
<1> QED BY <1>2, <1>3, <1>4, <1>5, <1>6, <1>7, <1>8, <1>9 DEF CommandStep

-----------------------------------------------------------------------------
(* No Web lives that is neither owned nor told to end.                       *)
NoneHidden == \A c \in Webs : Alive(c) /\ c \notin killed => sup.web = c

Apart == ~met => OneFlow(sup) /\ Calm(sup) /\ NoneHidden

Known == TypeOK /\ OwnsNoGhost /\ InShape(sup) /\ Remembers(sup)

LEMMA ProcessApart ==
    ASSUME TypeOK, Apart, NEW p \in Procs,
           Listen(p) \/ PortTaken(p) \/ Terminated(p) \/ Crash(p)
    PROVE  Apart'
<1>1. PICK st \in {"listening", "dead"} : proc' = [proc EXCEPT ![p] = st]
  BY DEF Listen, PortTaken, Terminated, Crash
<1>2. UNCHANGED <<killed, sup, met>> /\ Alive(p)
  BY DEF Listen, PortTaken, Terminated, Crash, Alive
<1>3. NoneHidden => NoneHidden'
  BY <1>1, <1>2 DEF NoneHidden, Alive, TypeOK, Procs
<1> QED BY <1>2, <1>3 DEF Apart, OneFlow, Busy, Calm, Fine, Rests

LEMMA ExitApart ==
    ASSUME Known, Apart, NEW c \in Webs, ChildExit(c), ~met'
    PROVE  OneFlow(sup') /\ Calm(sup') /\ NoneHidden'
<1>1. Noticed
  BY OthersNotice
<1>2. ~met /\ OneFlow(sup')
  BY <1>1 DEF Noticed, OneFlow
<1>3. Calm(sup')
  BY <1>2, ExitCalm DEF Known, Apart
<1>4. /\ proc' = [proc EXCEPT ![c] = "reaped"]
      /\ sup.web = c \/ sup' = sup
  BY DEF ChildExit, Becomes
<1>5. NoneHidden'
  <2> SUFFICES ASSUME NEW d \in Webs, Alive(d)', d \notin killed' PROVE sup'.web = d
    BY DEF NoneHidden
  <2>1. d # c /\ Alive(d) /\ d \notin killed
    BY <1>1, <1>4 DEF Alive, Known, TypeOK, Procs, Noticed
  <2>2. sup.web = d
    BY <1>2, <2>1 DEF Apart, NoneHidden
  <2> QED BY <1>4, <2>1, <2>2
<1> QED BY <1>2, <1>3, <1>5

LEMMA FlowStepApart ==
    ASSUME Known, Apart, NEW f \in Flows, FlowStep(f), ~met'
    PROVE  OneFlow(sup') /\ Calm(sup') /\ NoneHidden'
<1>0. sup \in SupState /\ sup.flow[f].at # "idle"
  BY DEF Known, TypeOK, FlowStep, Probe, Takeover, Drain, WaitPort, WaitEntry, Retry,
         Answered, WaitExit, Check
<1>1. ~met /\ killed \subseteq killed' /\ OneFlow(sup')
  <2>1. CASE Noticed
    BY <2>1 DEF Noticed, OneFlow
  <2>2. CASE /\ UNCHANGED met /\ killed \subseteq killed'
             /\ sup' = [sup EXCEPT !.flow[f].at = "drain"]
    <3>1. ~met /\ OneFlow(sup)
      BY <2>2 DEF Apart
    <3>2. \A g \in Flows : g # f => sup'.flow[g] = sup.flow[g]
      BY <1>0, <2>2 DEF SupState
    <3>3. Only(sup, f)
      BY <1>0, <3>1, OnlyOne
    <3>4. OneFlow(sup')
      BY <3>2, <3>3 DEF OneFlow, Busy, Only
    <3> QED BY <2>2, <3>1, <3>4
  <2> QED BY <2>1, <2>2, FlowStepNotices DEF Known
<1>2. OneFlow(sup) /\ Calm(sup) /\ NoneHidden
  BY <1>1 DEF Apart
<1>3. Calm(sup')
  BY <1>2, FlowStepCalm DEF Known
<1>4. NoneHidden'
  <2> SUFFICES ASSUME NEW d \in Webs, Alive(d)', d \notin killed' PROVE sup'.web = d
    BY DEF NoneHidden
  <2>1. CASE sup'.web = sup.web /\ proc' = proc
    BY <1>1, <1>2, <2>1 DEF NoneHidden, Alive
  <2>2. ASSUME sup.web = None, NEW c \in Webs, proc' = [proc EXCEPT ![c] = "booting"],
               sup'.web = c
        PROVE  sup'.web = d
    <3>1. d # c => Alive(d)
      BY <2>2 DEF Alive, Known, TypeOK, Procs
    <3>2. d # None
      BY DEF Webs, None
    <3> QED BY <1>1, <1>2, <2>2, <3>1, <3>2 DEF NoneHidden
  <2> QED BY <1>2, <2>1, <2>2, FlowStepWeb DEF Known
<1> QED BY <1>1, <1>3, <1>4

LEMMA OthersApart ==
    ASSUME Known, Apart, CommandStep \/ Signal \/ CloseStops
           \/ (\E k \in Commands : Accept(k)) \/ (\E f \in Respawns : TimerFires(f)),
           ~met'
    PROVE  OneFlow(sup') /\ Calm(sup') /\ NoneHidden'
<1>1. Noticed
  BY OthersNotice
<1>2. ~met /\ killed \subseteq killed' /\ OneFlow(sup')
  BY <1>1 DEF Noticed, OneFlow
<1>3. OneFlow(sup) /\ Calm(sup) /\ NoneHidden
  BY <1>2 DEF Apart
<1>4. Calm(sup')
  BY <1>2, <1>3, CommandStepCalm, AcceptCalm, TimerCalm, CloseCalm DEF Known
<1>5. sup'.web = sup.web /\ proc' = proc
  BY OthersKeepWeb DEF Known
<1>6. NoneHidden'
  BY <1>2, <1>3, <1>5 DEF NoneHidden, Alive
<1> QED BY <1>2, <1>4, <1>6

LEMMA ApartStep == Known /\ Apart /\ [Next]_vars => Apart'
<1> SUFFICES ASSUME Known, Apart, [Next]_vars PROVE Apart'
  OBVIOUS
<1>1. CASE UNCHANGED vars
  BY <1>1 DEF vars, Apart, OneFlow, Busy, Calm, Fine, Rests, NoneHidden, Alive
<1>2. ASSUME NEW p \in Procs, Listen(p) \/ PortTaken(p) \/ Terminated(p) \/ Crash(p)
      PROVE  Apart'
  BY <1>2, ProcessApart DEF Known
<1>3. ASSUME ~met' => OneFlow(sup') /\ Calm(sup') /\ NoneHidden' PROVE Apart'
  BY <1>3 DEF Apart, OneFlow, Busy, Calm, Fine, Rests
<1>4. ASSUME NEW c \in Webs, ChildExit(c) PROVE Apart'
  BY <1>3, <1>4, ExitApart
<1>5. ASSUME NEW f \in Flows, FlowStep(f) PROVE Apart'
  BY <1>3, <1>5, FlowStepApart
<1>6. CASE CommandStep \/ Signal \/ CloseStops
           \/ (\E k \in Commands : Accept(k)) \/ (\E f \in Respawns : TimerFires(f))
  BY <1>3, <1>6, OthersApart
<1>7. CASE Next
  BY <1>2, <1>4, <1>5, <1>6, <1>7 DEF Next
<1> QED BY <1>1, <1>7

LEMMA ApartInit == Init => Apart
<1> SUFFICES ASSUME Init PROVE OneFlow(sup) /\ Calm(sup) /\ NoneHidden
  BY DEF Apart
<1>1. PICK open \in BOOLEAN :
         /\ proc = [p \in Procs |-> IF p # External THEN "unborn"
                                    ELSE IF open THEN "listening" ELSE "reaped"]
         /\ sup = Loaded(open)
  BY DEF Init
<1>2. /\ sup.web = None /\ sup.down = FALSE
      /\ \A f \in Flows : \/ sup.flow[f] = Idle
                          \/ f = "boot" /\ sup.flow[f] = At("probe", "start", None)
  BY <1>1 DEF Loaded, WebAtLoad
<1>3. OneFlow(sup) /\ Only(sup, "boot")
  BY <1>2 DEF OneFlow, Busy, Only, Idle
<1>4. "boot" \in Flows /\ Fine(sup, sup.flow["boot"])
  BY <1>2 DEF Flows, Fine, Idle, At
<1>5. Calm(sup)
  BY <1>2, <1>3, <1>4, CalmOfOne
<1>6. NoneHidden
  BY <1>1 DEF NoneHidden, Alive, Webs, External, Procs, SupervisorAssumption
<1> QED BY <1>3, <1>5, <1>6

LEMMA KnownHolds == Spec => []Known
<1> DEFINE Follows == InShape(sup) /\ Remembers(sup)
<1>1. Init => Follows
  BY ShapeInit, RemembersInit
<1>2. TypeOK /\ Follows /\ [Next]_vars => Follows'
  BY FollowsStep
<1>3. TypeOK /\ OwnsNoGhost /\ Follows => Known
  BY DEF Known
<1> HIDE DEF Follows
<1> QED BY <1>1, <1>2, <1>3, SupervisorTypeCorrect, SupervisorOwnsNoGhost, PTL DEF Spec

LEMMA ApartHolds == Spec => []Apart
<1> HIDE DEF Known, Apart
<1> QED BY ApartInit, ApartStep, KnownHolds, PTL DEF Spec

(* Until two flows have been under way at one time there is one Web: through *)
(* any number of crashes, respawns, commands and signals, with requests,     *)
(* builds and port lookups that fail and with a Web adopted from an earlier  *)
(* supervisor, whatever lives and was not told to end is the one owned.      *)
THEOREM SupervisorOneWeb == Spec => []OneWeb
<1>1. Apart => OneWeb
  BY DEF Apart, NoneHidden, OneWeb
<1> QED BY <1>1, ApartHolds, PTL

(* Until two flows have been under way at one time a stop sticks: the crash  *)
(* that came before it, the respawn that was pending when it came and the    *)
(* exit it causes itself start nothing until a command asks for a start.     *)
THEOREM SupervisorLoneStopSticks == Spec => []LoneStopSticks
<1>1. Apart => LoneStopSticks
  <2> SUFFICES ASSUME Apart, ~met, sup.down, NEW c \in Webs, Alive(c) PROVE c \in killed
    BY DEF LoneStopSticks, StopSticks
  <2>1. sup.web = None /\ NoneHidden
    BY DEF Apart, Calm, Rests
  <2>2. c # None
    BY DEF Webs, None
  <2> QED BY <2>1, <2>2 DEF NoneHidden
<1> QED BY <1>1, ApartHolds, PTL
=============================================================================
