----------------------------- MODULE Supervisor ------------------------------
(***************************************************************************)
(* The supervisor process that owns one Web process and its port            *)
(* (packages/supervisor/runtime/supervisor.mjs).  Everything it does is      *)
(* asynchronous: the first start, the command being served, the respawns a   *)
(* crash schedules and the shutdown are flows that interleave at each await  *)
(* and share the fields of one RuntimeSupervisor.                            *)
(***************************************************************************)
EXTENDS Naturals, FiniteSets

CONSTANTS MaxWebs,      \* bound: Web processes ever spawned
          MaxRespawns,  \* MAX_RESPAWN_ATTEMPTS
          Respawns,     \* flows for respawns that are under way at one time
          Commands,     \* the commands clients send
          MaxCommands,  \* bound: commands accepted
          MaxCrashes,   \* bound: processes that die unasked
          Faults        \* what may happen: "early", "adopted", "signal",
                        \* "owner", "fetch", "build"

ASSUME SupervisorAssumption ==
    /\ MaxWebs \in Nat \ {0} /\ MaxRespawns \in Nat
    /\ MaxCommands \in Nat /\ MaxCrashes \in Nat
    /\ Respawns \cap {"boot", "command", "close"} = {}
    /\ Commands \subseteq {"start", "stop", "restart", "reload", "rebuild"}

Webs == 1..MaxWebs
None == 0
External == MaxWebs + 1     \* a Web left by an earlier supervisor
Procs == Webs \cup {External}
Flows == {"boot", "command", "close"} \cup Respawns

VARIABLES
    proc,      \* the operating system's view of each process
    killed,    \* processes that were sent SIGTERM
    sup,       \* the RuntimeSupervisor and its flows
    met,       \* history: two flows have been under way at one time
    accepted,  \* number of commands accepted
    crashes    \* number of unasked deaths

vars == <<proc, killed, sup, met, accepted, crashes>>

Alive(p) == proc[p] \in {"booting", "listening"}
PortOpen == \E p \in Procs : proc[p] = "listening"
Owners == {p \in Procs : proc[p] = "listening"}

Idle == [at |-> "idle", doing |-> "nothing", on |-> None]
At(pc, what, p) == [at |-> pc, doing |-> what, on |-> p]
NoCommand == [kind |-> "none", was |-> FALSE, sessions |-> FALSE]

(* Operators named Bug... are faulty variants, used only to show that the    *)
(* properties notice such a fault.                                           *)

(* A Web found at load is not a child, so it is not owned.                   *)
WebAtLoad(open) == None

(* load() probes the port: a Web that already listens counts as running, and *)
(* then runSupervisor starts none.  The last three fields are history: a     *)
(* stop command succeeded and nothing was asked to start since; the last     *)
(* command was answered without an error; and what became of the sessions it *)
(* captured.                                                                 *)
Loaded(open) ==
    [web |-> WebAtLoad(open), running |-> open, attempts |-> 0, tries |-> 0, timer |-> FALSE,
     stopping |-> FALSE, closing |-> FALSE, exited |-> FALSE, booted |-> open,
     cmd |-> NoCommand,
     flow |-> [f \in Flows |-> IF f = "boot" /\ ~open
                               THEN At("probe", "start", None) ELSE Idle],
     down |-> FALSE, ended |-> FALSE, owed |-> "nothing"]

Init ==
    /\ \E open \in BOOLEAN :
         /\ open => "adopted" \in Faults
         /\ proc = [p \in Procs |-> IF p # External THEN "unborn"
                                    ELSE IF open THEN "listening" ELSE "reaped"]
         /\ sup = Loaded(open)
    /\ killed = {} /\ met = FALSE /\ accepted = 0 /\ crashes = 0

-----------------------------------------------------------------------------
(* scheduleRespawn(): one timer, never while closing, at most MaxRespawns    *)
(* attempts in a row.                                                        *)
BugNoLimit(s) ==
    IF s.timer \/ s.closing THEN s
    ELSE [s EXCEPT !.attempts = @ + 1, !.timer = TRUE]

ScheduleRespawn(s) ==
    IF s.timer \/ s.closing THEN s
    ELSE [s EXCEPT !.attempts = @ + 1, !.timer = s.attempts < MaxRespawns]

(* The finally of command(): the next command is accepted.                   *)
BugStaysActive(s) == [s EXCEPT !.flow["command"] = Idle]

Settled(s) == [s EXCEPT !.flow["command"] = Idle, !.cmd = NoCommand, !.ended = TRUE]

(* A flow ends with an error.  A failed respawn schedules another one, a     *)
(* failed first start ends the process, a failed shutdown exits all the same.*)
BugDisowns(s, f) ==
    IF f = "command" THEN [Settled(s) EXCEPT !.ended = FALSE, !.web = None]
    ELSE ScheduleRespawn([s EXCEPT !.flow[f] = Idle, !.web = None])

Threw(s, f) ==
    IF f = "command" THEN [Settled(s) EXCEPT !.ended = FALSE]
    ELSE IF f \in Respawns THEN ScheduleRespawn([s EXCEPT !.flow[f] = Idle])
    ELSE [s EXCEPT !.flow[f] = Idle, !.exited = TRUE]

(* recoverSessions(): no request when nothing was captured.                  *)
BugReloadForgets(s) ==
    IF s.cmd.sessions /\ s.cmd.kind # "reload"
    THEN [s EXCEPT !.flow["command"] = At("recover", "command", None)]
    ELSE Settled(s)

Recovering(s) ==
    IF s.cmd.sessions THEN [s EXCEPT !.flow["command"] = At("recover", "command", None)]
    ELSE Settled(s)

(* startWeb() returned.                                                      *)
Started(s, f) ==
    IF f = "command"
    THEN IF s.cmd.kind = "start" THEN Settled(s) ELSE Recovering(s)
    ELSE [s EXCEPT !.flow[f] = Idle, !.booted = @ \/ f = "boot"]

(* startWeb() begins: nothing to do when a Web is owned already.             *)
StartWeb(s, f) ==
    IF s.web # None THEN Started(s, f)
    ELSE [s EXCEPT !.flow[f] = At("probe", "start", None)]

(* stop() begins: no respawn is pending any more, and the exit that follows  *)
(* is a commanded one.                                                       *)
BugCommanded(s) == [s EXCEPT !.stopping = TRUE]
Commanded(s) == [s EXCEPT !.stopping = TRUE, !.timer = FALSE]

Stop(s, f) ==
    [Commanded(s) EXCEPT !.flow[f] =
        IF s.web # None THEN At("waitExit", "stop", s.web)
        ELSE At("probe", "stop", None)]

(* What a stop leaves behind when it succeeds.                               *)
Stopped(s) ==
    [s EXCEPT !.web = None, !.running = FALSE, !.attempts = 0, !.tries = 0,
              !.stopping = FALSE]

(* stop() returned: the command ends, or goes on with its start.             *)
StopReturned(s, f) ==
    LET t == Stopped(s) IN
    IF f = "close" THEN [t EXCEPT !.flow[f] = Idle, !.exited = TRUE]
    ELSE IF s.cmd.kind = "stop" THEN [Settled(t) EXCEPT !.down = TRUE]
    ELSE IF s.cmd.was \/ s.cmd.kind \in {"reload", "rebuild"} THEN StartWeb(t, f)
    ELSE Recovering(t)

(* captureRunningSessions() when something was running, then stop().         *)
CaptureOrStop(s) ==
    IF s.cmd.was THEN [s EXCEPT !.flow["command"] = At("capture", "command", None)]
    ELSE Stop(s, "command")

(* A step of the supervisor's event loop, with the signals it sends: stop()  *)
(* kills the Web it waits for.                                               *)
Busy(s) == {f \in Flows : s.flow[f].at # "idle"}

Becomes(s) ==
    /\ ~sup.exited
    /\ sup' = s
    /\ met' = (met \/ \E f, g \in Busy(s) : f # g)
    /\ killed' = killed \cup {s.flow[f].on : f \in {g \in Flows :
                                s.flow[g].at = "waitExit" /\ sup.flow[g].at # "waitExit"}}

-----------------------------------------------------------------------------
(* The Web process: it takes the port, or finds it taken and dies; SIGTERM   *)
(* ends it; it may crash.                                                    *)
Listen(p) ==
    /\ proc[p] = "booting" /\ ~PortOpen
    /\ proc' = [proc EXCEPT ![p] = "listening"]
    /\ UNCHANGED <<killed, sup, met, accepted, crashes>>

PortTaken(p) ==
    /\ proc[p] = "booting" /\ PortOpen
    /\ proc' = [proc EXCEPT ![p] = "dead"]
    /\ UNCHANGED <<killed, sup, met, accepted, crashes>>

Terminated(p) ==
    /\ Alive(p) /\ p \in killed
    /\ proc' = [proc EXCEPT ![p] = "dead"]
    /\ UNCHANGED <<killed, sup, met, accepted, crashes>>

Crash(p) ==
    /\ Alive(p) /\ p \notin killed
    /\ crashes < MaxCrashes
    /\ proc' = [proc EXCEPT ![p] = "dead"]
    /\ crashes' = crashes + 1
    /\ UNCHANGED <<killed, sup, met, accepted>>

(* The exit event of a child: only the Web that is owned matters, and only   *)
(* an exit nobody asked for is followed by a respawn.                        *)
BugKeepsWeb(s) == [s EXCEPT !.running = FALSE]
Gone(s) == [s EXCEPT !.web = None, !.running = FALSE]

Exited(s) ==
    IF s.stopping \/ s.closing THEN Gone(s) ELSE ScheduleRespawn(Gone(s))

ChildExit(c) ==
    /\ proc[c] = "dead"
    /\ Becomes(IF sup.web = c THEN Exited(sup) ELSE sup)
    /\ proc' = [proc EXCEPT ![c] = "reaped"]
    /\ UNCHANGED <<accepted, crashes>>

(* The respawn timer fires.  An assumption on timing: its delay (2 s and     *)
(* more) outlasts the 200 ms in which a start that waits sees its child gone.*)
TimerFires(f) ==
    /\ sup.timer /\ sup.flow[f] = Idle
    /\ f = CHOOSE g \in Respawns : sup.flow[g] = Idle
    /\ \A g \in Flows : sup.flow[g].at \in {"waitPort", "waitEntry", "retry", "answered"}
                         => proc[sup.flow[g].on] # "reaped"
    /\ Becomes(StartWeb([sup EXCEPT !.timer = FALSE, !.tries = @ + 1], f))
    /\ UNCHANGED <<proc, accepted, crashes>>

-----------------------------------------------------------------------------
(* spawn(): the new Web is owned at once and waited for.                     *)
Launch(f) ==
    /\ \E c \in Webs :
         /\ proc[c] = "unborn" /\ \A d \in 1..(c - 1) : proc[d] # "unborn"
         /\ Becomes([sup EXCEPT !.web = c, !.flow[f] = At("waitPort", "start", c)])
         /\ proc' = [proc EXCEPT ![c] = "booting"]
    /\ UNCHANGED <<accepted, crashes>>

(* What follows a free port: startWeb() spawns, stop() checks once more.     *)
PortFree(f) ==
    IF sup.flow[f].doing = "start" THEN Launch(f)
    ELSE /\ Becomes([sup EXCEPT !.flow[f] = At("check", "stop", None)])
         /\ UNCHANGED <<proc, accepted, crashes>>

(* releaseExternalPort(): probe, then take the port over.                    *)
Probe(f) ==
    /\ sup.flow[f].at = "probe"
    /\ IF PortOpen
       THEN /\ Becomes([sup EXCEPT !.flow[f].at = "takeover"])
            /\ UNCHANGED <<proc, accepted, crashes>>
       ELSE PortFree(f)

(* The owner of the port is told to end, whoever it is; when no owner is     *)
(* found the caller fails.                                                   *)
Takeover(f) ==
    /\ sup.flow[f].at = "takeover" /\ ~sup.exited
    /\ \/ /\ Owners # {}
          /\ killed' = killed \cup Owners
          /\ sup' = [sup EXCEPT !.flow[f].at = "drain"] /\ UNCHANGED met
       \/ /\ Owners = {} \/ "owner" \in Faults
          /\ Becomes(Threw(IF sup.flow[f].doing = "stop"
                           THEN [sup EXCEPT !.stopping = FALSE] ELSE sup, f))
    /\ UNCHANGED <<proc, accepted, crashes>>

Drain(f) ==
    /\ sup.flow[f].at = "drain" /\ ~PortOpen
    /\ PortFree(f)

(* waitForPort(): any listener will do; without one the child must live.     *)
WaitPort(f) ==
    /\ sup.flow[f].at = "waitPort"
    /\ \/ PortOpen /\ Becomes([sup EXCEPT !.flow[f].at = "waitEntry"])
       \/ ~PortOpen /\ proc[sup.flow[f].on] = "reaped" /\ Becomes(Threw(sup, f))
    /\ UNCHANGED <<proc, accepted, crashes>>

(* The Web is up: startWeb() ends well.                                      *)
Ready(s) == [s EXCEPT !.running = TRUE, !.attempts = 0, !.tries = 0]

(* waitForRecoveryEntry(): a child that is gone or a request that fails ends *)
(* the start with an error; whoever listens may answer the request.  As long *)
(* as the answer is not ok, the request is made again in 200 ms.             *)
WaitEntry(f) ==
    /\ sup.flow[f].at = "waitEntry"
    /\ LET gone == proc[sup.flow[f].on] = "reaped" IN
       \/ /\ ~gone /\ PortOpen
          /\ \E ok \in BOOLEAN :
               Becomes([sup EXCEPT !.flow[f].at = IF ok THEN "answered" ELSE "retry"])
       \/ (gone \/ ~PortOpen \/ "fetch" \in Faults) /\ Becomes(Threw(sup, f))
    /\ UNCHANGED <<proc, accepted, crashes>>

Retry(f) ==
    /\ sup.flow[f].at = "retry"
    /\ Becomes([sup EXCEPT !.flow[f].at = "waitEntry"])
    /\ UNCHANGED <<proc, accepted, crashes>>

(* The answer is read; the child may have gone since it was sent.            *)
Answered(f) ==
    /\ sup.flow[f].at = "answered"
    /\ Becomes(Started(Ready(sup), f))
    /\ UNCHANGED <<proc, accepted, crashes>>

(* The rest of stop().                                                       *)
WaitExit(f) ==
    /\ sup.flow[f].at = "waitExit" /\ proc[sup.flow[f].on] = "reaped"
    /\ Becomes([sup EXCEPT !.flow[f] = At("check", "stop", None)])
    /\ UNCHANGED <<proc, accepted, crashes>>

Check(f) ==
    /\ sup.flow[f].at = "check"
    /\ Becomes(IF PortOpen THEN Threw([sup EXCEPT !.stopping = FALSE], f)
               ELSE StopReturned(sup, f))
    /\ UNCHANGED <<proc, accepted, crashes>>

-----------------------------------------------------------------------------
(* command(): refused while another one is active.  The socket listens       *)
(* before the first start has ended ("early").                               *)
NoneActive == sup.cmd.kind = "none"

Accept(k) ==
    /\ NoneActive
    /\ accepted < MaxCommands
    /\ sup.booted \/ "early" \in Faults
    /\ accepted' = accepted + 1
    /\ LET s == [sup EXCEPT !.cmd = [NoCommand EXCEPT !.kind = k],
                            !.down = @ /\ k = "stop",
                            !.ended = FALSE, !.owed = "nothing"]
       IN  Becomes(IF k = "start" THEN StartWeb(s, "command")
                   ELSE IF k = "stop" THEN Stop(s, "command")
                   ELSE [s EXCEPT !.flow["command"] = At("ask", "command", None)])
    /\ UNCHANGED <<proc, crashes>>

(* restart() and reload() first ask whether something runs.                  *)
AskRunning ==
    /\ sup.flow["command"].at = "ask"
    /\ LET s == [sup EXCEPT !.cmd.was = sup.running \/ PortOpen]
       IN  Becomes(IF s.cmd.kind = "rebuild"
                   THEN [s EXCEPT !.flow["command"] = At("build", "command", None)]
                   ELSE CaptureOrStop(s))
    /\ UNCHANGED <<proc, accepted, crashes>>

BuildEnds ==
    /\ sup.flow["command"].at = "build"
    /\ \/ Becomes(CaptureOrStop(sup))
       \/ ("build" \in Faults \/ sup.closing) /\ Becomes(Threw(sup, "command"))
    /\ UNCHANGED <<proc, accepted, crashes>>

Capture ==
    /\ sup.flow["command"].at = "capture"
    /\ \/ /\ PortOpen
          /\ \E some \in BOOLEAN :
               Becomes([sup EXCEPT !.cmd.sessions = some,
                                   !.owed = IF some THEN "captured" ELSE "nothing",
                                   !.flow["command"].at = "captured"])
       \/ (~PortOpen \/ "fetch" \in Faults) /\ Becomes(Threw(sup, "command"))
    /\ UNCHANGED <<proc, accepted, crashes>>

StopAfterCapture ==
    /\ sup.flow["command"].at = "captured"
    /\ Becomes(Stop(sup, "command"))
    /\ UNCHANGED <<proc, accepted, crashes>>

(* The Web answers with the sessions it told and with those it failed to     *)
(* tell, which the supervisor only counts.                                   *)
Recovered(s, answer) == [s EXCEPT !.owed = answer]

Recover ==
    /\ sup.flow["command"].at = "recover"
    /\ \/ /\ PortOpen
          /\ \E answer \in {"told", "failed"} : Becomes(Settled(Recovered(sup, answer)))
       \/ (~PortOpen \/ "fetch" \in Faults) /\ Becomes(Threw(sup, "command"))
    /\ UNCHANGED <<proc, accepted, crashes>>

(* SIGTERM: the handler is registered after the first start; before that the *)
(* signal simply ends the process.                                           *)
Signal ==
    /\ "signal" \in Faults /\ ~sup.closing
    /\ Becomes(IF sup.booted
               THEN [sup EXCEPT !.closing = TRUE,
                                !.flow["close"] = At("progress", "close", None)]
               ELSE [sup EXCEPT !.exited = TRUE])
    /\ UNCHANGED <<proc, accepted, crashes>>

(* close() after the progress server is closed.                              *)
CloseStops ==
    /\ sup.flow["close"].at = "progress"
    /\ Becomes(Stop(sup, "close"))
    /\ UNCHANGED <<proc, accepted, crashes>>

FlowStep(f) ==
    \/ Probe(f) \/ Takeover(f) \/ Drain(f) \/ WaitPort(f) \/ WaitEntry(f)
    \/ Retry(f) \/ Answered(f) \/ WaitExit(f) \/ Check(f)

CommandStep == AskRunning \/ BuildEnds \/ Capture \/ StopAfterCapture \/ Recover

Next ==
    \/ \E p \in Procs : Listen(p) \/ PortTaken(p) \/ Terminated(p) \/ Crash(p)
    \/ \E c \in Webs : ChildExit(c)
    \/ \E f \in Respawns : TimerFires(f)
    \/ \E f \in Flows : FlowStep(f)
    \/ \E k \in Commands : Accept(k)
    \/ CommandStep
    \/ Signal \/ CloseStops

(* Processes start or end, their exits are noticed, timers fire and requests *)
(* end; nobody has to send a command.                                        *)
Fairness ==
    /\ WF_vars(\E p \in Procs : Listen(p) \/ PortTaken(p) \/ Terminated(p))
    /\ WF_vars(\E c \in Webs : ChildExit(c))
    /\ WF_vars(\E f \in Respawns : TimerFires(f))
    /\ \A f \in Flows : WF_vars(FlowStep(f))
    /\ WF_vars(CommandStep) /\ WF_vars(CloseStops)

Spec == Init /\ [][Next]_vars
FairSpec == Spec /\ Fairness

-----------------------------------------------------------------------------
Waiting == {"waitPort", "waitEntry", "retry", "answered", "waitExit"}

(* Who waits for a Web waits for a certain one.                              *)
FlowState ==
    {r \in [at : Waiting \cup {"idle", "probe", "takeover", "drain", "check", "ask",
                              "build", "capture", "captured", "recover", "progress"},
            doing : {"nothing", "start", "stop", "command", "close"},
            on : Webs \cup {None}] : r.at \in Waiting => r.on \in Webs}

SupState == [web : Webs \cup {None}, running : BOOLEAN, attempts : Nat,
             tries : Nat, timer : BOOLEAN, stopping : BOOLEAN,
             closing : BOOLEAN, exited : BOOLEAN, booted : BOOLEAN,
             cmd : [kind : {"none"} \cup Commands, was : BOOLEAN,
                    sessions : BOOLEAN],
             flow : [Flows -> FlowState], down : BOOLEAN, ended : BOOLEAN,
             owed : {"nothing", "captured", "told", "failed"}]

(* The types of the variables.                                               *)
TypeOK ==
    /\ proc \in [Procs -> {"unborn", "booting", "listening", "dead", "reaped"}]
    /\ killed \subseteq Procs
    /\ sup \in SupState /\ met \in BOOLEAN
    /\ accepted \in 0..MaxCommands /\ crashes \in 0..MaxCrashes

(* The supervisor never goes on owning a Web whose exit it has seen; it      *)
(* would take the next start for done and never start anything again.        *)
OwnsNoGhost == sup.web # None => proc[sup.web] # "reaped"

(* "The Supervisor manages one runtime manifest and one Web port per         *)
(* process": until two flows have been under way at one time, every Web that *)
(* lives and was not told to end is the one that is owned, so a stop reaches *)
(* it and its crash is noticed.                                              *)
OneWeb ==
    ~met => \A c \in Webs : Alive(c) /\ c \notin killed /\ ~sup.exited => sup.web = c

(* A Web that keeps exiting is respawned a bounded number of times between   *)
(* two successes ("How many times a Web child that keeps exiting is          *)
(* restarted"): MaxRespawns, and one more when the timer was armed before    *)
(* the last success, which does not disarm it.                               *)
RespawnsBounded == sup.tries <= MaxRespawns + 1

(* "Cancel a pending respawn so a commanded stop is not undone by one"       *)
(* (supervisor.mjs:280): after a stop nothing lives until a command asks for *)
(* a start.                                                                  *)
StopSticks == sup.down => \A c \in Webs : Alive(c) => c \in killed

(* What the code keeps of it: a stop sticks through crashes before, while    *)
(* and after it is served, and with respawns pending, as long as no start or *)
(* respawn is under way when the command comes, or comes while it is served. *)
LoneStopSticks == ~met => StopSticks

(* A command that is answered without an error leaves no session it captured *)
(* behind: a Web was asked to recover it after the restart, and told it or   *)
(* named it as failed ("Each captured Session receives one ordinary user     *)
(* message").  Whatever crashes, respawns and failures come between the      *)
(* capture and the recovery.                                                 *)
CapturedAreRecovered == sup.ended => sup.owed # "captured"

(* Two waits that the code does not bound: for a Web that goes on answering  *)
(* that it cannot recover sessions, and for a port which the Web of another  *)
(* flow has taken.                                                           *)
Endless(f) ==
    \/ sup.flow[f].at = "retry"
    \/ sup.flow[f].at = "drain" /\ met

(* Every accepted command ends, unless it is caught in such a wait.          *)
EveryCommandSettles ==
    <>[]~Endless("command") =>
        (sup.cmd.kind # "none" ~> (sup.cmd.kind = "none" \/ sup.exited))

(* A service that went dark before any command comes back, unless the        *)
(* attempts are used up (scheduleRespawn) or a flow is caught in such a wait.*)
ComesBack ==
    <>[](\A f \in Flows : ~Endless(f)) =>
        ((sup.booted /\ sup.web = None /\ accepted = 0)
           ~> (sup.running \/ sup.attempts > MaxRespawns \/ accepted > 0 \/ sup.exited))
=============================================================================
