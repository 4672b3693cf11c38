---------------------------- MODULE CliLifecycle ----------------------------
(***************************************************************************)
(* The commands start, stop and restart (cli.py) and the background        *)
(* service they manage.                                                    *)
(*                                                                         *)
(* A command is a process of its own: it reads runtime.json, asks the      *)
(* system about the pid named there, probes the port, spawns, signals and  *)
(* waits, and everything else may happen between two of these steps: other *)
(* commands, a service that crashes, fails to bind or hangs in its         *)
(* shutdown, a pid that is used again by a process of somebody else.       *)
(***************************************************************************)
EXTENDS Naturals

CONSTANTS
  None,         \* no pid
  Pids,         \* process ids
  Commanders,   \* terminals, each runs one command at a time
  MaxCommands,  \* bound: commands given
  MaxFaults     \* bound: crashes, failed ps calls and interrupted commands

ASSUME PidsAssumption == None \notin Pids
ASSUME CliBoundsAssumption == {MaxCommands, MaxFaults} \subseteq Nat

(* Where a command is: what it does next, or how it ended. *)
Reports == {"idle", "started", "already", "failed", "stopped", "notRunning", "error"}
StartSteps == {"look", "unlinkStale", "port", "spawn", "write", "health", "giveUp", "unlinkFailed"}
StopSteps == {"find", "verify", "term", "wait", "kill", "unlinkGone", "unlinkStopped"}

VARIABLES
  phase,    \* external: [Pids -> free, starting, serving, closing, dead or stranger]
  told,     \* external: pids of services that got a SIGTERM
  foreign,  \* external: another program has the port
  file,     \* the pid in runtime.json, or None
  cmd,      \* [Commanders -> step, the pid it works on, its child, restart or not]
  given,    \* commands given so far
  faults,   \* crashes, failed ps calls and interrupted commands so far
  calm      \* history: one command at a time, none interrupted, ps answered

system == <<phase, told, foreign>>
lvars == <<system, file, cmd, given, faults, calm>>

Monitors == {p \in Pids : phase[p] \in {"starting", "serving", "closing"}}
Services == Monitors \ told
Alive(p) == phase[p] # "free"
PortFree == ~foreign /\ \A p \in Pids : phase[p] # "serving"
Running(c) == cmd[c].step \notin Reports
Ended(report) == [step |-> report, pid |-> None, child |-> None, again |-> FALSE]

LInit ==
  /\ phase = [p \in Pids |-> "free"]
  /\ told = {}
  /\ foreign = FALSE
  /\ file = None
  /\ cmd = [c \in Commanders |-> Ended("idle")]
  /\ given = 0
  /\ faults = 0
  /\ calm = TRUE

Goto(c, step) == cmd' = [cmd EXCEPT ![c].step = step]
End(c, report) == cmd' = [cmd EXCEPT ![c] = Ended(report)]

(* A restart goes on with a start once its stop has ended; what the stop   *)
(* found does not matter.                                                  *)
EndStop(c, report) ==
  IF cmd[c].again THEN cmd' = [cmd EXCEPT ![c] = [Ended("idle") EXCEPT !.step = "look"]]
  ELSE End(c, report)

(* A user gives a command. *)
Give(c) ==
  /\ ~Running(c)
  /\ given < MaxCommands
  /\ \E first \in {"look", "find"}, again \in BOOLEAN :
       /\ again => first = "find"
       /\ cmd' = [cmd EXCEPT ![c] = [Ended("idle") EXCEPT !.step = first, !.again = again]]
  /\ given' = given + 1
  /\ calm' = (calm /\ \A d \in Commanders : ~Running(d))
  /\ UNCHANGED <<system, file, faults>>

(* ps tells whether a pid is the service, or fails or takes too long: then *)
(* the answer is no.                                                       *)
IsMonitor(p, answer) ==
  \/ answer = (p \in Monitors) /\ UNCHANGED <<faults, calm>>
  \/ ~answer /\ p \in Monitors /\ faults < MaxFaults /\ faults' = faults + 1 /\ calm' = FALSE

----------------------------------------------------------------------------
(* start: a service that runs is left alone; other records are removed. *)

Look(c) ==
  /\ cmd[c].step = "look"
  /\ IF file = None THEN Goto(c, "port") /\ UNCHANGED <<faults, calm>>
     ELSE \E answer \in BOOLEAN :
            /\ IsMonitor(file, answer)
            /\ IF answer THEN End(c, "already") ELSE Goto(c, "unlinkStale")
  /\ UNCHANGED <<system, file, given>>

Unlink(c) ==
  /\ \/ cmd[c].step = "unlinkStale" /\ Goto(c, "port")
     \/ cmd[c].step = "unlinkFailed" /\ End(c, "failed")
     \/ cmd[c].step = "unlinkGone" /\ EndStop(c, "notRunning")
     \/ cmd[c].step = "unlinkStopped" /\ EndStop(c, "stopped")
  /\ file' = None
  /\ UNCHANGED <<system, given, faults, calm>>

(* Fault: the port is not looked at. *)
WaitForPortSkipped(c) ==
  /\ cmd[c].step = "port"
  /\ Goto(c, "spawn")
  /\ UNCHANGED <<system, file, given, faults, calm>>

(* Twenty probes; the start fails when none of them finds the port free. *)
WaitForPort(c) ==
  /\ cmd[c].step = "port"
  /\ IF PortFree THEN Goto(c, "spawn") ELSE End(c, "failed")
  /\ UNCHANGED <<system, file, given, faults, calm>>

Spawn(c) ==
  /\ cmd[c].step = "spawn"
  /\ \E p \in Pids :
       /\ phase[p] = "free"
       /\ phase' = [phase EXCEPT ![p] = "starting"]
       /\ cmd' = [cmd EXCEPT ![c].step = "write", ![c].child = p]
  /\ UNCHANGED <<told, foreign, file, given, faults, calm>>

WriteState(c) ==
  /\ cmd[c].step = "write"
  /\ file' = cmd[c].child
  /\ Goto(c, "health")
  /\ UNCHANGED <<system, given, faults, calm>>

(* The child has exited: asking for it frees its pid, and from then on the *)
(* command knows its exit code and never uses the pid again.               *)
Reaped(c) ==
  /\ phase' = [phase EXCEPT ![cmd[c].child] = "free"]
  /\ cmd' = [cmd EXCEPT ![c].step = "unlinkFailed", ![c].child = None]

(* Each round asks first whether the child has exited, which reaps it, and *)
(* then whoever has the port for its health; the last round gives up.  The *)
(* two questions are one step here.                                        *)
WaitForHealth(c) ==
  /\ cmd[c].step = "health"
  /\ LET child == cmd[c].child
     IN \/ /\ phase[child] = "dead"
           /\ Reaped(c)
        \/ /\ phase[child] # "dead"
           /\ \E p \in Pids : phase[p] = "serving"
           /\ End(c, "started")
           /\ UNCHANGED phase
        \/ /\ phase[child] # "dead"
           /\ Goto(c, "giveUp")
           /\ UNCHANGED phase
  /\ UNCHANGED <<told, foreign, file, given, faults, calm>>

(* Fault: the child is left running. *)
GiveUpQuietly(c) ==
  /\ cmd[c].step = "giveUp"
  /\ Goto(c, "unlinkFailed")
  /\ UNCHANGED <<system, file, given, faults, calm>>

(* Asked again, and told to stop unless it has exited meanwhile. *)
GiveUp(c) ==
  /\ cmd[c].step = "giveUp"
  /\ LET child == cmd[c].child
     IN IF phase[child] = "dead"
        THEN Reaped(c) /\ UNCHANGED told
        ELSE told' = told \cup {child} /\ Goto(c, "unlinkFailed") /\ UNCHANGED phase
  /\ UNCHANGED <<foreign, file, given, faults, calm>>

----------------------------------------------------------------------------
(* stop: SIGTERM, eight seconds, then SIGKILL if it is still the service. *)

Find(c) ==
  /\ cmd[c].step = "find"
  /\ cmd' = [cmd EXCEPT ![c].pid = file,
                        ![c].step = IF file # None /\ Alive(file) THEN "verify" ELSE "unlinkGone"]
  /\ UNCHANGED <<system, file, given, faults, calm>>

Verify(c) ==
  /\ cmd[c].step = "verify"
  /\ \E answer \in BOOLEAN :
       /\ IsMonitor(cmd[c].pid, answer)
       /\ Goto(c, IF answer THEN "term" ELSE "unlinkGone")
  /\ UNCHANGED <<system, file, given>>

(* A pid that is gone by now raises ProcessLookupError, which ends the     *)
(* command, a restart's too, and leaves the record behind.                 *)
Terminate(c) ==
  /\ cmd[c].step = "term"
  /\ IF Alive(cmd[c].pid)
     THEN /\ told' = told \cup ({cmd[c].pid} \cap Monitors)
          /\ Goto(c, "wait")
     ELSE End(c, "error") /\ UNCHANGED told
  /\ UNCHANGED <<phase, foreign, file, given, faults, calm>>

(* Fault: whatever has the pid by now is killed. *)
AwaitUnverified(c) ==
  /\ cmd[c].step = "wait"
  /\ Goto(c, IF Alive(cmd[c].pid) THEN "kill" ELSE "unlinkStopped")
  /\ UNCHANGED <<system, file, given, faults, calm>>

(* Fault: a service that hangs is not killed. *)
AwaitPatiently(c) ==
  /\ cmd[c].step = "wait"
  /\ Goto(c, "unlinkStopped")
  /\ UNCHANGED <<system, file, given, faults, calm>>

(* The wait ends when the pid is gone or the time is over; the service is  *)
(* killed if it is still there under that pid.                             *)
Await(c) ==
  /\ cmd[c].step = "wait"
  /\ IF Alive(cmd[c].pid)
     THEN \E answer \in BOOLEAN :
            /\ IsMonitor(cmd[c].pid, answer)
            /\ Goto(c, IF answer THEN "kill" ELSE "unlinkStopped")
     ELSE Goto(c, "unlinkStopped") /\ UNCHANGED <<faults, calm>>
  /\ UNCHANGED <<system, file, given>>

Kill(c) ==
  /\ cmd[c].step = "kill"
  /\ IF Alive(cmd[c].pid)
     THEN /\ phase' = [phase EXCEPT ![cmd[c].pid] = "dead"]
          /\ told' = told \ {cmd[c].pid}
          /\ Goto(c, "unlinkStopped")
     ELSE End(c, "error") /\ UNCHANGED <<phase, told>>
  /\ UNCHANGED <<foreign, file, given, faults, calm>>

(* The user interrupts a command: its child is in a session of its own and *)
(* goes on.                                                                *)
Interrupt(c) ==
  /\ Running(c)
  /\ faults < MaxFaults
  /\ End(c, "error")
  /\ faults' = faults + 1
  /\ calm' = FALSE
  /\ UNCHANGED <<system, file, given>>

Step(c) ==
  \/ Look(c) \/ Unlink(c) \/ WaitForPort(c) \/ Spawn(c) \/ WriteState(c)
  \/ WaitForHealth(c) \/ GiveUp(c) \/ Find(c) \/ Verify(c) \/ Terminate(c)
  \/ Await(c) \/ Kill(c)

----------------------------------------------------------------------------
(* The service and the other processes of the machine. *)

Become(p, next) ==
  /\ phase' = [phase EXCEPT ![p] = next]
  /\ told' = IF next = "dead" THEN told \ {p} ELSE told
  /\ UNCHANGED <<foreign, file, cmd, given, calm>>

(* Once the runtime has started the port is bound; a taken port ends it. *)
Bind(p) ==
  /\ phase[p] = "starting" /\ p \notin told
  /\ Become(p, IF PortFree THEN "serving" ELSE "dead")
  /\ UNCHANGED faults

(* A service that is told to stop gives up the port, stops the runtime and *)
(* exits, or hangs on the way.                                             *)
ShutDown(p) ==
  /\ p \in told
  /\ \/ phase[p] = "serving" /\ Become(p, "closing")
     \/ phase[p] \in {"starting", "closing"} /\ Become(p, "dead")
  /\ UNCHANGED faults

Crash(p) ==
  /\ p \in Monitors
  /\ faults < MaxFaults
  /\ Become(p, "dead")
  /\ faults' = faults + 1

(* A dead process keeps its pid until its parent asks for it; init does so *)
(* when the parent is gone.                                                *)
Reap(p) ==
  /\ phase[p] = "dead"
  /\ \A c \in Commanders : cmd[c].child # p
  /\ Become(p, "free")
  /\ UNCHANGED faults

(* Another program gets the pid, but not between a check and the signal it *)
(* allows: those are moments apart and pids are not used again at once.    *)
Reuse(p) ==
  /\ phase[p] = "free"
  /\ \A c \in Commanders : cmd[c].step \in {"term", "kill"} => cmd[c].pid # p
  /\ \A q \in Pids : phase[q] # "stranger"
  /\ Become(p, "stranger")
  /\ UNCHANGED faults

StrangerExits(p) ==
  /\ phase[p] = "stranger"
  /\ Become(p, "free")
  /\ UNCHANGED faults

ForeignPort ==
  /\ foreign \/ PortFree
  /\ foreign' = ~foreign
  /\ UNCHANGED <<phase, told, file, cmd, given, faults, calm>>

Environment ==
  \/ \E p \in Pids : Bind(p) \/ ShutDown(p) \/ Crash(p) \/ Reap(p) \/ Reuse(p) \/ StrangerExits(p)
  \/ ForeignPort

LNext ==
  \/ \E c \in Commanders : Give(c) \/ Interrupt(c) \/ Step(c)
  \/ Environment

LSpec == LInit /\ [][LNext]_lvars

----------------------------------------------------------------------------
(* No command is ever about to signal a process of somebody else, however  *)
(* stale its record is and whatever happened to the pid while it waited    *)
(* (cli.py:258, 268-271, 236-237).                                         *)
StrangersAreSafe ==
  \A c \in Commanders :
    /\ cmd[c].step \in {"term", "kill"} => phase[cmd[c].pid] # "stranger"
    /\ cmd[c].step = "giveUp" => phase[cmd[c].child] # "stranger"

(* While commands come one at a time and the system answers them, a        *)
(* service that runs between two commands is the one in runtime.json, so   *)
(* there is one at most, and the next stop or start finds it               *)
(* (cli.py:179-191, 222-230, 251-266).                                     *)
FileNamesService ==
  calm /\ (\A c \in Commanders : ~Running(c)) => \A p \in Services : file = p

(* A start that reports success has its own child serving and recorded,    *)
(* one that finds the service running finds one that nobody has told to    *)
(* stop, and one that fails leaves no child behind that was not told, this *)
(* one even when other commands interfere (cli.py:184-190, 231-242).       *)
StartReportIsTrue ==
  [][\A c \in Commanders :
       LET ends(report) == cmd'[c].step = report /\ cmd[c].step # report
           child == cmd[c].child
       IN /\ ends("started") /\ calm' => phase[child] = "serving" /\ file = child
          /\ ends("already") /\ calm' => file \in Services
          /\ ends("failed") => child \notin Services]_lvars

(* A stop that reports anything but an exception has left no service, not  *)
(* even one that hangs in its shutdown if it was the recorded one          *)
(* (cli.py:251-274).  It is stated while calm, for without an answer from  *)
(* ps a live service counts as gone; and a child that an earlier, failed   *)
(* start has told to stop is no service any more, though it may still hang. *)
StopReportIsTrue ==
  [][\A c \in Commanders :
       calm' /\ cmd[c].step \in {"unlinkGone", "unlinkStopped"} /\ cmd'[c].step # cmd[c].step =>
         Services = {} /\ cmd[c].pid \notin Monitors]_lvars
=============================================================================
