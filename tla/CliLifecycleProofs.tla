------------------------- MODULE CliLifecycleProofs -------------------------
(***************************************************************************)
(* Proofs about CliLifecycle for any number of pids and terminals, with    *)
(* commands at the same time, crashes and failing ps calls.                *)
(*                                                                         *)
(* First that a command never signals a stranger; then that runtime.json   *)
(* names the service and that the reports of start and stop are true,      *)
(* from what a command that is alone knows at each of its steps.           *)
(***************************************************************************)
EXTENDS CliLifecycle, TLAPS

Phases == {"free", "starting", "serving", "closing", "dead", "stranger"}
Commands ==
  [step : Reports \cup StartSteps \cup StopSteps, pid : Pids \cup {None}, child : Pids \cup {None},
   again : BOOLEAN]

(* Steps of a start that waits for its child, and of a stop that has       *)
(* found a pid.                                                            *)
Parent(k) == k.step \in {"write", "health", "giveUp"}
Target(k) == k.step \in {"verify", "term", "wait", "kill"}

(* A command is fine if what it works on exists, its child has not been    *)
(* reaped, and the pid it is about to signal is nobody else's.             *)
Fine(ph, k) ==
  /\ k \in Commands
  /\ Target(k) => k.pid \in Pids
  /\ k.step \in {"term", "kill"} => ph[k.pid] # "stranger"
  /\ Parent(k) => k.child \in Pids /\ ph[k.child] \notin {"free", "stranger"}

(* The inductive invariant: no two commands wait for the same child, or    *)
(* one could reap it while the other still means to signal it.             *)
LTypes == phase \in [Pids -> Phases] /\ file \in Pids \cup {None} /\ cmd \in [Commanders -> Commands]
AllFine == \A c \in Commanders : Fine(phase, cmd[c])
OneParent ==
  \A c, d \in Commanders : Parent(cmd[c]) /\ Parent(cmd[d]) /\ cmd[c].child = cmd[d].child => c = d
LInv == LTypes /\ AllFine /\ OneParent

(* What is fine says that strangers are safe. *)
LEMMA FineIsSafe == LInv => StrangersAreSafe
BY DEF LInv, AllFine, Fine, Parent, StrangersAreSafe

(* At the start no command runs. *)
LEMMA LInvInit == LInit => LInv
BY DEF LInit, LInv, LTypes, AllFine, OneParent, Fine, Parent, Target, Ended, Commands, Phases,
       Reports, StartSteps, StopSteps

(* A command that moves on, while no process changes, to something fine    *)
(* that has no child, or the child it had already.                         *)
LEMMA Moves ==
  ASSUME LInv, NEW c \in Commanders, NEW k,
         cmd' = [cmd EXCEPT ![c] = k], phase' = phase, file' \in Pids \cup {None},
         Fine(phase, k), Parent(k) => Parent(cmd[c]) /\ k.child = cmd[c].child
  PROVE  LInv'
<1>1. LTypes'
  BY DEF LInv, LTypes, Fine
<1>2. AllFine'
  BY DEF LInv, LTypes, AllFine
<1>3. OneParent'
  <2> SUFFICES ASSUME NEW a \in Commanders, NEW b \in Commanders,
                      Parent(cmd'[a]), Parent(cmd'[b]), cmd'[a].child = cmd'[b].child
               PROVE  a = b
    BY DEF OneParent, Parent
  <2>1. \A e \in Commanders : Parent(cmd'[e]) => Parent(cmd[e]) /\ cmd'[e].child = cmd[e].child
    BY DEF LInv, LTypes
  <2> QED
    BY <2>1 DEF LInv, OneParent
<1> QED
  BY <1>1, <1>2, <1>3 DEF LInv

(* A process that goes on to another phase while all commands stay where   *)
(* they are: it only matters that a child is not freed under its parent    *)
(* and nobody takes over a pid about to be signalled.                      *)
LEMMA Becomes ==
  ASSUME LInv, NEW p \in Pids, NEW next \in Phases,
         phase' = [phase EXCEPT ![p] = next], file' = file, cmd' = cmd,
         next = "stranger" => \A c \in Commanders : cmd[c].step \in {"term", "kill"} => cmd[c].pid # p,
         next \in {"free", "stranger"} => \A c \in Commanders : Parent(cmd[c]) => cmd[c].child # p
  PROVE  LInv'
<1>1. LTypes'
  BY DEF LInv, LTypes
<1>2. AllFine'
  <2> SUFFICES ASSUME NEW c \in Commanders PROVE Fine(phase', cmd[c])
    BY DEF AllFine
  <2>1. Fine(phase, cmd[c]) /\ phase \in [Pids -> Phases]
    BY DEF LInv, AllFine, LTypes
  <2> QED
    BY <2>1 DEF Fine, Target
<1>3. OneParent'
  BY DEF LInv, OneParent
<1> QED
  BY <1>1, <1>2, <1>3 DEF LInv

(* A command that waits for its child sees it go: its pid is free, and the *)
(* command knows it no more.                                               *)
LEMMA ReapedFine ==
  ASSUME LInv, NEW c \in Commanders, Parent(cmd[c]), Reaped(c), file' = file
  PROVE  LInv'
<1> DEFINE p == cmd[c].child
           k == [cmd[c] EXCEPT !.step = "unlinkFailed", !.child = None]
<1>1. /\ phase \in [Pids -> Phases] /\ cmd \in [Commanders -> Commands] /\ p \in Pids
      /\ cmd[c] \in Commands
  BY DEF LInv, LTypes, AllFine, Fine
<1>2. cmd' = [cmd EXCEPT ![c] = k] /\ phase' = [phase EXCEPT ![p] = "free"]
  BY <1>1 DEF Reaped
<1>3. k \in Commands /\ k.step = "unlinkFailed"
  BY <1>1 DEF Commands, StartSteps
<1>4. LTypes'
  BY <1>1, <1>2, <1>3 DEF LInv, LTypes, Phases
<1>5. AllFine'
  <2> SUFFICES ASSUME NEW d \in Commanders PROVE Fine(phase', cmd'[d])
    BY DEF AllFine
  <2>1. CASE d = c
    BY <2>1, <1>1, <1>2, <1>3 DEF Fine, Target, Parent
  <2>2. CASE d # c
    <3>1. cmd'[d] = cmd[d] /\ Fine(phase, cmd[d]) /\ (Parent(cmd[d]) => cmd[d].child # p)
      BY <2>2, <1>1, <1>2 DEF LInv, AllFine, OneParent
    <3> QED
      BY <3>1, <1>1, <1>2 DEF Fine, Target
  <2> QED
    BY <2>1, <2>2
<1>6. OneParent'
  <2> SUFFICES ASSUME NEW a \in Commanders, NEW b \in Commanders,
                      Parent(cmd'[a]), Parent(cmd'[b]), cmd'[a].child = cmd'[b].child
               PROVE  a = b
    BY DEF OneParent, Parent
  <2>1. a # c /\ b # c
    BY <1>1, <1>2, <1>3 DEF Parent
  <2> QED
    BY <2>1, <1>1, <1>2 DEF LInv, OneParent
<1> QED
  BY <1>4, <1>5, <1>6 DEF LInv

(* Moves, for a command that goes to another step of its own. *)
LEMMA GoesTo ==
  ASSUME LInv, NEW c \in Commanders, NEW step \in StartSteps \cup StopSteps,
         Goto(c, step), phase' = phase, file' \in Pids \cup {None},
         step \in {"verify", "term", "wait", "kill"} => Target(cmd[c]),
         step \in {"term", "kill"} => phase[cmd[c].pid] # "stranger",
         step \in {"write", "health", "giveUp"} => Parent(cmd[c])
  PROVE  LInv'
<1> DEFINE k == [cmd[c] EXCEPT !.step = step]
<1>1. cmd \in [Commanders -> Commands] /\ cmd[c] \in Commands /\ Fine(phase, cmd[c])
  BY DEF LInv, LTypes, AllFine
<1>2. k \in Commands /\ k.step = step /\ k.pid = cmd[c].pid /\ k.child = cmd[c].child
  BY <1>1 DEF Commands
<1>3. cmd' = [cmd EXCEPT ![c] = k]
  BY <1>1 DEF Goto
<1>4. Fine(phase, k) /\ (Parent(k) => Parent(cmd[c]))
  BY <1>1, <1>2 DEF Fine, Parent, Target
<1> HIDE DEF k
<1> QED
  BY <1>2, <1>3, <1>4, Moves

(* Moves, for a command that ends. *)
LEMMA Ends ==
  ASSUME LInv, NEW c \in Commanders, NEW report \in Reports,
         End(c, report), phase' = phase, file' \in Pids \cup {None}
  PROVE  LInv'
<1>1. Fine(phase, Ended(report)) /\ ~Parent(Ended(report))
  BY DEF Fine, Ended, Commands, Parent, Target, Reports
<1>2. cmd' = [cmd EXCEPT ![c] = Ended(report)]
  BY DEF End
<1> QED
  BY <1>1, <1>2, Moves

(* Moves, for a stop that ends, or goes on with the start of a restart. *)
LEMMA StopEnds ==
  ASSUME LInv, NEW c \in Commanders, NEW report \in Reports,
         EndStop(c, report), phase' = phase, file' \in Pids \cup {None}
  PROVE  LInv'
<1> DEFINE k == [Ended("idle") EXCEPT !.step = "look"]
<1>1. CASE cmd[c].again
  <2>1. Fine(phase, k) /\ ~Parent(k)
    BY DEF Fine, Ended, Commands, Parent, Target, StartSteps
  <2>2. cmd' = [cmd EXCEPT ![c] = k]
    BY <1>1 DEF EndStop
  <2> QED
    BY <2>1, <2>2, Moves
<1>2. CASE ~cmd[c].again
  BY <1>2, Ends DEF EndStop
<1> QED
  BY <1>1, <1>2

(* Every step of a command keeps the invariant. *)
LEMMA StepFine == ASSUME LInv, NEW c \in Commanders, Step(c) PROVE LInv'
<1>1. /\ file \in Pids \cup {None} /\ phase \in [Pids -> Phases]
      /\ cmd \in [Commanders -> Commands] /\ cmd[c] \in Commands /\ Fine(phase, cmd[c])
  BY DEF LInv, LTypes, AllFine
<1>2. CASE Look(c)
  BY <1>1, <1>2, GoesTo, Ends DEF Look, system, StartSteps, Reports
<1>3. CASE Unlink(c)
  <2>1. file' \in Pids \cup {None} /\ phase' = phase
    BY <1>3 DEF Unlink, system
  <2>2. {"failed", "notRunning", "stopped"} \subseteq Reports /\ "port" \in StartSteps
    BY DEF Reports, StartSteps
  <2> QED
    BY <1>3, <2>1, <2>2, GoesTo, Ends, StopEnds DEF Unlink
<1>4. CASE WaitForPort(c)
  BY <1>1, <1>4, GoesTo, Ends DEF WaitForPort, system, StartSteps, Reports
<1>5. CASE Spawn(c)
  <2>1. PICK p \in Pids :
          /\ phase[p] = "free"
          /\ phase' = [phase EXCEPT ![p] = "starting"]
          /\ cmd' = [cmd EXCEPT ![c].step = "write", ![c].child = p]
    BY <1>5 DEF Spawn
  <2> DEFINE k == [cmd[c] EXCEPT !.step = "write", !.child = p]
  <2>2. cmd' = [cmd EXCEPT ![c] = k] /\ file' = file
    BY <1>1, <1>5, <2>1 DEF Spawn
  <2>3. k \in Commands /\ k.step = "write" /\ k.child = p
    BY <1>1 DEF Commands, StartSteps
  <2>4. LTypes'
    BY <1>1, <2>1, <2>2, <2>3 DEF LTypes, Phases
  <2>5. Fine(phase', k)
    BY <1>1, <2>1, <2>3 DEF Fine, Target, Parent
  <2>6. \A d \in Commanders : Fine(phase, cmd[d]) /\ (Parent(cmd[d]) => cmd[d].child # p)
    BY <2>1 DEF LInv, AllFine, Fine
  <2>7. \A d \in Commanders : Fine(phase', cmd[d])
    BY <1>1, <2>1, <2>6 DEF Fine, Target
  <2>8. AllFine'
    BY <1>1, <2>2, <2>5, <2>7 DEF AllFine
  <2>9. OneParent'
    BY <1>1, <2>2, <2>3, <2>6 DEF LInv, OneParent, Parent
  <2> QED
    BY <2>4, <2>8, <2>9 DEF LInv
<1>6. CASE WriteState(c)
  <2>1. Parent(cmd[c]) /\ file' \in Pids \cup {None} /\ phase' = phase /\ Goto(c, "health")
    BY <1>1, <1>6 DEF WriteState, Fine, Parent, system
  <2> QED
    BY <2>1, GoesTo DEF StartSteps
<1>7. CASE WaitForHealth(c)
  <2>1. Parent(cmd[c]) /\ file' = file
    BY <1>7 DEF WaitForHealth, Parent
  <2>2. CASE Reaped(c)
    BY <2>1, <2>2, ReapedFine
  <2>3. CASE End(c, "started") /\ UNCHANGED phase
    BY <1>1, <2>1, <2>3, Ends DEF Reports
  <2>4. CASE Goto(c, "giveUp") /\ UNCHANGED phase
    BY <1>1, <2>1, <2>4, GoesTo DEF StartSteps
  <2> QED
    BY <1>7, <2>2, <2>3, <2>4 DEF WaitForHealth
<1>8. CASE GiveUp(c)
  <2>1. Parent(cmd[c]) /\ file' = file
    BY <1>8 DEF GiveUp, Parent
  <2>2. CASE Reaped(c)
    BY <2>1, <2>2, ReapedFine
  <2>3. CASE Goto(c, "unlinkFailed") /\ UNCHANGED phase
    BY <1>1, <2>1, <2>3, GoesTo DEF StartSteps
  <2> QED
    BY <1>8, <2>2, <2>3 DEF GiveUp
<1>9. CASE Find(c)
  <2> DEFINE next == IF file # None /\ Alive(file) THEN "verify" ELSE "unlinkGone"
             k == [cmd[c] EXCEPT !.pid = file, !.step = next]
  <2>1. cmd' = [cmd EXCEPT ![c] = k] /\ phase' = phase /\ file' = file
    BY <1>1, <1>9 DEF Find, system
  <2>2. k \in Commands /\ k.pid = file /\ k.step = next
    BY <1>1 DEF Commands, StopSteps
  <2>3. Fine(phase, k) /\ ~Parent(k)
    BY <1>1, <2>2 DEF Fine, Target, Parent
  <2> HIDE DEF k
  <2> QED
    BY <1>1, <2>1, <2>3, Moves
<1>10. CASE Verify(c)
  <2>1. Target(cmd[c]) /\ phase' = phase /\ file' = file
    BY <1>10 DEF Verify, Target, system
  <2>2. PICK answer \in BOOLEAN :
          IsMonitor(cmd[c].pid, answer) /\ Goto(c, IF answer THEN "term" ELSE "unlinkGone")
    BY <1>10 DEF Verify
  <2>3. CASE answer
    BY <1>1, <2>1, <2>2, <2>3, GoesTo DEF IsMonitor, Monitors, StopSteps
  <2>4. CASE ~answer
    BY <1>1, <2>1, <2>2, <2>4, GoesTo DEF StopSteps
  <2> QED
    BY <2>3, <2>4
<1>11. CASE Terminate(c)
  <2>1. Target(cmd[c]) /\ phase' = phase /\ file' = file
    BY <1>11 DEF Terminate, Target
  <2>2. CASE Goto(c, "wait")
    BY <1>1, <2>1, <2>2, GoesTo DEF StopSteps
  <2>3. CASE End(c, "error")
    BY <1>1, <2>1, <2>3, Ends DEF Reports
  <2> QED
    BY <1>11, <2>2, <2>3 DEF Terminate
<1>12. CASE Await(c)
  <2>1. Target(cmd[c]) /\ phase' = phase /\ file' = file
    BY <1>12 DEF Await, Target, system
  <2>2. CASE Goto(c, "unlinkStopped")
    BY <1>1, <2>1, <2>2, GoesTo DEF StopSteps
  <2>3. CASE IsMonitor(cmd[c].pid, TRUE) /\ Goto(c, "kill")
    BY <1>1, <2>1, <2>3, GoesTo DEF IsMonitor, Monitors, StopSteps
  <2> QED
    BY <1>12, <2>2, <2>3 DEF Await
<1>13. CASE Kill(c)
  <2>1. file' = file /\ Target(cmd[c]) /\ cmd[c].pid \in Pids
    BY <1>1, <1>13 DEF Kill, Fine, Target
  <2>2. CASE End(c, "error") /\ UNCHANGED phase
    BY <1>1, <2>1, <2>2, Ends DEF Reports
  <2>3. CASE phase' = [phase EXCEPT ![cmd[c].pid] = "dead"] /\ Goto(c, "unlinkStopped")
    <3> DEFINE k == [cmd[c] EXCEPT !.step = "unlinkStopped"]
    <3>1. cmd' = [cmd EXCEPT ![c] = k]
      BY <1>1, <2>3 DEF Goto
    <3>2. k \in Commands /\ k.step = "unlinkStopped"
      BY <1>1 DEF Commands, StopSteps
    <3>3. LTypes'
      BY <1>1, <2>1, <2>3, <3>1, <3>2 DEF LTypes, Phases
    <3>4. \A d \in Commanders : Fine(phase', cmd[d])
      BY <1>1, <2>1, <2>3 DEF LInv, AllFine, Fine, Target
    <3>5. AllFine'
      BY <1>1, <3>1, <3>2, <3>4 DEF AllFine, Fine, Target, Parent
    <3>6. OneParent'
      BY <1>1, <3>1, <3>2 DEF LInv, OneParent, Parent
    <3> QED
      BY <3>3, <3>5, <3>6 DEF LInv
  <2> QED
    BY <1>13, <2>2, <2>3 DEF Kill
<1> QED
  BY <1>2, <1>3, <1>4, <1>5, <1>6, <1>7, <1>8, <1>9, <1>10, <1>11, <1>12, <1>13 DEF Step

(* Every step of the machine's processes keeps it. *)
LEMMA EnvironmentFine == ASSUME LInv, Environment PROVE LInv'
<1>1. /\ file \in Pids \cup {None} /\ phase \in [Pids -> Phases]
      /\ \A c \in Commanders : Fine(phase, cmd[c])
  BY DEF LInv, LTypes, AllFine
<1>2. CASE ForeignPort
  BY <1>2 DEF ForeignPort, LInv, LTypes, AllFine, OneParent
<1>3. ASSUME NEW p \in Pids, Bind(p) \/ ShutDown(p) \/ Crash(p)
      PROVE  LInv'
  <2>1. PICK next \in {"serving", "closing", "dead"} : Become(p, next)
    BY <1>3 DEF Bind, ShutDown, Crash
  <2> QED
    BY <2>1, Becomes DEF Become, Phases
<1>4. ASSUME NEW p \in Pids, Reap(p)
      PROVE  LInv'
  BY <1>4, Becomes DEF Reap, Become, Phases
<1>5. ASSUME NEW p \in Pids, Reuse(p)
      PROVE  LInv'
  BY <1>1, <1>5, Becomes DEF Reuse, Become, Phases, Fine
<1>6. ASSUME NEW p \in Pids, StrangerExits(p)
      PROVE  LInv'
  BY <1>1, <1>6, Becomes DEF StrangerExits, Become, Phases, Fine
<1> QED
  BY <1>2, <1>3, <1>4, <1>5, <1>6 DEF Environment

(* Every step keeps the invariant. *)
LEMMA LInvNext == LInv /\ [LNext]_lvars => LInv'
<1> SUFFICES ASSUME LInv, [LNext]_lvars PROVE LInv'
  OBVIOUS
<1>1. ASSUME NEW c \in Commanders, Give(c)
      PROVE  LInv'
  <2>1. PICK first \in {"look", "find"}, again \in BOOLEAN :
          cmd' = [cmd EXCEPT ![c] = [Ended("idle") EXCEPT !.step = first, !.again = again]]
    BY <1>1 DEF Give
  <2> DEFINE k == [Ended("idle") EXCEPT !.step = first, !.again = again]
  <2>2. Fine(phase, k) /\ ~Parent(k)
    BY DEF Fine, Ended, Commands, Parent, Target, StartSteps, StopSteps
  <2>3. phase' = phase /\ file' \in Pids \cup {None}
    BY <1>1 DEF Give, system, LInv, LTypes
  <2> HIDE DEF k
  <2> QED
    BY <2>1, <2>2, <2>3, Moves DEF k
<1>2. ASSUME NEW c \in Commanders, Interrupt(c)
      PROVE  LInv'
  BY <1>2, Ends DEF Interrupt, system, Reports, LInv, LTypes
<1>3. ASSUME NEW c \in Commanders, Step(c)
      PROVE  LInv'
  BY <1>3, StepFine
<1>4. CASE UNCHANGED lvars
  BY <1>4 DEF lvars, system, LInv, LTypes, AllFine, OneParent
<1> QED
  BY <1>1, <1>2, <1>3, <1>4, EnvironmentFine DEF LNext

(* With any number of terminals and pids, no command is ever about to      *)
(* signal a process that is not the service.                               *)
THEOREM StrangersNeverSignalled == LSpec => []StrangersAreSafe
BY LInvInit, LInvNext, FineIsSafe, PTL DEF LSpec

----------------------------------------------------------------------------
(* What commands report.                                                   *)

(* The record names the only service there may be, and it has not been     *)
(* told to stop.                                                           *)
Recorded == Services \subseteq {file} /\ file \notin told

(* What a command that nothing disturbs knows at each of its steps.        *)
Sound(c) ==
  /\ cmd[c].step \in {"look", "find", "verify", "term"} => Recorded
  /\ cmd[c].step \in {"verify", "term", "wait", "kill"} => cmd[c].pid = file
  /\ cmd[c].step \in {"wait", "kill", "unlinkGone", "unlinkStopped",
                      "unlinkStale", "port", "spawn", "unlinkFailed"} => Services = {}
  /\ cmd[c].step \in {"unlinkGone", "unlinkStopped"} => cmd[c].pid \notin Monitors
  /\ cmd[c].step = "port" => file = None
  /\ cmd[c].step = "spawn" => \A p \in Pids : phase[p] # "serving"
  /\ Parent(cmd[c]) =>
       /\ Services \subseteq {cmd[c].child} /\ cmd[c].child \notin told
       /\ \A p \in Pids : phase[p] = "serving" => p = cmd[c].child
  /\ cmd[c].step \in {"health", "giveUp"} => file = cmd[c].child

CalmInv ==
  calm =>
    /\ \A c, d \in Commanders : Running(c) /\ Running(d) => c = d
    /\ \A c \in Commanders : Running(c) => Sound(c)
    /\ (\A c \in Commanders : ~Running(c)) => Recorded

(* Only services are told to stop.  A command has a child from its spawn   *)
(* until it has reaped it or ended; nobody else frees the child's pid; and *)
(* a start that has failed has told its child.                             *)
ChildInv ==
  /\ told \subseteq Monitors
  /\ \A c \in Commanders : cmd[c].child # None =>
       /\ Parent(cmd[c]) \/ cmd[c].step = "unlinkFailed"
       /\ phase[cmd[c].child] \notin {"free", "stranger"}
       /\ cmd[c].step = "unlinkFailed" => cmd[c].child \notin Services
  /\ \A c, d \in Commanders : cmd[c].child # None /\ cmd[c].child = cmd[d].child => c = d

(* Commands have their type. *)
CommandsTyped == cmd \in [Commanders -> Commands]

(* A command goes on, and its record with it. *)
LEMMA GotoIs ==
  ASSUME CommandsTyped, NEW c \in Commanders, NEW step, Goto(c, step)
  PROVE  /\ cmd'[c].step = step /\ cmd'[c].pid = cmd[c].pid /\ cmd'[c].child = cmd[c].child
         /\ \A d \in Commanders \ {c} : cmd'[d] = cmd[d]
BY DEF CommandsTyped, Goto, Commands

(* A command ends, and works on nothing any more. *)
LEMMA EndIs ==
  ASSUME CommandsTyped, NEW c \in Commanders, NEW report, End(c, report)
  PROVE  /\ cmd'[c].step = report /\ cmd'[c].pid = None /\ cmd'[c].child = None
         /\ \A d \in Commanders \ {c} : cmd'[d] = cmd[d]
BY DEF CommandsTyped, End, Ended

(* A stop ends, or becomes the start of a restart. *)
LEMMA EndStopIs ==
  ASSUME CommandsTyped, NEW c \in Commanders, NEW report, EndStop(c, report)
  PROVE  /\ cmd'[c].step \in {report, "look"} /\ cmd'[c].child = None
         /\ \A d \in Commanders \ {c} : cmd'[d] = cmd[d]
<1>1. CASE cmd[c].again
  <2>1. cmd' = [cmd EXCEPT ![c] = [Ended("idle") EXCEPT !.step = "look"]]
    BY <1>1 DEF EndStop
  <2> QED BY <2>1 DEF CommandsTyped, Ended
<1>2. CASE ~ cmd[c].again
  BY <1>2, EndIs DEF EndStop
<1> QED BY <1>1, <1>2

----------------------------------------------------------------------------
(* Children.                                                               *)

(* A command moves, whatever its step does to the processes. *)
LEMMA ChildMoves ==
  ASSUME ChildInv, CommandsTyped, NEW c \in Commanders,
         \A d \in Commanders \ {c} : cmd'[d] = cmd[d],
         told' \subseteq Monitors',
         \A d \in Commanders \ {c} : cmd[d].child # None =>
           /\ phase'[cmd[d].child] \notin {"free", "stranger"}
           /\ cmd[d].child \notin Services => cmd[d].child \notin Services',
         cmd'[c].child # None =>
           /\ Parent(cmd'[c]) \/ cmd'[c].step = "unlinkFailed"
           /\ phase'[cmd'[c].child] \notin {"free", "stranger"}
           /\ cmd'[c].step = "unlinkFailed" => cmd'[c].child \notin Services'
           /\ \A d \in Commanders \ {c} : cmd[d].child # cmd'[c].child
  PROVE  ChildInv'
<1>1. ASSUME NEW d \in Commanders, cmd'[d].child # None
      PROVE  /\ Parent(cmd'[d]) \/ cmd'[d].step = "unlinkFailed"
             /\ phase'[cmd'[d].child] \notin {"free", "stranger"}
             /\ cmd'[d].step = "unlinkFailed" => cmd'[d].child \notin Services'
  <2>1. CASE d = c
    BY <1>1, <2>1
  <2>2. CASE d # c
    <3>1. cmd'[d] = cmd[d] /\ cmd[d].child # None
      BY <1>1, <2>2
    <3>2. /\ Parent(cmd[d]) \/ cmd[d].step = "unlinkFailed"
          /\ cmd[d].step = "unlinkFailed" => cmd[d].child \notin Services
      BY <3>1 DEF ChildInv
    <3> QED BY <2>2, <3>1, <3>2
  <2> QED BY <2>1, <2>2
<1>2. ASSUME NEW a \in Commanders, NEW b \in Commanders,
             cmd'[a].child # None, cmd'[a].child = cmd'[b].child
      PROVE  a = b
  <2>1. CASE a # c /\ b # c
    BY <1>2, <2>1 DEF ChildInv
  <2>2. CASE a = c \/ b = c
    BY <1>2, <2>2
  <2> QED BY <2>1, <2>2
<1> QED BY <1>1, <1>2 DEF ChildInv, Parent

(* A command moves and no process changes. *)
LEMMA ChildKept ==
  ASSUME ChildInv, CommandsTyped, NEW c \in Commanders,
         \A d \in Commanders \ {c} : cmd'[d] = cmd[d],
         UNCHANGED <<phase, told>>,
         cmd'[c].child # None =>
           /\ cmd'[c].child = cmd[c].child
           /\ Parent(cmd'[c])
  PROVE  ChildInv'
<1>1. Monitors' = Monitors /\ Services' = Services
  BY DEF Services, Monitors
<1>2. \A d \in Commanders \ {c} : cmd[d].child # None => phase'[cmd[d].child] \notin {"free", "stranger"}
  BY DEF ChildInv
<1>3. cmd'[c].child # None =>
           /\ Parent(cmd'[c])
           /\ phase'[cmd'[c].child] \notin {"free", "stranger"}
           /\ cmd'[c].step # "unlinkFailed"
           /\ \A d \in Commanders \ {c} : cmd[d].child # cmd'[c].child
  BY DEF ChildInv, Parent
<1> QED BY <1>1, <1>2, <1>3, ChildMoves DEF ChildInv

(* A child is reaped by its parent alone. *)
LEMMA ChildReaped ==
  ASSUME LInv, ChildInv, NEW c \in Commanders, Parent(cmd[c]),
         phase[cmd[c].child] = "dead", Reaped(c), told' = told
  PROVE  ChildInv'
<1> DEFINE p == cmd[c].child
<1>1. /\ CommandsTyped /\ phase \in [Pids -> Phases] /\ p \in Pids /\ p # None
  BY PidsAssumption DEF LInv, LTypes, AllFine, Fine, CommandsTyped
<1>2. /\ phase' = [phase EXCEPT ![p] = "free"]
      /\ cmd'[c].child = None
      /\ \A d \in Commanders \ {c} : cmd'[d] = cmd[d]
  BY <1>1 DEF Reaped, CommandsTyped, Commands
<1>3. told' \subseteq Monitors'
  BY <1>1, <1>2 DEF ChildInv, Monitors
<1>4. \A d \in Commanders \ {c} : cmd[d].child # None =>
           /\ phase'[cmd[d].child] \notin {"free", "stranger"}
           /\ cmd[d].child \notin Services => cmd[d].child \notin Services'
  <2> SUFFICES ASSUME NEW d \in Commanders \ {c}, cmd[d].child # None
               PROVE  /\ phase'[cmd[d].child] \notin {"free", "stranger"}
                      /\ cmd[d].child \notin Services => cmd[d].child \notin Services'
    OBVIOUS
  <2>1. cmd[d].child # p /\ cmd[d].child \in Pids /\ phase[cmd[d].child] \notin {"free", "stranger"}
    BY <1>1 DEF ChildInv, CommandsTyped, Commands
  <2>2. phase'[cmd[d].child] = phase[cmd[d].child]
    BY <1>1, <1>2, <2>1
  <2> QED BY <2>1, <2>2 DEF Services, Monitors
<1> QED BY <1>1, <1>2, <1>3, <1>4, ChildMoves

(* Every step of a command keeps children. *)
LEMMA ChildStep == ASSUME LInv, ChildInv, NEW c \in Commanders, Step(c) PROVE ChildInv'
<1>0. /\ CommandsTyped /\ phase \in [Pids -> Phases] /\ file \in Pids \cup {None}
      /\ cmd[c] \in Commands /\ Fine(phase, cmd[c])
      /\ cmd[c].child # None => Parent(cmd[c]) \/ cmd[c].step = "unlinkFailed"
  BY DEF LInv, LTypes, AllFine, CommandsTyped, ChildInv
<1>c. ASSUME cmd[c].step \notin {"write", "health", "giveUp", "unlinkFailed"} PROVE cmd[c].child = None
  BY <1>0, <1>c DEF Parent
<1>g. ASSUME NEW step, Goto(c, step), UNCHANGED <<phase, told>>,
             cmd[c].child # None => step \in {"write", "health", "giveUp"}
      PROVE  ChildInv'
  BY <1>0, <1>g, GotoIs, ChildKept DEF Parent
<1>e. ASSUME NEW report, End(c, report), UNCHANGED <<phase, told>> PROVE ChildInv'
  BY <1>0, <1>e, EndIs, ChildKept
<1>1. CASE Look(c)
  <2>1. cmd[c].child = None /\ UNCHANGED <<phase, told>>
    BY <1>c, <1>1 DEF Look, system
  <2> QED BY <1>1, <1>g, <1>e, <2>1 DEF Look
<1>2. CASE Unlink(c)
  <2>1. UNCHANGED <<phase, told>>
    BY <1>2 DEF Unlink, system
  <2>2. CASE cmd[c].step = "unlinkStale" /\ Goto(c, "port")
    BY <1>c, <1>g, <2>1, <2>2
  <2>3. CASE End(c, "failed")
    BY <1>e, <2>1, <2>3
  <2>4. ASSUME NEW report, EndStop(c, report) PROVE ChildInv'
    BY <1>0, <2>1, <2>4, EndStopIs, ChildKept
  <2> QED BY <1>2, <2>2, <2>3, <2>4 DEF Unlink
<1>3. CASE WaitForPort(c)
  <2>1. cmd[c].child = None /\ UNCHANGED <<phase, told>>
    BY <1>c, <1>3 DEF WaitForPort, system
  <2> QED BY <1>3, <1>g, <1>e, <2>1 DEF WaitForPort
<1>4. CASE Spawn(c)
  <2>1. PICK p \in Pids :
          /\ phase[p] = "free"
          /\ phase' = [phase EXCEPT ![p] = "starting"]
          /\ cmd' = [cmd EXCEPT ![c].step = "write", ![c].child = p]
    BY <1>4 DEF Spawn
  <2>2. /\ cmd'[c].step = "write" /\ cmd'[c].child = p /\ told' = told
        /\ \A d \in Commanders \ {c} : cmd'[d] = cmd[d]
    BY <1>0, <1>4, <2>1 DEF Spawn, CommandsTyped, Commands
  <2>3. told' \subseteq Monitors'
    BY <1>0, <2>1, <2>2 DEF ChildInv, Monitors
  <2>4. ASSUME NEW d \in Commanders \ {c}, cmd[d].child # None
        PROVE  /\ cmd[d].child # p
               /\ phase'[cmd[d].child] \notin {"free", "stranger"}
               /\ cmd[d].child \notin Services => cmd[d].child \notin Services'
    <3>1. cmd[d].child # p /\ cmd[d].child \in Pids /\ phase[cmd[d].child] \notin {"free", "stranger"}
      BY <1>0, <2>1, <2>4 DEF ChildInv, CommandsTyped, Commands
    <3>2. phase'[cmd[d].child] = phase[cmd[d].child]
      BY <1>0, <2>1, <3>1
    <3> QED BY <2>2, <3>1, <3>2 DEF Services, Monitors
  <2>5. phase'[p] = "starting" /\ Parent(cmd'[c]) /\ p # None
    BY <1>0, <2>1, <2>2, PidsAssumption DEF Parent
  <2> QED BY <1>0, <2>2, <2>3, <2>4, <2>5, ChildMoves
<1>5. CASE WriteState(c)
  <2>1. UNCHANGED <<phase, told>> /\ Goto(c, "health")
    BY <1>5 DEF WriteState, system
  <2> QED BY <1>g, <2>1
<1>6. CASE WaitForHealth(c)
  <2>1. Parent(cmd[c]) /\ told' = told
    BY <1>6 DEF WaitForHealth, Parent
  <2>2. CASE phase[cmd[c].child] = "dead" /\ Reaped(c)
    BY <2>1, <2>2, ChildReaped
  <2>3. CASE End(c, "started") /\ UNCHANGED phase
    BY <1>e, <2>1, <2>3
  <2>4. CASE Goto(c, "giveUp") /\ UNCHANGED phase
    BY <1>g, <2>1, <2>4
  <2> QED BY <1>6, <2>2, <2>3, <2>4 DEF WaitForHealth
<1>7. CASE GiveUp(c)
  <2>1. Parent(cmd[c]) /\ cmd[c].child \in Pids /\ phase[cmd[c].child] \notin {"free", "stranger"}
    BY <1>0, <1>7 DEF GiveUp, Parent, Fine
  <2>2. CASE phase[cmd[c].child] = "dead"
    BY <1>7, <2>1, <2>2, ChildReaped DEF GiveUp
  <2>3. CASE phase[cmd[c].child] # "dead"
    <3>1. /\ told' = told \cup {cmd[c].child} /\ phase' = phase
          /\ cmd'[c].step = "unlinkFailed" /\ cmd'[c].child = cmd[c].child
          /\ \A d \in Commanders \ {c} : cmd'[d] = cmd[d]
      BY <1>0, <1>7, <2>3, GotoIs DEF GiveUp
    <3>2. Monitors' = Monitors /\ cmd[c].child \in Monitors
      BY <1>0, <2>1, <2>3, <3>1 DEF Monitors, Phases
    <3>3. told' \subseteq Monitors'
      BY <3>1, <3>2 DEF ChildInv
    <3>4. cmd'[c].child \notin Services' /\ \A p : p \notin Services => p \notin Services'
      BY <3>1, <3>2 DEF Services
    <3>5. \A d \in Commanders \ {c} : cmd[d].child # None =>
            phase'[cmd[d].child] \notin {"free", "stranger"}
      BY <3>1 DEF ChildInv
    <3>6. \A d \in Commanders \ {c} : cmd[d].child # cmd'[c].child
      BY <2>1, <3>1, PidsAssumption DEF ChildInv
    <3> QED BY <1>0, <2>1, <3>1, <3>3, <3>4, <3>5, <3>6, ChildMoves
  <2> QED BY <2>2, <2>3
<1>8. CASE Find(c)
  <2>1. /\ cmd'[c].child = cmd[c].child /\ UNCHANGED <<phase, told>>
        /\ \A d \in Commanders \ {c} : cmd'[d] = cmd[d]
    BY <1>0, <1>8 DEF Find, system, CommandsTyped, Commands
  <2>2. cmd[c].child = None
    BY <1>c, <1>8 DEF Find
  <2> QED BY <1>0, <2>1, <2>2, ChildKept
<1>9. CASE Verify(c)
  <2>1. cmd[c].child = None /\ UNCHANGED <<phase, told>>
    BY <1>c, <1>9 DEF Verify, system
  <2> QED BY <1>9, <1>g, <2>1 DEF Verify
<1>10. CASE Terminate(c)
  <2>1. cmd[c].child = None /\ phase' = phase
    BY <1>c, <1>10 DEF Terminate
  <2>2. /\ cmd'[c].child = None
        /\ \A d \in Commanders \ {c} : cmd'[d] = cmd[d]
    BY <1>0, <1>10, <2>1, GotoIs, EndIs DEF Terminate
  <2>3. told' \in {told, told \cup ({cmd[c].pid} \cap Monitors)} /\ Monitors' = Monitors
    BY <1>10, <2>1 DEF Terminate, Monitors
  <2>4. told' \subseteq Monitors' /\ \A p : p \notin Services => p \notin Services'
    BY <2>3 DEF ChildInv, Services
  <2>5. \A d \in Commanders \ {c} : cmd[d].child # None =>
            phase'[cmd[d].child] \notin {"free", "stranger"}
    BY <2>1 DEF ChildInv
  <2> QED BY <1>0, <2>2, <2>4, <2>5, ChildMoves
<1>11. CASE Await(c)
  <2>1. cmd[c].child = None /\ UNCHANGED <<phase, told>>
    BY <1>c, <1>11 DEF Await, system
  <2> QED BY <1>11, <1>g, <2>1 DEF Await
<1>12. CASE Kill(c)
  <2>1. cmd[c].child = None
    BY <1>c, <1>12 DEF Kill
  <2>2. CASE UNCHANGED <<phase, told>> /\ End(c, "error")
    BY <1>e, <2>2
  <2>3. CASE /\ phase' = [phase EXCEPT ![cmd[c].pid] = "dead"]
             /\ told' = told \ {cmd[c].pid}
             /\ Goto(c, "unlinkStopped")
    <3>1. /\ cmd'[c].child = None
          /\ \A d \in Commanders \ {c} : cmd'[d] = cmd[d]
      BY <1>0, <2>1, <2>3, GotoIs
    <3>2. told' \subseteq Monitors'
      BY <1>0, <2>3 DEF ChildInv, Monitors
    <3>3. \A p \in Pids : p \notin Services => p \notin Services'
      BY <1>0, <2>3 DEF Services, Monitors
    <3>4. \A d \in Commanders \ {c} : cmd[d].child # None =>
            cmd[d].child \in Pids /\ phase'[cmd[d].child] \notin {"free", "stranger"}
      BY <1>0, <2>3 DEF ChildInv, CommandsTyped, Commands
    <3> QED BY <1>0, <3>1, <3>2, <3>3, <3>4, ChildMoves
  <2> QED BY <1>12, <2>2, <2>3 DEF Kill
<1> QED
  BY <1>1, <1>2, <1>3, <1>4, <1>5, <1>6, <1>7, <1>8, <1>9, <1>10, <1>11, <1>12 DEF Step

(* What the machine's processes do to the services: none comes, and only   *)
(* one that has not been told takes the port.                              *)
Subsides ==
  /\ UNCHANGED <<cmd, file, calm>>
  /\ told' \subseteq told /\ Monitors' \subseteq Monitors /\ Services' \subseteq Services
  /\ told' \subseteq Monitors'
  /\ \A p \in Pids : phase'[p] = "serving" => phase[p] = "serving" \/ p \in Services
  /\ \A c \in Commanders : cmd[c].child # None => phase'[cmd[c].child] \notin {"free", "stranger"}

(* That is all they do. *)
LEMMA EnvironmentSubsides == ASSUME LInv, ChildInv, Environment PROVE Subsides
<1>0. /\ CommandsTyped /\ phase \in [Pids -> Phases] /\ told \subseteq Monitors
      /\ \A c \in Commanders : cmd[c].child # None =>
           cmd[c].child \in Pids /\ phase[cmd[c].child] \notin {"free", "stranger"}
  BY DEF LInv, LTypes, CommandsTyped, ChildInv, Commands
<1>1. CASE ForeignPort
  BY <1>0, <1>1 DEF ForeignPort, Subsides, Monitors, Services
<1>2. ASSUME NEW p \in Pids, NEW next \in Phases, Become(p, next),
             next \in {"free", "stranger"} =>
               phase[p] \notin {"starting", "serving", "closing"}
               /\ \A c \in Commanders : cmd[c].child # p,
             next \in {"starting", "serving", "closing"} => p \in Monitors,
             next = "serving" => p \in Services
      PROVE  Subsides
  <2>1. /\ phase' = [phase EXCEPT ![p] = next] /\ UNCHANGED <<cmd, file, calm>>
        /\ told' = IF next = "dead" THEN told \ {p} ELSE told
    BY <1>2 DEF Become
  <2>2. Monitors' \subseteq Monitors
    BY <1>0, <1>2, <2>1 DEF Monitors
  <2>3. told' \subseteq told /\ told' \subseteq Monitors'
    BY <1>0, <1>2, <2>1 DEF Monitors, Phases
  <2>4. Services' \subseteq Services
    <3>1. CASE next = "dead"
      BY <1>0, <2>1, <2>2, <3>1 DEF Services, Monitors
    <3>2. CASE next # "dead"
      BY <2>1, <2>2, <3>2 DEF Services
    <3> QED BY <3>1, <3>2
  <2>5. \A q \in Pids : phase'[q] = "serving" => phase[q] = "serving" \/ q \in Services
    BY <1>0, <1>2, <2>1
  <2>6. \A c \in Commanders : cmd[c].child # None => phase'[cmd[c].child] \notin {"free", "stranger"}
    BY <1>0, <1>2, <2>1
  <2> QED BY <2>1, <2>2, <2>3, <2>4, <2>5, <2>6 DEF Subsides
<1>3. ASSUME NEW p \in Pids, Bind(p) PROVE Subsides
  <2>1. p \in Monitors /\ p \in Services
    BY <1>3 DEF Bind, Monitors, Services
  <2> QED BY <1>2, <1>3, <2>1 DEF Bind, Phases
<1>4. ASSUME NEW p \in Pids, ShutDown(p) \/ Crash(p) PROVE Subsides
  BY <1>0, <1>2, <1>4 DEF ShutDown, Crash, Phases
<1>5. ASSUME NEW p \in Pids, Reap(p) PROVE Subsides
  BY <1>2, <1>5 DEF Reap, Phases
<1>6. ASSUME NEW p \in Pids, Reuse(p) \/ StrangerExits(p) PROVE Subsides
  <2>1. phase[p] \in {"free", "stranger"} /\ \A c \in Commanders : cmd[c].child # p
    BY <1>0, <1>6, PidsAssumption DEF Reuse, StrangerExits
  <2>2. Become(p, "free") \/ Become(p, "stranger")
    BY <1>6 DEF Reuse, StrangerExits
  <2> QED BY <1>2, <2>1, <2>2 DEF Phases
<1> QED BY <1>1, <1>3, <1>4, <1>5, <1>6 DEF Environment

(* So they disturb no children. *)
LEMMA ChildSubsides == ASSUME ChildInv, Subsides PROVE ChildInv'
BY DEF ChildInv, Subsides, Parent

(* Nor what a command that is alone knows. *)
LEMMA CalmSubsides == ASSUME LInv, ChildInv, CalmInv, Subsides PROVE CalmInv'
<1>0. /\ UNCHANGED <<cmd, file, calm>>
      /\ told' \subseteq told /\ Monitors' \subseteq Monitors /\ Services' \subseteq Services
      /\ \A p \in Pids : phase'[p] = "serving" => phase[p] = "serving" \/ p \in Services
  BY DEF Subsides
<1>1. Recorded => Recorded'
  BY <1>0 DEF Recorded
<1>2. ASSUME NEW c \in Commanders, Sound(c) PROVE Sound(c)'
  <2>1. cmd'[c] = cmd[c] /\ file' = file
    BY <1>0
  <2>2. cmd[c].step = "spawn" => \A p \in Pids : phase'[p] # "serving"
    BY <1>0, <1>2 DEF Sound
  <2>3. Parent(cmd[c]) =>
       /\ Services' \subseteq {cmd[c].child} /\ cmd[c].child \notin told'
       /\ \A p \in Pids : phase'[p] = "serving" => p = cmd[c].child
    BY <1>0, <1>2 DEF Sound
  <2>4. /\ cmd[c].step \in {"look", "find", "verify", "term"} => Recorded'
        /\ cmd[c].step \in {"wait", "kill", "unlinkGone", "unlinkStopped",
                            "unlinkStale", "port", "spawn", "unlinkFailed"} => Services' = {}
        /\ cmd[c].step \in {"unlinkGone", "unlinkStopped"} => cmd[c].pid \notin Monitors'
    BY <1>0, <1>1, <1>2 DEF Sound
  <2>5. /\ cmd[c].step \in {"verify", "term", "wait", "kill"} => cmd[c].pid = file
        /\ cmd[c].step = "port" => file = None
        /\ cmd[c].step \in {"health", "giveUp"} => file = cmd[c].child
    BY <1>2 DEF Sound
  <2> QED BY <2>1, <2>2, <2>3, <2>4, <2>5 DEF Sound, Parent
<1> QED BY <1>0, <1>1, <1>2 DEF CalmInv, Running

(* Giving a command and interrupting one leave no child. *)
LEMMA ChildNext == ASSUME LInv, ChildInv, [LNext]_lvars PROVE ChildInv'
<1>0. CommandsTyped
  BY DEF LInv, LTypes, CommandsTyped
<1>1. ASSUME NEW c \in Commanders, Give(c) PROVE ChildInv'
  <2>1. PICK first \in {"look", "find"}, again \in BOOLEAN :
          cmd' = [cmd EXCEPT ![c] = [Ended("idle") EXCEPT !.step = first, !.again = again]]
    BY <1>1 DEF Give
  <2>2. /\ cmd'[c].child = None /\ UNCHANGED <<phase, told>>
        /\ \A d \in Commanders \ {c} : cmd'[d] = cmd[d]
    BY <1>0, <1>1, <2>1 DEF Give, system, CommandsTyped, Ended
  <2> QED BY <1>0, <2>2, ChildKept
<1>2. ASSUME NEW c \in Commanders, Interrupt(c) PROVE ChildInv'
  BY <1>0, <1>2, EndIs, ChildKept DEF Interrupt, system
<1>3. CASE UNCHANGED lvars
  BY <1>3 DEF lvars, system, ChildInv, Parent, Services, Monitors
<1> QED BY <1>1, <1>2, <1>3, ChildStep, EnvironmentSubsides, ChildSubsides DEF LNext

----------------------------------------------------------------------------
(* One command at a time.                                                  *)

(* What was not calm never is again. *)
LEMMA CalmStays == ASSUME [LNext]_lvars, calm' PROVE calm
<1>1. ASSUME NEW p, NEW answer, IsMonitor(p, answer) PROVE calm
  BY <1>1 DEF IsMonitor
<1>2. ASSUME NEW c \in Commanders, Step(c) PROVE calm
  <2>1. CASE Look(c) \/ Verify(c) \/ Await(c)
    BY <1>1, <2>1 DEF Look, Verify, Await
  <2>2. CASE ~ (Look(c) \/ Verify(c) \/ Await(c))
    BY <1>2, <2>2 DEF Step, Unlink, WaitForPort, Spawn, WriteState, WaitForHealth, GiveUp, Find,
                      Terminate, Kill
  <2> QED BY <2>1, <2>2
<1>3. CASE Environment
  BY <1>3 DEF Environment, Become, Bind, ShutDown, Crash, Reap, Reuse, StrangerExits, ForeignPort
<1>4. ASSUME NEW c \in Commanders, Give(c) \/ Interrupt(c) PROVE calm
  BY <1>4 DEF Give, Interrupt
<1> QED BY <1>2, <1>3, <1>4 DEF LNext, lvars

(* The one command that runs takes a step: the others are at rest. *)
LEMMA CalmMoves ==
  ASSUME calm, CalmInv, NEW c \in Commanders, Running(c),
         \A d \in Commanders \ {c} : cmd'[d] = cmd[d],
         Running(c)' => Sound(c)',
         ~ Running(c)' => Recorded'
  PROVE  CalmInv'
<1>1. \A d \in Commanders \ {c} : ~ Running(d)
  BY DEF CalmInv
<1>2. \A d \in Commanders \ {c} : ~ Running(d)'
  BY <1>1 DEF Running
<1>3. \A d \in Commanders : Running(d)' => d = c
  BY <1>2
<1> QED BY <1>3 DEF CalmInv

(* A service a command has heard of is one, while ps answers. *)
LEMMA CalmAnswer ==
  ASSUME NEW p, NEW answer \in BOOLEAN, IsMonitor(p, answer), calm'
  PROVE  answer <=> p \in Monitors
BY DEF IsMonitor

(* What the command knows after its step. *)
LEMMA CalmStep ==
  ASSUME LInv, ChildInv, CalmInv, calm, calm', NEW c \in Commanders, Step(c)
  PROVE  CalmInv'
<1>0. /\ CommandsTyped /\ phase \in [Pids -> Phases] /\ file \in Pids \cup {None}
      /\ cmd[c] \in Commands /\ Fine(phase, cmd[c])
      /\ told \subseteq Monitors /\ Services \subseteq Pids
      /\ cmd[c].child # None => Parent(cmd[c]) \/ cmd[c].step = "unlinkFailed"
  BY DEF LInv, LTypes, AllFine, CommandsTyped, ChildInv, Services, Monitors
<1>n. None \notin Services /\ None \notin told
  BY <1>0, PidsAssumption DEF Monitors
<1>r. ASSUME NEW step \in StartSteps \cup StopSteps, cmd[c].step = step PROVE Running(c) /\ Sound(c)
  BY <1>r DEF CalmInv, Running, Reports, StartSteps, StopSteps
<1>q. ASSUME NEW step \in StartSteps \cup StopSteps PROVE step \notin Reports
  BY <1>q DEF Reports, StartSteps, StopSteps
<1>s. UNCHANGED <<phase, told>> => Services' = Services /\ Monitors' = Monitors
  BY DEF Services, Monitors
<1>1. CASE Look(c)
  <2>1. UNCHANGED <<phase, told, file>> /\ cmd[c].step = "look" /\ Running(c) /\ Recorded
    <3>1. UNCHANGED <<phase, told, file>> /\ cmd[c].step = "look"
      BY <1>1 DEF Look, system
    <3> QED BY <1>r, <3>1 DEF StartSteps, Sound
  <2>2. CASE file = None /\ Goto(c, "port")
    <3>1. cmd'[c].step = "port" /\ \A d \in Commanders \ {c} : cmd'[d] = cmd[d]
      BY <1>0, <2>2, GotoIs
    <3>2. Services = {}
      BY <1>n, <2>1, <2>2 DEF Recorded
    <3>3. Sound(c)' /\ Running(c)'
      BY <1>s, <2>1, <2>2, <3>1, <3>2 DEF Sound, Parent, Running, Reports
    <3> QED BY <2>1, <3>1, <3>3, CalmMoves
  <2>3. ASSUME NEW answer \in BOOLEAN, IsMonitor(file, answer),
               IF answer THEN End(c, "already") ELSE Goto(c, "unlinkStale")
        PROVE  CalmInv'
    <3>1. CASE answer
      <4>1. cmd'[c].step = "already" /\ \A d \in Commanders \ {c} : cmd'[d] = cmd[d]
        BY <1>0, <2>3, <3>1, EndIs
      <4>2. Recorded' /\ ~ Running(c)'
        BY <1>s, <2>1, <4>1 DEF Recorded, Running, Reports
      <4> QED BY <2>1, <4>1, <4>2, CalmMoves
    <3>2. CASE ~ answer
      <4>1. cmd'[c].step = "unlinkStale" /\ \A d \in Commanders \ {c} : cmd'[d] = cmd[d]
        BY <1>0, <2>3, <3>2, GotoIs
      <4>2. Services = {}
        <5>1. file \notin Monitors
          BY <2>3, <3>2, CalmAnswer
        <5> QED BY <2>1, <5>1 DEF Recorded, Services
      <4>3. Sound(c)' /\ Running(c)'
        BY <1>s, <2>1, <4>1, <4>2 DEF Sound, Parent, Running, Reports
      <4> QED BY <2>1, <4>1, <4>3, CalmMoves
    <3> QED BY <3>1, <3>2
  <2> QED BY <1>1, <2>2, <2>3 DEF Look
<1>2. CASE Unlink(c)
  <2>1. /\ UNCHANGED <<phase, told>> /\ file' = None
        /\ cmd[c].step \in {"unlinkStale", "unlinkFailed", "unlinkGone", "unlinkStopped"}
    BY <1>2 DEF Unlink, system
  <2>2. Running(c) /\ Services = {}
    BY <1>r, <2>1 DEF StartSteps, StopSteps, Sound
  <2>3. /\ cmd'[c].step \in {"port", "look", "failed", "notRunning", "stopped"}
        /\ \A d \in Commanders \ {c} : cmd'[d] = cmd[d]
    BY <1>0, <1>2, GotoIs, EndIs, EndStopIs DEF Unlink
  <2>4. Recorded' /\ Services' = {}
    BY <1>n, <1>s, <2>1, <2>2 DEF Recorded
  <2>5. Running(c)' => Sound(c)'
    BY <2>1, <2>3, <2>4 DEF Sound, Parent, Running, Reports
  <2> QED BY <2>2, <2>3, <2>4, <2>5, CalmMoves
<1>3. CASE WaitForPort(c)
  <2>1. UNCHANGED <<phase, told, file>> /\ cmd[c].step = "port"
    BY <1>3 DEF WaitForPort, system
  <2>2. Running(c) /\ Services = {} /\ file = None
    BY <1>r, <2>1 DEF StartSteps, Sound
  <2>3. CASE PortFree
    <3>1. cmd'[c].step = "spawn" /\ \A d \in Commanders \ {c} : cmd'[d] = cmd[d]
      BY <1>0, <1>3, <2>3, GotoIs DEF WaitForPort
    <3>2. \A p \in Pids : phase'[p] # "serving"
      BY <2>1, <2>3 DEF PortFree
    <3>3. Sound(c)' /\ Running(c)'
      BY <1>s, <2>1, <2>2, <3>1, <3>2 DEF Sound, Parent, Running, Reports
    <3> QED BY <2>2, <3>1, <3>3, CalmMoves
  <2>4. CASE ~ PortFree
    <3>1. cmd'[c].step = "failed" /\ \A d \in Commanders \ {c} : cmd'[d] = cmd[d]
      BY <1>0, <1>3, <2>4, EndIs DEF WaitForPort
    <3>2. Recorded' /\ ~ Running(c)'
      BY <1>n, <1>s, <2>1, <2>2, <3>1 DEF Recorded, Running, Reports
    <3> QED BY <2>2, <3>1, <3>2, CalmMoves
  <2> QED BY <2>3, <2>4
<1>4. CASE Spawn(c)
  <2>1. PICK p \in Pids :
          /\ phase[p] = "free"
          /\ phase' = [phase EXCEPT ![p] = "starting"]
          /\ cmd' = [cmd EXCEPT ![c].step = "write", ![c].child = p]
    BY <1>4 DEF Spawn
  <2>2. /\ cmd'[c].step = "write" /\ cmd'[c].child = p /\ UNCHANGED <<told, file>>
        /\ \A d \in Commanders \ {c} : cmd'[d] = cmd[d]
    BY <1>0, <1>4, <2>1 DEF Spawn, CommandsTyped, Commands
  <2>3. Running(c) /\ Services = {} /\ \A q \in Pids : phase[q] # "serving"
    BY <1>r, <1>4 DEF Spawn, StartSteps, Sound
  <2>4. Services' \subseteq {p} /\ p \notin told' /\ \A q \in Pids : phase'[q] = "serving" => q = p
    BY <1>0, <2>1, <2>2, <2>3 DEF Services, Monitors
  <2>5. Sound(c)' /\ Running(c)'
    BY <2>2, <2>4 DEF Sound, Parent, Running, Reports
  <2> QED BY <2>2, <2>3, <2>5, CalmMoves
<1>5. CASE WriteState(c)
  <2>1. UNCHANGED <<phase, told>> /\ file' = cmd[c].child /\ cmd[c].step = "write"
    BY <1>5 DEF WriteState, system
  <2>2. Running(c) /\ Sound(c) /\ Parent(cmd[c])
    BY <1>r, <2>1 DEF StartSteps, Parent
  <2>3. /\ cmd'[c].step = "health" /\ cmd'[c].child = cmd[c].child
        /\ \A d \in Commanders \ {c} : cmd'[d] = cmd[d]
    BY <1>0, <1>5, GotoIs DEF WriteState
  <2>4. Sound(c)' /\ Running(c)'
    BY <1>s, <2>1, <2>2, <2>3 DEF Sound, Parent, Running, Reports
  <2> QED BY <2>2, <2>3, <2>4, CalmMoves
<1>6. CASE WaitForHealth(c)
  <2>1. UNCHANGED <<told, file>> /\ cmd[c].step = "health"
    BY <1>6 DEF WaitForHealth
  <2>2. Running(c) /\ Sound(c) /\ Parent(cmd[c])
    BY <1>r, <2>1 DEF StartSteps, Parent
  <2>3. CASE phase[cmd[c].child] = "dead" /\ Reaped(c)
    <3>1. /\ phase' = [phase EXCEPT ![cmd[c].child] = "free"]
          /\ cmd'[c].step = "unlinkFailed" /\ \A d \in Commanders \ {c} : cmd'[d] = cmd[d]
      BY <1>0, <2>3 DEF Reaped, CommandsTyped, Commands
    <3>2. Services' = {}
      BY <1>0, <2>1, <2>2, <2>3, <3>1 DEF Sound, Services, Monitors
    <3>3. Sound(c)' /\ Running(c)'
      BY <3>1, <3>2 DEF Sound, Parent, Running, Reports
    <3> QED BY <2>2, <3>1, <3>3, CalmMoves
  <2>4. CASE End(c, "started") /\ UNCHANGED phase
    <3>1. cmd'[c].step = "started" /\ \A d \in Commanders \ {c} : cmd'[d] = cmd[d]
      BY <1>0, <2>4, EndIs
    <3>2. Recorded' /\ ~ Running(c)'
      BY <1>s, <2>1, <2>2, <2>4, <3>1 DEF Recorded, Sound, Running, Reports
    <3> QED BY <2>2, <3>1, <3>2, CalmMoves
  <2>5. CASE Goto(c, "giveUp") /\ UNCHANGED phase
    <3>1. /\ cmd'[c].step = "giveUp" /\ cmd'[c].child = cmd[c].child
          /\ \A d \in Commanders \ {c} : cmd'[d] = cmd[d]
      BY <1>0, <2>5, GotoIs
    <3>2. Sound(c)' /\ Running(c)'
      BY <1>s, <2>1, <2>2, <2>5, <3>1 DEF Sound, Parent, Running, Reports
    <3> QED BY <2>2, <3>1, <3>2, CalmMoves
  <2> QED BY <1>6, <2>3, <2>4, <2>5 DEF WaitForHealth
<1>7. CASE GiveUp(c)
  <2>1. UNCHANGED file /\ cmd[c].step = "giveUp"
    BY <1>7 DEF GiveUp
  <2>2. Running(c) /\ Sound(c) /\ Parent(cmd[c]) /\ Services \subseteq {cmd[c].child}
    BY <1>r, <2>1 DEF StartSteps, Parent, Sound
  <2>3. /\ cmd'[c].step = "unlinkFailed" /\ \A d \in Commanders \ {c} : cmd'[d] = cmd[d]
    BY <1>0, <1>7, GotoIs DEF GiveUp, Reaped, CommandsTyped, Commands
  <2>4. Services' = {}
    <3>1. CASE phase[cmd[c].child] = "dead"
      <4>1. phase' = [phase EXCEPT ![cmd[c].child] = "free"] /\ told' = told
        BY <1>7, <3>1 DEF GiveUp, Reaped
      <4> QED BY <1>0, <2>2, <3>1, <4>1 DEF Services, Monitors
    <3>2. CASE phase[cmd[c].child] # "dead"
      <4>1. told' = told \cup {cmd[c].child} /\ phase' = phase
        BY <1>7, <3>2 DEF GiveUp
      <4> QED BY <2>2, <4>1 DEF Services, Monitors
    <3> QED BY <3>1, <3>2
  <2>5. Sound(c)' /\ Running(c)'
    BY <2>3, <2>4 DEF Sound, Parent, Running, Reports
  <2> QED BY <2>2, <2>3, <2>5, CalmMoves
<1>8. CASE Find(c)
  <2>1. UNCHANGED <<phase, told, file>> /\ cmd[c].step = "find"
    BY <1>8 DEF Find, system
  <2>2. Running(c) /\ Recorded
    BY <1>r, <2>1 DEF StopSteps, Sound
  <2>3. /\ cmd'[c].pid = file
        /\ cmd'[c].step = IF file # None /\ Alive(file) THEN "verify" ELSE "unlinkGone"
        /\ \A d \in Commanders \ {c} : cmd'[d] = cmd[d]
    BY <1>0, <1>8 DEF Find, CommandsTyped, Commands
  <2>4. ~ (file # None /\ Alive(file)) => file \notin Monitors /\ Services = {}
    <3>1. ~ (file # None /\ Alive(file)) => file \notin Monitors
      BY PidsAssumption DEF Alive, Monitors
    <3> QED BY <2>2, <3>1 DEF Recorded, Services
  <2>5. Sound(c)' /\ Running(c)'
    <3>1. CASE cmd'[c].step = "verify"
      BY <1>s, <2>1, <2>2, <2>3, <3>1 DEF Sound, Recorded, Parent, Running, Reports
    <3>2. CASE cmd'[c].step = "unlinkGone" /\ ~ (file # None /\ Alive(file))
      BY <1>s, <2>1, <2>3, <2>4, <3>2 DEF Sound, Parent, Running, Reports
    <3> QED BY <2>3, <3>1, <3>2
  <2> QED BY <2>2, <2>3, <2>5, CalmMoves
<1>9. CASE Verify(c)
  <2>1. UNCHANGED <<phase, told, file>> /\ cmd[c].step = "verify"
    BY <1>9 DEF Verify, system
  <2>2. Running(c) /\ Recorded /\ cmd[c].pid = file
    BY <1>r, <2>1 DEF StopSteps, Sound
  <2>3. PICK answer \in BOOLEAN :
          IsMonitor(cmd[c].pid, answer) /\ Goto(c, IF answer THEN "term" ELSE "unlinkGone")
    BY <1>9 DEF Verify
  <2>4. /\ cmd'[c].step = (IF answer THEN "term" ELSE "unlinkGone") /\ cmd'[c].pid = file
        /\ \A d \in Commanders \ {c} : cmd'[d] = cmd[d]
    BY <1>0, <2>2, <2>3, GotoIs
  <2>5. CASE answer
    <3>1. Sound(c)' /\ Running(c)'
      BY <1>s, <2>1, <2>2, <2>4, <2>5 DEF Sound, Recorded, Parent, Running, Reports
    <3> QED BY <2>2, <2>4, <3>1, CalmMoves
  <2>6. CASE ~ answer
    <3>1. file \notin Monitors
      BY <2>2, <2>3, <2>6, CalmAnswer
    <3>2. Services = {}
      BY <2>2, <3>1 DEF Recorded, Services
    <3>3. Sound(c)' /\ Running(c)'
      BY <1>s, <2>1, <2>4, <2>6, <3>1, <3>2 DEF Sound, Parent, Running, Reports
    <3> QED BY <2>2, <2>4, <3>3, CalmMoves
  <2> QED BY <2>5, <2>6
<1>10. CASE Terminate(c)
  <2>1. UNCHANGED <<phase, file>> /\ cmd[c].step = "term"
    BY <1>10 DEF Terminate
  <2>2. Running(c) /\ Recorded /\ cmd[c].pid = file
    BY <1>r, <2>1 DEF StopSteps, Sound
  <2>3. CASE Alive(cmd[c].pid)
    <3>1. /\ cmd'[c].step = "wait" /\ cmd'[c].pid = file
          /\ told' = told \cup ({file} \cap Monitors)
          /\ \A d \in Commanders \ {c} : cmd'[d] = cmd[d]
      BY <1>0, <1>10, <2>2, <2>3, GotoIs DEF Terminate
    <3>2. Services' = {}
      BY <2>1, <2>2, <3>1 DEF Services, Monitors, Recorded
    <3>3. Sound(c)' /\ Running(c)'
      BY <2>1, <3>1, <3>2 DEF Sound, Parent, Running, Reports
    <3> QED BY <2>2, <3>1, <3>3, CalmMoves
  <2>4. CASE ~ Alive(cmd[c].pid)
    <3>1. /\ cmd'[c].step = "error" /\ told' = told
          /\ \A d \in Commanders \ {c} : cmd'[d] = cmd[d]
      BY <1>0, <1>10, <2>4, EndIs DEF Terminate
    <3>2. Recorded' /\ ~ Running(c)'
      BY <1>s, <2>1, <2>2, <3>1 DEF Recorded, Running, Reports
    <3> QED BY <2>2, <3>1, <3>2, CalmMoves
  <2> QED BY <2>3, <2>4
<1>11. CASE Await(c)
  <2>1. UNCHANGED <<phase, told, file>> /\ cmd[c].step = "wait"
    BY <1>11 DEF Await, system
  <2>2. Running(c) /\ Services = {} /\ cmd[c].pid = file
    BY <1>r, <2>1 DEF StopSteps, Sound
  <2>3. \/ Goto(c, "unlinkStopped") /\ cmd[c].pid \notin Monitors
        \/ Goto(c, "kill")
    <3>1. CASE ~ Alive(cmd[c].pid)
      BY <1>11, <3>1 DEF Await, Alive, Monitors
    <3>2. CASE Alive(cmd[c].pid)
      <4>1. PICK answer \in BOOLEAN :
              IsMonitor(cmd[c].pid, answer) /\ Goto(c, IF answer THEN "kill" ELSE "unlinkStopped")
        BY <1>11, <3>2 DEF Await
      <4> QED BY <4>1, CalmAnswer
    <3> QED BY <3>1, <3>2
  <2>4. /\ cmd'[c].step \in {"kill", "unlinkStopped"} /\ cmd'[c].pid = file
        /\ cmd'[c].step = "unlinkStopped" => file \notin Monitors
        /\ \A d \in Commanders \ {c} : cmd'[d] = cmd[d]
    BY <1>0, <2>2, <2>3, GotoIs
  <2>5. Sound(c)' /\ Running(c)'
    BY <1>s, <2>1, <2>2, <2>4 DEF Sound, Parent, Running, Reports
  <2> QED BY <2>2, <2>4, <2>5, CalmMoves
<1>12. CASE Kill(c)
  <2>1. UNCHANGED file /\ cmd[c].step = "kill"
    BY <1>12 DEF Kill
  <2>2. Running(c) /\ Services = {} /\ cmd[c].pid = file /\ file \in Pids
    BY <1>0, <1>r, <2>1 DEF StopSteps, Sound, Fine, Target
  <2>3. CASE Alive(cmd[c].pid)
    <3>1. /\ phase' = [phase EXCEPT ![file] = "dead"] /\ told' = told \ {file}
          /\ cmd'[c].step = "unlinkStopped" /\ cmd'[c].pid = file
          /\ \A d \in Commanders \ {c} : cmd'[d] = cmd[d]
      BY <1>0, <1>12, <2>2, <2>3, GotoIs DEF Kill
    <3>2. Services' = {} /\ file \notin Monitors'
      BY <1>0, <2>2, <3>1 DEF Services, Monitors
    <3>3. Sound(c)' /\ Running(c)'
      BY <2>1, <3>1, <3>2 DEF Sound, Parent, Running, Reports
    <3> QED BY <2>2, <3>1, <3>3, CalmMoves
  <2>4. CASE ~ Alive(cmd[c].pid)
    <3>1. /\ cmd'[c].step = "error" /\ UNCHANGED <<phase, told>>
          /\ \A d \in Commanders \ {c} : cmd'[d] = cmd[d]
      BY <1>0, <1>12, <2>4, EndIs DEF Kill
    <3>2. file \notin told
      BY <1>0, <2>2, <2>4 DEF Alive, Monitors
    <3>3. Recorded' /\ ~ Running(c)'
      BY <1>s, <2>1, <2>2, <3>1, <3>2 DEF Recorded, Running, Reports
    <3> QED BY <2>2, <3>1, <3>3, CalmMoves
  <2> QED BY <2>3, <2>4
<1> QED
  BY <1>1, <1>2, <1>3, <1>4, <1>5, <1>6, <1>7, <1>8, <1>9, <1>10, <1>11, <1>12 DEF Step

(* Every step keeps it. *)
LEMMA CalmNext == ASSUME LInv, ChildInv, CalmInv, [LNext]_lvars PROVE CalmInv'
<1> SUFFICES ASSUME calm' PROVE CalmInv'
  BY DEF CalmInv
<1>0. calm /\ CommandsTyped
  BY CalmStays DEF LInv, LTypes, CommandsTyped
<1>1. ASSUME NEW c \in Commanders, Give(c) PROVE CalmInv'
  <2>1. PICK first \in {"look", "find"}, again \in BOOLEAN :
          cmd' = [cmd EXCEPT ![c] = [Ended("idle") EXCEPT !.step = first, !.again = again]]
    BY <1>1 DEF Give
  <2>2. /\ cmd'[c].step \in {"look", "find"} /\ UNCHANGED <<phase, told, file>>
        /\ \A d \in Commanders \ {c} : cmd'[d] = cmd[d]
    BY <1>0, <1>1, <2>1 DEF Give, system, CommandsTyped, Ended
  <2>3. \A d \in Commanders : ~ Running(d)
    BY <1>1 DEF Give
  <2>4. Recorded'
    BY <1>0, <2>2, <2>3 DEF CalmInv, Recorded, Services, Monitors
  <2>5. Sound(c)' /\ Running(c)'
    BY <2>2, <2>4 DEF Sound, Parent, Running, Reports
  <2>6. \A d \in Commanders : Running(d)' => d = c
    BY <2>2, <2>3 DEF Running
  <2> QED BY <2>5, <2>6 DEF CalmInv
<1>2. ASSUME NEW c \in Commanders, Interrupt(c) PROVE CalmInv'
  BY <1>2 DEF Interrupt
<1>3. CASE UNCHANGED lvars
  BY <1>3 DEF lvars, system, CalmInv, Running, Sound, Recorded, Parent, Services, Monitors
<1> QED BY <1>0, <1>1, <1>2, <1>3, CalmStep, EnvironmentSubsides, CalmSubsides DEF LNext

(* The three invariants hold together in every behaviour. *)
LEMMA CliInvariance == LSpec => [](LInv /\ ChildInv /\ CalmInv)
<1>1. LInit => ChildInv /\ CalmInv
  <2> SUFFICES ASSUME LInit PROVE ChildInv /\ CalmInv
    OBVIOUS
  <2>1. /\ told = {} /\ file = None /\ Monitors = {} /\ Services = {}
        /\ \A c \in Commanders : cmd[c].step = "idle" /\ cmd[c].child = None
    BY DEF LInit, Ended, Monitors, Services
  <2> QED BY <2>1 DEF ChildInv, CalmInv, Running, Recorded, Reports
<1>2. LInv /\ ChildInv /\ CalmInv /\ [LNext]_lvars => LInv' /\ ChildInv' /\ CalmInv'
  BY LInvNext, ChildNext, CalmNext
<1> QED BY <1>1, <1>2, LInvInit, PTL DEF LSpec

(* While commands come one at a time and the system answers them, a        *)
(* service that runs between two commands is the one in runtime.json.      *)
THEOREM FileAlwaysNamesService == LSpec => []FileNamesService
<1>1. CalmInv => FileNamesService
  BY DEF CalmInv, FileNamesService, Recorded
<1> QED BY <1>1, CliInvariance, PTL

(* A report of a start is true: of success and of a service found while    *)
(* commands come one at a time, of failure whatever other commands do.     *)
LEMMA StartReports ==
  ASSUME LInv, ChildInv, CalmInv, [LNext]_lvars, NEW c \in Commanders
  PROVE  LET ends(report) == cmd'[c].step = report /\ cmd[c].step # report
             child == cmd[c].child
         IN /\ ends("started") /\ calm' => phase[child] = "serving" /\ file = child
            /\ ends("already") /\ calm' => file \in Services
            /\ ends("failed") => child \notin Services
<1> DEFINE child == cmd[c].child
           Same == cmd'[c].step = cmd[c].step
           Other == cmd'[c].step \notin {"started", "already", "failed"}
           Goal == /\ cmd'[c].step = "started" /\ cmd[c].step # "started" /\ calm'
                        => phase[child] = "serving" /\ file = child
                   /\ cmd'[c].step = "already" /\ cmd[c].step # "already" /\ calm' => file \in Services
                   /\ cmd'[c].step = "failed" /\ cmd[c].step # "failed" => child \notin Services
<1> SUFFICES Goal
  OBVIOUS
<1>0. /\ CommandsTyped /\ None \notin Services /\ Services \subseteq Pids
      /\ child # None => Parent(cmd[c]) \/ cmd[c].step = "unlinkFailed"
  BY PidsAssumption DEF LInv, LTypes, CommandsTyped, ChildInv, Services, Monitors
<1>o. Same \/ Other => Goal
  OBVIOUS
<1>c. calm' => calm
  BY CalmStays
<1>r. ASSUME calm', cmd[c].step \in {"look", "health"} PROVE Sound(c)
  BY <1>c, <1>r DEF CalmInv, Running, Reports
<1>1. ASSUME NEW d \in Commanders, d # c, Give(d) \/ Interrupt(d) \/ Step(d) PROVE Same
  <2>1. cmd'[c] = cmd[c]
    BY <1>0, <1>1 DEF CommandsTyped, Give, Interrupt, Step, Look, Unlink, WaitForPort, Spawn, WriteState,
                      WaitForHealth, Reaped, GiveUp, Find, Verify, Terminate, Await, Kill,
                      Goto, End, EndStop
  <2> QED BY <2>1
<1>2. CASE Environment \/ UNCHANGED lvars
  <2>1. cmd' = cmd
    BY <1>2 DEF Environment, Become, Bind, ShutDown, Crash, Reap, Reuse, StrangerExits, ForeignPort, lvars
  <2> QED BY <1>o, <2>1
<1>3. CASE Give(c)
  <2>1. PICK first \in {"look", "find"}, again \in BOOLEAN :
          cmd' = [cmd EXCEPT ![c] = [Ended("idle") EXCEPT !.step = first, !.again = again]]
    BY <1>3 DEF Give
  <2>2. cmd'[c].step = first
    BY <1>0, <2>1 DEF CommandsTyped, Ended
  <2> QED BY <1>o, <2>2
<1>4. CASE Interrupt(c)
  <2>1. cmd'[c].step = "error"
    BY <1>0, <1>4, EndIs DEF Interrupt
  <2> QED BY <1>o, <2>1
<1>5. CASE Look(c)
  <2>1. cmd[c].step = "look"
    BY <1>5 DEF Look
  <2>2. CASE Goto(c, "port") \/ Goto(c, "unlinkStale")
    <3>1. Other
      BY <1>0, <2>2, GotoIs
    <3> QED BY <1>o, <3>1
  <2>3. ASSUME NEW answer \in BOOLEAN, answer, IsMonitor(file, answer), End(c, "already") PROVE Goal
    <3>1. cmd'[c].step = "already"
      BY <1>0, <2>3, EndIs
    <3>2. calm' => file \in Services
      <4> SUFFICES ASSUME calm' PROVE file \in Services
        OBVIOUS
      <4>1. file \in Monitors
        BY <2>3, CalmAnswer
      <4>2. Recorded
        BY <1>r, <2>1 DEF Sound
      <4> QED BY <4>1, <4>2 DEF Recorded, Services
    <3> QED BY <3>1, <3>2
  <2> QED BY <1>5, <2>2, <2>3 DEF Look
<1>6. CASE Unlink(c)
  <2>1. CASE cmd[c].step = "unlinkFailed" /\ End(c, "failed")
    <3>1. cmd'[c].step = "failed"
      BY <1>0, <2>1, EndIs
    <3>2. child \notin Services
      BY <1>0, <2>1 DEF ChildInv
    <3> QED BY <3>1, <3>2
  <2>2. CASE Goto(c, "port") \/ EndStop(c, "notRunning") \/ EndStop(c, "stopped")
    <3>1. Other
      BY <1>0, <2>2, GotoIs, EndStopIs
    <3> QED BY <1>o, <3>1
  <2> QED BY <1>6, <2>1, <2>2 DEF Unlink
<1>7. CASE WaitForPort(c)
  <2>1. child = None
    BY <1>0, <1>7 DEF WaitForPort, Parent
  <2>2. cmd'[c].step \in {"spawn", "failed"}
    BY <1>0, <1>7, GotoIs, EndIs DEF WaitForPort
  <2> QED BY <1>0, <2>1, <2>2
<1>8. CASE WaitForHealth(c)
  <2>0. cmd[c].step = "health"
    BY <1>8 DEF WaitForHealth
  <2>1. CASE Reaped(c) \/ Goto(c, "giveUp")
    <3>1. Other
      BY <1>0, <2>1, GotoIs DEF Reaped, CommandsTyped, Commands
    <3> QED BY <1>o, <3>1
  <2>2. CASE (\E p \in Pids : phase[p] = "serving") /\ End(c, "started")
    <3>1. cmd'[c].step = "started"
      BY <1>0, <2>2, EndIs
    <3>2. calm' => phase[child] = "serving" /\ file = child
      BY <1>r, <2>0, <2>2 DEF Sound, Parent
    <3> QED BY <3>1, <3>2
  <2> QED BY <1>8, <2>1, <2>2 DEF WaitForHealth
<1>9. CASE \/ Spawn(c) \/ WriteState(c) \/ GiveUp(c) \/ Find(c) \/ Verify(c) \/ Terminate(c)
           \/ Await(c) \/ Kill(c)
  <2>1. Other
    <3>1. CASE Spawn(c) \/ Find(c)
      BY <1>0, <3>1 DEF Spawn, Find, CommandsTyped, Commands
    <3>2. CASE WriteState(c) \/ Verify(c) \/ Await(c)
      BY <1>0, <3>2, GotoIs DEF WriteState, Verify, Await
    <3>3. CASE GiveUp(c)
      BY <1>0, <3>3, GotoIs DEF GiveUp, Reaped, CommandsTyped, Commands
    <3>4. CASE Terminate(c) \/ Kill(c)
      BY <1>0, <3>4, GotoIs, EndIs DEF Terminate, Kill
    <3> QED BY <1>9, <3>1, <3>2, <3>3, <3>4
  <2> QED BY <1>o, <2>1
<1> QED BY <1>o, <1>1, <1>2, <1>3, <1>4, <1>5, <1>6, <1>7, <1>8, <1>9 DEF LNext, Step

(* A start that reports success has its own child serving and recorded,    *)
(* one that finds the service running finds one that nobody has told to    *)
(* stop, and one that fails leaves no child that was not told.             *)
THEOREM StartReportsAreTrue == LSpec => StartReportIsTrue
<1>1. LInv /\ ChildInv /\ CalmInv /\ [LNext]_lvars =>
        [\A c \in Commanders :
           LET ends(report) == cmd'[c].step = report /\ cmd[c].step # report
               child == cmd[c].child
           IN /\ ends("started") /\ calm' => phase[child] = "serving" /\ file = child
              /\ ends("already") /\ calm' => file \in Services
              /\ ends("failed") => child \notin Services]_lvars
  BY StartReports
<1> QED BY <1>1, CliInvariance, PTL DEF LSpec, StartReportIsTrue

(* A stop that ends without an exception has left no service, nor the one  *)
(* it found, even if that one hung in its shutdown.                        *)
THEOREM StopReportsAreTrue == LSpec => StopReportIsTrue
<1>1. LInv /\ ChildInv /\ CalmInv /\ [LNext]_lvars =>
        [\A c \in Commanders :
           calm' /\ cmd[c].step \in {"unlinkGone", "unlinkStopped"} /\ cmd'[c].step # cmd[c].step =>
             Services = {} /\ cmd[c].pid \notin Monitors]_lvars
  <2> SUFFICES ASSUME CalmInv, [LNext]_lvars, NEW c \in Commanders, calm',
                      cmd[c].step \in {"unlinkGone", "unlinkStopped"}
               PROVE  Services = {} /\ cmd[c].pid \notin Monitors
    OBVIOUS
  <2>1. calm
    BY CalmStays
  <2>2. Sound(c)
    BY <2>1 DEF CalmInv, Running, Reports
  <2> QED BY <2>2 DEF Sound
<1> QED BY <1>1, CliInvariance, PTL DEF LSpec, StopReportIsTrue
=============================================================================
