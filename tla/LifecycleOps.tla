---------------------------- MODULE LifecycleOps ----------------------------
(***************************************************************************)
(* The lifecycle commands that undo nothing: kill, restart, rm and exec    *)
(* (kill.go, restart.go, remove.go and exec.go of pkg/chaos/lifecycle),    *)
(* down to the calls the clients make.  Docker leaves kill, restart and rm *)
(* to one call of the engine; containerd takes several, and the container  *)
(* may exit or vanish, a call fail or a signal arrive between any two.     *)
(*                                                                         *)
(* An operator X_Defect... is X with one plausible bug.  No specification  *)
(* uses it; it serves to show that a property can fail.                    *)
(***************************************************************************)
EXTENDS Naturals, Sequences

CONSTANTS
  Containers,  \* the containers the runtime has at first
  Commands,    \* the command lines considered, a set of Command records
  None,        \* no container is being acted on
  MaxFaults,   \* how many calls the runtime may fail
  MaxRounds    \* how many ticks of the interval are modelled

\* Signals by who knows them: kill.go (LinuxSignals), task.go (SignalMap).
LinuxSignals == {"SIGKILL", "SIGTERM", "SIGCHLD"}

SignalMap == {"SIGKILL", "SIGTERM", "SIGABRT"}

\* A command string is the sequence of its words.
Words == {"kill", "1", "touch", "file"}

Command ==
  [kind : {"kill", "restart", "rm", "exec"}, runtime : {"docker", "containerd"},
   dryRun : BOOLEAN, force : BOOLEAN, signal : LinuxSignals \cup SignalMap,
   command : Seq(Words), args : Seq(Words)]

ASSUME OpsAssumption ==
  /\ Commands \subseteq Command
  /\ None \notin Containers
  /\ MaxFaults \in Nat /\ MaxRounds \in Nat

VARIABLES
  cmd,        \* the command line, never changed
  cancelled,  \* the context of Run is done
  faults,     \* calls the runtime failed so far
  rounds,     \* runs begun so far
  pc,         \* "idle" or "each", the serial loop of runOnContainers
  todo,       \* targets the loop has not reached
  cur,        \* the target the client is busy with
  stage,      \* the call it makes next for cur
  ok, blame,  \* targets whose closure returned nil, an error, in this run
  exists,     \* the runtime has the container
  task,       \* its process: "up", "none", containerd also "exited"
  gen,        \* how often pumba started it
  base,       \* gen when this run began
  got,        \* the signals it was sent in this run
  ran         \* the exec'd command: "none", "running", "ok", "bad", "notfound"

vars == <<cmd, cancelled, faults, rounds, pc, todo, cur, stage, ok, blame,
          exists, task, gen, base, got, ran>>

loop == <<pc, todo, cur, stage, ok, blame>>

world == <<exists, task, gen, got, ran>>

Docker == cmd.runtime = "docker"

-----------------------------------------------------------------------------
(* Calls and their outcome *)

Fault == faults < MaxFaults /\ faults' = faults + 1

CallFails == (cancelled /\ UNCHANGED faults) \/ Fault

CallSucceeds == ~cancelled /\ UNCHANGED faults

\* The client goes on to its next call.
Goto(c, s) == cur' = c /\ stage' = s /\ UNCHANGED <<pc, todo, ok, blame>>

\* The closure of c returns nil.
Nil(c) ==
  /\ ok' = ok \cup {c}
  /\ todo' = todo \ {c}
  /\ cur' = None /\ stage' = "none"
  /\ UNCHANGED <<pc, blame>>

\* The closure returns an error and the loop goes on with the others.
Err_DefectContinue(c) ==
  /\ blame' = blame
  /\ todo' = todo \ {c}
  /\ cur' = None /\ stage' = "none"
  /\ UNCHANGED <<pc, ok>>

\* The closure of c returns an error, which ends the loop.
Err(c) ==
  /\ blame' = blame \cup {c}
  /\ todo' = {}
  /\ cur' = None /\ stage' = "none"
  /\ UNCHANGED <<pc, ok>>

\* A signal reaches the process of c; what it does about it is up to Exit.
Deliver(c, s) ==
  got' = IF task[c] = "up" THEN [got EXCEPT ![c] = @ \cup {s}] ELSE got

\* The loop takes up its next target, for real.
Begin(c, kind) ==
  /\ pc = "each" /\ cur = None /\ c \in todo
  /\ ~cmd.dryRun /\ cmd.kind = kind

At(c, s) == cur = c /\ stage = s

-----------------------------------------------------------------------------
Init ==
  /\ cmd \in Commands
  /\ cancelled = FALSE
  /\ faults = 0 /\ rounds = 0
  /\ pc = "idle"
  /\ todo = {} /\ ok = {} /\ blame = {}
  /\ cur = None /\ stage = "none"
  /\ exists = [c \in Containers |-> TRUE]
  /\ task \in [Containers -> {"up", "none"} \cup (IF Docker THEN {} ELSE {"exited"})]
  /\ gen = [c \in Containers |-> 0]
  /\ base = gen
  /\ got = [c \in Containers |-> {}]
  /\ ran = [c \in Containers |-> "none"]

\* NewKillCommand refuses a signal it does not know.
Valid == cmd.kind = "kill" => cmd.signal \in LinuxSignals

\* The listing may hand out a nil container.
RunCommand_DefectNil ==
  /\ pc = "idle" /\ rounds < MaxRounds /\ ~cancelled
  /\ rounds' = rounds + 1
  /\ todo' = Containers \cup {None}
  /\ pc' = "each"
  /\ UNCHANGED <<cmd, cancelled, faults, cur, stage, ok, blame, base, world>>

(***************************************************************************)
(* Run lists its targets: running containers, for rm (RunOnContainersAll)  *)
(* also the others.  Names, limit and random leave any part of them.       *)
(***************************************************************************)
RunCommand ==
  /\ pc = "idle" /\ rounds < MaxRounds /\ ~cancelled /\ Valid
  /\ rounds' = rounds + 1
  /\ \E T \in SUBSET {c \in Containers : exists[c] /\ (cmd.kind = "rm" \/ task[c] = "up")} :
       todo' = T
  /\ pc' = "each"
  /\ ok' = {} /\ blame' = {}
  /\ base' = gen
  /\ got' = [c \in Containers |-> {}]
  /\ ran' = [c \in Containers |-> "none"]
  /\ UNCHANGED <<cmd, cancelled, faults, cur, stage, exists, task, gen>>

\* With --dry-run every client method returns nil before its first call.
DryRun(c) ==
  /\ pc = "each" /\ c \in todo /\ cmd.dryRun
  /\ Nil(c)
  /\ UNCHANGED <<cmd, cancelled, faults, rounds, base, world>>

RunReturns ==
  /\ pc = "each" /\ cur = None /\ todo = {}
  /\ pc' = "idle"
  /\ UNCHANGED <<cmd, cancelled, faults, rounds, todo, cur, stage, ok, blame,
                 base, world>>

-----------------------------------------------------------------------------
(* kill, restart and rm through the docker engine *)

\* The engine refuses to signal a container that does not run.
DockerKill(c) ==
  /\ Docker /\ Begin(c, "kill")
  /\ \/ task[c] = "up" /\ CallSucceeds /\ Deliver(c, cmd.signal) /\ Nil(c)
     \/ task[c] # "up" /\ CallSucceeds /\ Err(c) /\ UNCHANGED got
     \/ CallFails /\ Err(c) /\ (Deliver(c, cmd.signal) \/ UNCHANGED got)
  /\ UNCHANGED <<cmd, cancelled, rounds, base, exists, task, gen, ran>>

Started(c) == task' = [task EXCEPT ![c] = "up"] /\ gen' = [gen EXCEPT ![c] = @ + 1]

\* A failed restart did nothing, only stopped the container, or did it all.
DockerRestart(c) ==
  /\ Docker /\ Begin(c, "restart")
  /\ \/ exists[c] /\ CallSucceeds /\ Started(c) /\ Deliver(c, "SIGTERM") /\ Nil(c)
     \/ ~exists[c] /\ CallSucceeds /\ Err(c) /\ UNCHANGED <<task, gen, got>>
     \/ /\ CallFails /\ Err(c)
        /\ \/ UNCHANGED <<task, gen, got>>
           \/ exists[c] /\ Started(c) /\ Deliver(c, "SIGTERM")
           \/ task' = [task EXCEPT ![c] = "none"] /\ UNCHANGED gen /\ Deliver(c, "SIGTERM")
  /\ UNCHANGED <<cmd, cancelled, rounds, base, exists, ran>>

Gone(c) ==
  /\ exists' = [exists EXCEPT ![c] = FALSE]
  /\ task' = [task EXCEPT ![c] = "none"]

\* Without --force the engine refuses a running container.
DockerRemove(c) ==
  /\ Docker /\ Begin(c, "rm")
  /\ LET may == exists[c] /\ (cmd.force \/ task[c] # "up")
         do  == Gone(c) /\ Deliver(c, "SIGKILL")
     IN  \/ may /\ CallSucceeds /\ do /\ Nil(c)
         \/ ~may /\ CallSucceeds /\ Err(c) /\ UNCHANGED <<exists, task, got>>
         \/ CallFails /\ Err(c) /\ ((may /\ do) \/ UNCHANGED <<exists, task, got>>)
  /\ UNCHANGED <<cmd, cancelled, rounds, base, gen, ran>>

-----------------------------------------------------------------------------
(* kill and restart through containerd *)

(***************************************************************************)
(* getTask: the container and its task are loaded.  killTask then checks   *)
(* the signal against its own, shorter, table.                             *)
(***************************************************************************)
GetTask(c) ==
  /\ ~Docker /\ \E kind \in {"kill", "restart", "exec"} : Begin(c, kind)
  /\ \/ /\ CallSucceeds /\ task[c] # "none"
        /\ IF cmd.kind = "kill" /\ cmd.signal \notin SignalMap
             THEN Err(c)
             ELSE Goto(c, CASE cmd.kind = "kill" -> "kill"
                            [] cmd.kind = "restart" -> "term"
                            [] cmd.kind = "exec" -> "exec")
     \/ CallSucceeds /\ task[c] = "none" /\ Err(c)
     \/ CallFails /\ Err(c)
  /\ UNCHANGED <<cmd, cancelled, rounds, base, world>>

\* task.Kill of killTask: not found, when the process has exited, is an error.
KillTask(c) ==
  /\ At(c, "kill")
  /\ \/ task[c] = "up" /\ CallSucceeds /\ Deliver(c, cmd.signal) /\ Nil(c)
     \/ task[c] # "up" /\ CallSucceeds /\ Err(c) /\ UNCHANGED got
     \/ CallFails /\ Err(c) /\ (Deliver(c, cmd.signal) \/ UNCHANGED got)
  /\ UNCHANGED <<cmd, cancelled, rounds, base, exists, task, gen, ran>>

\* stopTask waits for the task and sends the stop signal; not found is fine.
StopTask(c) ==
  /\ At(c, "term")
  /\ \/ CallSucceeds /\ Goto(c, "grace") /\ Deliver(c, "SIGTERM")
     \/ CallFails /\ Err(c) /\ (Deliver(c, "SIGTERM") \/ UNCHANGED got)
  /\ UNCHANGED <<cmd, cancelled, rounds, base, exists, task, gen, ran>>

(***************************************************************************)
(* The wait channel fires: the task exited or is gone, or the wait itself  *)
(* ended with its context or broke.  stopTask does not tell these apart.   *)
(***************************************************************************)
WaitFires(c) == (task[c] # "up" /\ UNCHANGED faults) \/ CallFails

\* The wait for the stop signal has no timer.
AwaitExit_DefectNoTimer(c) ==
  /\ At(c, "grace")
  /\ \/ WaitFires(c) /\ Goto(c, "delete")
     \/ cancelled /\ Err(c) /\ UNCHANGED faults
  /\ UNCHANGED <<cmd, cancelled, rounds, base, world>>

\* The two selects of stopTask, before and after the SIGKILL.
AwaitExit(c) ==
  /\ At(c, "grace") \/ At(c, "last")
  /\ \/ WaitFires(c) /\ Goto(c, "delete") /\ UNCHANGED got
     \/ cancelled /\ Err(c) /\ UNCHANGED <<faults, got>>
     \/ /\ stage = "grace"
        /\ \/ CallSucceeds /\ Goto(c, "last") /\ Deliver(c, "SIGKILL")
           \/ CallFails /\ Err(c) /\ (Deliver(c, "SIGKILL") \/ UNCHANGED got)
     \/ stage = "last" /\ Err(c) /\ UNCHANGED <<faults, got>>
  /\ UNCHANGED <<cmd, cancelled, rounds, base, exists, task, gen, ran>>

\* task.Delete, its error ignored: a task that still runs stays.
DeleteTask(c) ==
  /\ At(c, "delete") \/ At(c, "forcedelete")
  /\ Goto(c, IF stage = "delete" THEN "start" ELSE "remove")
  /\ \/ /\ CallSucceeds
        /\ task' = IF task[c] = "exited" THEN [task EXCEPT ![c] = "none"] ELSE task
     \/ CallFails /\ UNCHANGED task
  /\ UNCHANGED <<cmd, cancelled, rounds, base, exists, gen, got, ran>>

\* A task that is there already counts as started.
StartTask_DefectAlready(c) ==
  /\ At(c, "start")
  /\ \/ exists[c] /\ task[c] = "none" /\ CallSucceeds /\ Started(c) /\ Nil(c)
     \/ exists[c] /\ task[c] # "none" /\ CallSucceeds /\ Nil(c) /\ UNCHANGED <<task, gen>>
     \/ ~exists[c] /\ CallSucceeds /\ Err(c) /\ UNCHANGED <<task, gen>>
     \/ CallFails /\ Err(c) /\ UNCHANGED <<task, gen>>
  /\ UNCHANGED <<cmd, cancelled, rounds, base, exists, got, ran>>

\* startTask: an old task, running or exited, cannot be started again.
StartTask(c) ==
  /\ At(c, "start")
  /\ LET may == exists[c] /\ task[c] = "none"
     IN  \/ may /\ CallSucceeds /\ Started(c) /\ Nil(c)
         \/ ~may /\ CallSucceeds /\ Err(c) /\ UNCHANGED <<task, gen>>
         \/ CallFails /\ Err(c) /\ ((may /\ Started(c)) \/ UNCHANGED <<task, gen>>)
  /\ UNCHANGED <<cmd, cancelled, rounds, base, exists, got, ran>>

-----------------------------------------------------------------------------
(* rm through containerd *)

LoadContainer(c) ==
  /\ ~Docker /\ Begin(c, "rm")
  /\ \/ exists[c] /\ CallSucceeds /\ Goto(c, IF cmd.force THEN "force" ELSE "remove")
     \/ ~exists[c] /\ CallSucceeds /\ Err(c)
     \/ CallFails /\ Err(c)
  /\ UNCHANGED <<cmd, cancelled, rounds, base, world>>

(***************************************************************************)
(* forceKillTask up to its select.  Nothing it does can fail the removal:  *)
(* without a task it returns, without a wait channel it does not wait, and *)
(* a SIGKILL that was refused is only logged.                              *)
(***************************************************************************)
ForceKillTask(c) ==
  /\ At(c, "force")
  /\ \/ ((task[c] = "none" /\ UNCHANGED faults) \/ CallFails) /\ Goto(c, "remove") /\ UNCHANGED got
     \/ task[c] # "none" /\ CallSucceeds /\ Goto(c, "forcewait") /\ Deliver(c, "SIGKILL")
     \/ task[c] # "none" /\ CallFails /\ Goto(c, "forcewait") /\ UNCHANGED got
     \/ task[c] # "none" /\ CallFails /\ Goto(c, "forcedelete") /\ (Deliver(c, "SIGKILL") \/ UNCHANGED got)
  /\ UNCHANGED <<cmd, cancelled, rounds, base, exists, task, gen, ran>>

\* The forced removal is detached from the context, as clean-ups are.
ForceWait_DefectDetached(c) ==
  /\ At(c, "forcewait")
  /\ (task[c] # "up" /\ UNCHANGED faults) \/ Fault
  /\ Goto(c, "forcedelete")
  /\ UNCHANGED <<cmd, cancelled, rounds, base, world>>

\* The select of forceKillTask: the wait channel or the context, no timer.
ForceWait(c) ==
  /\ At(c, "forcewait")
  /\ WaitFires(c)
  /\ Goto(c, "forcedelete")
  /\ UNCHANGED <<cmd, cancelled, rounds, base, world>>

\* Info and Delete: a container that is gone by now is fine, one that still
\* has a task is refused.
RemoveContainer(c) ==
  /\ At(c, "remove")
  /\ LET may == exists[c] /\ task[c] = "none"
     IN  \/ may /\ CallSucceeds /\ Gone(c) /\ Nil(c)
         \/ ~exists[c] /\ CallSucceeds /\ Nil(c) /\ UNCHANGED <<exists, task>>
         \/ exists[c] /\ ~may /\ CallSucceeds /\ Err(c) /\ UNCHANGED <<exists, task>>
         \/ CallFails /\ Err(c) /\ ((may /\ Gone(c)) \/ UNCHANGED <<exists, task>>)
  /\ UNCHANGED <<cmd, cancelled, rounds, base, gen, got, ran>>

-----------------------------------------------------------------------------
(* exec *)

\* NewExecCommand: an empty command is "kill 1".
ExecCommand == IF cmd.command = <<>> THEN <<"kill", "1">> ELSE cmd.command

(***************************************************************************)
(* The argument vector, each argument being a sequence of words.  Docker   *)
(* passes the command as its first argument as it is; containerd splits it *)
(* when there are no further arguments.                                    *)
(***************************************************************************)
Argv ==
  LET each(s) == [i \in 1..Len(s) |-> <<s[i]>>]
  IN  IF ~Docker /\ cmd.args = <<>>
        THEN each(ExecCommand)
        ELSE <<ExecCommand>> \o each(cmd.args)

\* No program has a blank in its name: the default, "kill 1" in one piece on docker, is
\* not found.
Runnable(argv) == Len(argv[1]) = 1

(***************************************************************************)
(* Docker's ContainerExecCreate and ContainerExecAttach, containerd's      *)
(* Exec, Wait and Start.                                                   *)
(***************************************************************************)
ExecStart(c) ==
  /\ (Docker /\ Begin(c, "exec")) \/ At(c, "exec")
  /\ LET launch == ran' = [ran EXCEPT ![c] = IF Runnable(Argv) THEN "running" ELSE "notfound"]
     IN  \/ task[c] = "up" /\ CallSucceeds /\ launch /\ Goto(c, "drain")
         \/ task[c] # "up" /\ CallSucceeds /\ Err(c) /\ UNCHANGED ran
         \/ CallFails /\ Err(c) /\ ((task[c] = "up" /\ launch) \/ UNCHANGED ran)
  /\ UNCHANGED <<cmd, cancelled, rounds, base, exists, task, gen, got>>

(***************************************************************************)
(* The wait for the command.  Docker reads its output to the end from a    *)
(* connection that no context closes; containerd selects on the exit and   *)
(* the context.                                                            *)
(***************************************************************************)
ExecDrain(c) ==
  /\ At(c, "drain")
  /\ \/ ran[c] # "running" /\ Goto(c, "status") /\ UNCHANGED faults
     \/ ((~Docker /\ cancelled /\ UNCHANGED faults) \/ Fault) /\ Err(c)
  /\ UNCHANGED <<cmd, cancelled, rounds, base, world>>

\* Docker asks for the exit code, containerd has it with the exit.
ExecStatus(c) ==
  /\ At(c, "status")
  /\ \/ (CallSucceeds \/ (~Docker /\ UNCHANGED faults)) /\ (IF ran[c] = "ok" THEN Nil(c) ELSE Err(c))
     \/ Docker /\ CallFails /\ Err(c)
  /\ UNCHANGED <<cmd, cancelled, rounds, base, world>>

-----------------------------------------------------------------------------
(* The environment *)

Cancel ==
  /\ ~cancelled
  /\ cancelled' = TRUE
  /\ UNCHANGED <<cmd, faults, rounds, loop, base, world>>

\* A container exits, signalled or not, and with it what was exec'd in it.
Exit(c) ==
  /\ task[c] = "up"
  /\ task' = [task EXCEPT ![c] = IF Docker THEN "none" ELSE "exited"]
  /\ ran' = IF ran[c] = "running" THEN [ran EXCEPT ![c] = "bad"] ELSE ran
  /\ UNCHANGED <<cmd, cancelled, faults, rounds, loop, base, exists, gen, got>>

\* Somebody else removes a container that is down.
Vanish(c) ==
  /\ exists[c] /\ task[c] # "up"
  /\ Gone(c)
  /\ UNCHANGED <<cmd, cancelled, faults, rounds, loop, base, gen, got, ran>>

ExecExits(c) ==
  /\ ran[c] = "running"
  /\ \E r \in {"ok", "bad"} : ran' = [ran EXCEPT ![c] = r]
  /\ UNCHANGED <<cmd, cancelled, faults, rounds, loop, base, exists, task, gen, got>>

\* What the goroutine of Run does.
RunStep ==
  \/ RunReturns
  \/ \E c \in Containers :
       \/ DryRun(c)
       \/ DockerKill(c) \/ DockerRestart(c) \/ DockerRemove(c)
       \/ GetTask(c) \/ KillTask(c) \/ StopTask(c) \/ AwaitExit(c)
       \/ DeleteTask(c) \/ StartTask(c)
       \/ LoadContainer(c) \/ ForceKillTask(c) \/ ForceWait(c) \/ RemoveContainer(c)
       \/ ExecStart(c) \/ ExecDrain(c) \/ ExecStatus(c)

Next ==
  \/ RunCommand \/ RunStep \/ Cancel
  \/ \E c \in Containers : Exit(c) \/ Vanish(c) \/ ExecExits(c)

Spec == Init /\ [][Next]_vars

\* The goroutine of Run runs, calls return, timers fire and SIGKILL is obeyed;
\* no fault is forced.
FairSpec ==
  /\ Spec
  /\ WF_vars(RunStep /\ UNCHANGED faults)
  /\ \A c \in Containers : WF_vars(Exit(c) /\ "SIGKILL" \in got[c])

-----------------------------------------------------------------------------
(* Properties *)

(***************************************************************************)
(* Type invariant of the loop, the client and the containers.              *)
(***************************************************************************)
TypeOK ==
  /\ cmd \in Commands
  /\ cancelled \in BOOLEAN
  /\ faults \in 0..MaxFaults /\ rounds \in 0..MaxRounds
  /\ pc \in {"idle", "each"}
  /\ todo \subseteq Containers /\ ok \subseteq Containers /\ blame \subseteq Containers
  /\ cur \in Containers \cup {None}
  /\ stage \in {"none", "kill", "term", "grace", "last", "delete", "start",
                "force", "forcewait", "forcedelete", "remove", "exec", "drain", "status"}
  /\ (cur = None) = (stage = "none")
  /\ exists \in [Containers -> BOOLEAN]
  /\ task \in [Containers -> {"up", "none", "exited"}]
  /\ gen \in [Containers -> Nat] /\ base \in [Containers -> Nat]
  /\ got \in [Containers -> SUBSET (LinuxSignals \cup SignalMap)]
  /\ ran \in [Containers -> {"none", "running", "ok", "bad", "notfound"}]

(***************************************************************************)
(* A closure that returned nil has done what the command says, whatever    *)
(* failed, exited or vanished on the way: the signal was sent to a running *)
(* process, the container was started anew, it is gone, the command ended  *)
(* with 0.                                                                 *)
(***************************************************************************)
NilMeansDone ==
  \A c \in ok : ~cmd.dryRun =>
    CASE cmd.kind = "kill"    -> cmd.signal \in got[c]
      [] cmd.kind = "restart" -> gen[c] > base[c]
      [] cmd.kind = "rm"      -> ~exists[c]
      [] cmd.kind = "exec"    -> ran[c] = "ok"

(***************************************************************************)
(* When a run is over it accounts for every container it touched: one that *)
(* was signalled, started or entered has a closure that returned nil, or   *)
(* is the one the run failed for, and there is at most one such.  A target *)
(* that restart left down is never passed over in silence.                 *)
(***************************************************************************)
TouchedIsAccountedFor ==
  pc = "idle" =>
    /\ \A c \in Containers :
         got[c] # {} \/ gen[c] > base[c] \/ ran[c] # "none" => c \in ok \cup blame
    /\ \A c, d \in blame : c = d

(***************************************************************************)
(* A run ends by itself: the timers of stopTask bound a restart even when  *)
(* the process ignores every signal.  It may hang only in an exec'd        *)
(* command that goes on, or in forceKillTask, which has no timer, when its *)
(* SIGKILL was not sent.                                                   *)
(***************************************************************************)
RunEnds ==
  pc = "each" /\ cmd.kind # "exec" ~>
    \/ pc = "idle"
    \/ stage = "forcewait" /\ "SIGKILL" \notin got[cur]

(***************************************************************************)
(* After SIGTERM the current run ends, also inside forceKillTask and       *)
(* containerd's exec.  (Docker's exec goes on reading until its command    *)
(* ends.)                                                                  *)
(***************************************************************************)
CancelEndsRun == cancelled /\ ~(Docker /\ cmd.kind = "exec") ~> pc = "idle"
=============================================================================
