---------------------------- MODULE StressResult ----------------------------
(***************************************************************************)
(* One stress test: stressContainer (pkg/chaos/stress/stress.go) and the   *)
(* goroutine each runtime client starts to wait for stress-ng and to       *)
(* report through the Output and Errors channels of a StressResult.        *)
(*                                                                         *)
(* The channels are modelled as Go has them: one slot each, a parked       *)
(* select is woken by the first event, a select that finds several cases   *)
(* ready picks any of them, and a closed channel is always ready.          *)
(*                                                                         *)
(* An operator X_Defect... is X with one plausible bug.  No specification  *)
(* uses it; it serves to show that a property can fail.                    *)
(***************************************************************************)
EXTENDS Naturals

CONSTANTS
  Modes,      \* the clients considered: "docker", "podman", containerd's
              \* "sidecar" and "direct" (exec inside the target), or "dry"
  MaxFaults   \* how many calls the runtime may fail

ASSUME StressAssumption ==
  /\ Modes \subseteq {"docker", "podman", "sidecar", "direct", "dry"}
  /\ MaxFaults \in Nat

VARIABLES
  mode,       \* the client in use, never changed
  cancelled,  \* the context of the closure is done
  fired,      \* the duration timer fired
  faults,     \* calls the runtime failed so far
  pc,         \* where stressContainer is
  gor,        \* where the goroutine is
  msg,        \* what the goroutine reports: "none", "ok" or "bad"
  full,       \* the channel that holds a value: "none", "Output" or "Errors"
  closed,     \* the channels that are closed
  work,       \* stress-ng: "none", "created", "running", "ok" or "bad" (exit)
  task,       \* containerd: the sidecar's task exists
  exists,     \* the runtime still has the sidecar container
  target,     \* the container under stress: "up" or "down"
  verdict,    \* what stressContainer returned: "none", "ok" or "failed"
  via,        \* how: "none", "call", "channel" or "stop"
  parked,     \* the select had to wait
  orphan      \* pumba gave up on a sidecar: it has no identifier for it, or
              \* removing it failed

vars == <<mode, cancelled, fired, faults, pc, gor, msg, full, closed, work,
          task, exists, target, verdict, via, parked, orphan>>

channels == <<full, closed>>

Engine == mode \in {"docker", "podman"}

Fault == faults < MaxFaults /\ faults' = faults + 1

CallFails == (cancelled /\ UNCHANGED faults) \/ Fault

CallSucceeds == ~cancelled /\ UNCHANGED faults

-----------------------------------------------------------------------------
Init ==
  /\ mode \in Modes
  /\ cancelled = FALSE /\ fired = FALSE /\ faults = 0
  /\ pc = CASE mode = "dry" -> "dry" [] mode = "direct" -> "launch" [] OTHER -> "create"
  /\ gor = "off" /\ msg = "none"
  /\ full = "none" /\ closed = {}
  /\ work = "none" /\ task = FALSE /\ exists = FALSE
  /\ target = "up"
  /\ verdict = "none" /\ via = "none"
  /\ parked = FALSE /\ orphan = FALSE

Return(v, how) == pc' = "done" /\ verdict' = v /\ via' = how

-----------------------------------------------------------------------------
(* StressContainer of the clients *)

\* With --dry-run both StressContainer and stressContainer return at once.
DryRun ==
  /\ pc = "dry"
  /\ Return("ok", "call")
  /\ UNCHANGED <<mode, cancelled, fired, faults, gor, msg, channels, work, task,
                 exists, target, parked, orphan>>

(***************************************************************************)
(* ContainerCreate or NewContainer, after the look-ups of StressPlacement. *)
(* A create that fails may have taken effect.                              *)
(***************************************************************************)
CreateSidecar ==
  /\ pc = "create"
  /\ \/ /\ CallSucceeds
        /\ pc' = IF Engine THEN "attach" ELSE "start"
        /\ work' = "created" /\ exists' = TRUE
        /\ UNCHANGED <<verdict, via, orphan>>
     \/ /\ CallFails
        /\ Return("failed", "call")
        /\ exists' \in BOOLEAN /\ orphan' = exists'
        /\ UNCHANGED work
  /\ UNCHANGED <<mode, cancelled, fired, gor, msg, channels, task, target, parked>>

\* A sidecar that was not attached or not started is removed again, with a
\* context of its own; that may fail too.
RemoveNeverStarted ==
  \/ exists' = FALSE /\ UNCHANGED orphan
  \/ orphan' = TRUE /\ UNCHANGED exists

\* A failed attach leaves the created container.
AttachSidecar_DefectNoRemove ==
  /\ pc = "attach"
  /\ \/ /\ CallSucceeds
        /\ pc' = "start"
        /\ gor' = IF mode = "docker" THEN "wait" ELSE gor
        /\ UNCHANGED <<verdict, via>>
     \/ /\ CallFails
        /\ Return("failed", "call")
        /\ UNCHANGED gor
  /\ UNCHANGED <<mode, cancelled, fired, msg, channels, work, task, exists,
                 target, parked, orphan>>

(***************************************************************************)
(* ContainerAttach.  Docker starts its goroutine here, before the sidecar  *)
(* runs; podman after ContainerStart.                                      *)
(***************************************************************************)
AttachSidecar ==
  /\ pc = "attach"
  /\ \/ /\ CallSucceeds
        /\ pc' = "start"
        /\ gor' = IF mode = "docker" THEN "wait" ELSE gor
        /\ UNCHANGED <<verdict, via, exists, orphan>>
     \/ /\ CallFails
        /\ RemoveNeverStarted
        /\ Return("failed", "call")
        /\ UNCHANGED gor
  /\ UNCHANGED <<mode, cancelled, fired, msg, channels, work, task, target, parked>>

(***************************************************************************)
(* ContainerStart, or the task of the containerd sidecar; podman and       *)
(* containerd start their goroutine after it.  The call may return only    *)
(* after stress-ng has run, or start it and still report an error.         *)
(***************************************************************************)
StartSidecar ==
  /\ pc = "start"
  /\ \/ /\ CallSucceeds
        /\ pc' = IF mode = "docker" THEN "starting" ELSE "launch"
        /\ work' = "running" /\ task' = TRUE
        /\ UNCHANGED <<verdict, via, exists, orphan>>
     \/ /\ CallFails
        /\ RemoveNeverStarted
        /\ Return("failed", "call")
        /\ work' \in {"created", "running"}
        /\ task' = (work' = "running" /\ exists')
  /\ UNCHANGED <<mode, cancelled, fired, gor, msg, channels, target, parked>>

\* ContainerStart of docker returns to the caller.
StartReturns ==
  /\ pc = "starting"
  /\ pc' = "select"
  /\ UNCHANGED <<mode, cancelled, fired, faults, gor, msg, channels, work, task,
                 exists, target, verdict, via, parked, orphan>>

\* The go statement of podman and containerd; stressDirectExec begins here.
LaunchGoroutine ==
  /\ pc = "launch"
  /\ pc' = "select"
  /\ gor' = "wait"
  /\ work' = IF mode = "direct" THEN "running" ELSE work
  /\ UNCHANGED <<mode, cancelled, fired, faults, msg, channels, task, exists,
                 target, verdict, via, parked, orphan>>

-----------------------------------------------------------------------------
(* The select of stressContainer *)

Ready(ch) == full = ch \/ ch \in closed

\* A receive from Output is success and one from Errors failure.
Receive(ch) == Return(IF ch = "Output" THEN "ok" ELSE "failed", "channel")

\* The select begins: it takes any ready case, or parks.
Select ==
  /\ pc = "select"
  /\ \/ \E ch \in {"Output", "Errors"} :
          /\ Ready(ch)
          /\ Receive(ch)
          /\ full' = IF full = ch THEN "none" ELSE full
          /\ UNCHANGED parked
     \/ /\ cancelled \/ fired
        /\ pc' = "stop"
        /\ UNCHANGED <<full, verdict, via, parked>>
     \/ /\ ~Ready("Output") /\ ~Ready("Errors") /\ ~cancelled /\ ~fired
        /\ pc' = "parked" /\ parked' = TRUE
        /\ UNCHANGED <<full, verdict, via>>
  /\ UNCHANGED <<mode, cancelled, fired, faults, gor, msg, closed, work, task,
                 exists, target, orphan>>

\* The stop goes to some other container.
StopContainerWithID_DefectWrongID ==
  /\ pc = "stop"
  /\ Return("ok", "stop")
  /\ UNCHANGED <<mode, cancelled, fired, faults, gor, msg, channels, work, task,
                 exists, target, parked, orphan>>

(***************************************************************************)
(* StopContainerWithID, under a context cancellation does not reach.  The  *)
(* engines refuse a container that is gone, containerd one whose task is   *)
(* gone.  In direct mode the identifier is the target's own.               *)
(***************************************************************************)
StopContainerWithID ==
  /\ pc = "stop"
  /\ LET known == IF Engine THEN exists ELSE mode = "direct" \/ task
     IN  \/ /\ known
            /\ Return("ok", "stop")
            /\ work' = IF work = "running" THEN "bad" ELSE work
            /\ task' = IF mode = "sidecar" THEN FALSE ELSE task
            /\ target' = IF mode = "direct" THEN "down" ELSE target
            /\ UNCHANGED faults
         \/ /\ ~known /\ UNCHANGED faults
            /\ Return("failed", "stop")
            /\ UNCHANGED <<work, task, target>>
         \/ /\ Fault
            /\ Return("failed", "stop")
            /\ UNCHANGED <<work, task, target>>
  /\ UNCHANGED <<mode, cancelled, fired, gor, msg, channels, exists, parked, orphan>>

Caller ==
  \/ DryRun \/ CreateSidecar \/ AttachSidecar \/ StartSidecar \/ StartReturns
  \/ LaunchGoroutine \/ Select \/ StopContainerWithID

-----------------------------------------------------------------------------
(* The goroutine *)

Exited == work \in {"ok", "bad"}

\* io.Copy returns: stress-ng ended or its container is gone, or it failed.
DrainOutput ==
  /\ Engine /\ gor = "wait"
  /\ \/ (Exited \/ ~exists) /\ gor' = "inspect" /\ UNCHANGED <<faults, msg>>
     \/ Fault /\ gor' = "send" /\ msg' = "bad"
  /\ UNCHANGED <<mode, cancelled, fired, pc, channels, work, task, exists,
                 target, verdict, via, parked, orphan>>

\* The exit code is not looked at.
InspectExit_DefectNoCode ==
  /\ Engine /\ gor = "inspect"
  /\ gor' = "send"
  /\ \/ CallSucceeds /\ msg' = "ok"
     \/ CallFails /\ msg' = "bad"
  /\ UNCHANGED <<mode, cancelled, fired, pc, channels, work, task, exists,
                 target, verdict, via, parked, orphan>>

\* The state of the container is reported instead of its exit code.
InspectExit_DefectState ==
  /\ Engine /\ gor = "inspect"
  /\ gor' = "send"
  /\ CallSucceeds /\ msg' = work
  /\ UNCHANGED <<mode, cancelled, fired, pc, channels, work, task, exists,
                 target, verdict, via, parked, orphan>>

\* The exit code is read from the container, if the engine still has it.
InspectExit ==
  /\ Engine /\ gor = "inspect"
  /\ gor' = "send"
  /\ \/ CallSucceeds /\ msg' = IF exists /\ work = "ok" THEN "ok" ELSE "bad"
     \/ CallFails /\ msg' = "bad"
  /\ UNCHANGED <<mode, cancelled, fired, pc, channels, work, task, exists,
                 target, verdict, via, parked, orphan>>

(***************************************************************************)
(* waitStressSidecar: the task exits, or the context is done.  Then the    *)
(* task is killed (it exits in a later WorkExits), but the wait channel,   *)
(* bound to the same context, fires at once whether the task is gone or    *)
(* not; so it does when the wait itself fails.                             *)
(***************************************************************************)
WaitSidecar ==
  /\ mode = "sidecar" /\ gor = "wait"
  /\ gor' = "cleanup"
  /\ \/ Exited /\ msg' = work /\ UNCHANGED faults
     \/ CallFails /\ msg' = "bad"
  /\ UNCHANGED <<mode, cancelled, fired, pc, channels, work, task, exists,
                 target, verdict, via, parked, orphan>>

\* Only the task is deleted.
CleanupSidecar_DefectTaskOnly ==
  /\ mode = "sidecar" /\ gor = "cleanup"
  /\ gor' = "send"
  /\ task' = (task /\ ~Exited)
  /\ UNCHANGED <<mode, cancelled, fired, faults, pc, msg, channels, work, exists,
                 target, verdict, via, parked, orphan>>

\* task.Delete needs an exited task, deleteContainer one without a task.
CleanupSidecar ==
  /\ mode = "sidecar" /\ gor = "cleanup"
  /\ gor' = "send"
  /\ \/ /\ UNCHANGED faults
        /\ task' = (task /\ ~Exited)
        /\ exists' = (exists /\ task')
     \/ /\ Fault
        /\ UNCHANGED <<task, exists>>
  /\ UNCHANGED <<mode, cancelled, fired, pc, msg, channels, work, target,
                 verdict, via, parked, orphan>>

\* stressDirectExec: execTask returns on exit, on its context or on a fault.
WaitExec ==
  /\ mode = "direct" /\ gor = "wait"
  /\ gor' = "send"
  /\ \/ Exited /\ msg' = work /\ UNCHANGED faults
     \/ CallFails /\ msg' = "bad"
  /\ UNCHANGED <<mode, cancelled, fired, pc, channels, work, task, exists,
                 target, verdict, via, parked, orphan>>

\* The channels have no slot.
SendResult_DefectUnbuffered ==
  /\ gor = "send" /\ pc = "parked"
  /\ gor' = "close1"
  /\ Receive(IF msg = "ok" THEN "Output" ELSE "Errors")
  /\ UNCHANGED <<mode, cancelled, fired, faults, msg, channels, work, task,
                 exists, target, parked, orphan>>

\* The one send of the goroutine: to the parked select, or into the slot.
SendResult ==
  /\ gor = "send"
  /\ gor' = "close1"
  /\ LET ch == IF msg = "ok" THEN "Output" ELSE "Errors"
     IN  IF pc = "parked"
           THEN Receive(ch) /\ UNCHANGED full
           ELSE full' = ch /\ UNCHANGED <<pc, verdict, via>>
  /\ UNCHANGED <<mode, cancelled, fired, faults, msg, closed, work, task,
                 exists, target, parked, orphan>>

\* The deferred closes, last one first: Errors first but in direct mode.
CloseChannel ==
  /\ gor \in {"close1", "close2"}
  /\ gor' = IF gor = "close1" THEN "close2" ELSE "end"
  /\ LET ch == IF (gor = "close1") = (mode # "direct") THEN "Errors" ELSE "Output"
     IN  /\ closed' = closed \cup {ch}
         /\ IF pc = "parked" THEN Receive(ch) ELSE UNCHANGED <<pc, verdict, via>>
  /\ UNCHANGED <<mode, cancelled, fired, faults, msg, full, work, task, exists,
                 target, parked, orphan>>

Goroutine ==
  \/ DrainOutput \/ InspectExit \/ WaitSidecar \/ CleanupSidecar \/ WaitExec
  \/ SendResult \/ CloseChannel

-----------------------------------------------------------------------------
(* The environment *)

\* ctx.Done and the timer wake a parked select.
Cancel ==
  /\ ~cancelled /\ pc # "done"
  /\ cancelled' = TRUE
  /\ pc' = IF pc = "parked" THEN "stop" ELSE pc
  /\ UNCHANGED <<mode, fired, faults, gor, msg, channels, work, task, exists,
                 target, verdict, via, parked, orphan>>

\* The timer is not a case of the select.
TimerFires_DefectNoCase ==
  /\ ~fired /\ pc \in {"select", "parked"}
  /\ fired' = TRUE
  /\ UNCHANGED <<mode, cancelled, faults, pc, gor, msg, channels, work, task,
                 exists, target, verdict, via, parked, orphan>>

TimerFires ==
  /\ ~fired /\ pc \in {"select", "parked"}
  /\ fired' = TRUE
  /\ pc' = IF pc = "parked" THEN "stop" ELSE pc
  /\ UNCHANGED <<mode, cancelled, faults, gor, msg, channels, work, task,
                 exists, target, verdict, via, parked, orphan>>

WorkExits ==
  /\ work = "running"
  /\ work' \in {"ok", "bad"}
  /\ UNCHANGED <<mode, cancelled, fired, faults, pc, gor, msg, channels, task,
                 exists, target, verdict, via, parked, orphan>>

\* The engine removes an exited sidecar (AutoRemove).
AutoRemove ==
  /\ Engine /\ Exited /\ exists
  /\ exists' = FALSE
  /\ UNCHANGED <<mode, cancelled, fired, faults, pc, gor, msg, channels, work,
                 task, target, verdict, via, parked, orphan>>

\* The command is over and pumba exits, with whatever goroutines it has.
ProcessExits ==
  /\ pc = "done" /\ gor \notin {"off", "end", "gone"}
  /\ gor' = "gone"
  /\ UNCHANGED <<mode, cancelled, fired, faults, pc, msg, channels, work, task,
                 exists, target, verdict, via, parked, orphan>>

Next ==
  \/ Caller \/ Goroutine
  \/ Cancel \/ TimerFires \/ WorkExits \/ AutoRemove \/ ProcessExits

Spec == Init /\ [][Next]_vars

\* Both goroutines run, calls return and the timer fires; no fault is forced.
FairSpec ==
  /\ Spec
  /\ WF_vars(Caller /\ UNCHANGED faults)
  /\ WF_vars(Goroutine /\ UNCHANGED faults)
  /\ WF_vars(TimerFires)

-----------------------------------------------------------------------------
(* Properties *)

(***************************************************************************)
(* Type invariant of the caller, the goroutine and their channels.         *)
(***************************************************************************)
TypeOK ==
  /\ mode \in Modes
  /\ cancelled \in BOOLEAN /\ fired \in BOOLEAN /\ faults \in 0..MaxFaults
  /\ pc \in {"dry", "create", "attach", "start", "starting", "launch", "select",
             "parked", "stop", "done"}
  /\ gor \in {"off", "wait", "inspect", "cleanup", "send", "close1", "close2",
              "end", "gone"}
  /\ msg \in {"none", "ok", "bad"}
  /\ full \in {"none", "Output", "Errors"}
  /\ closed \subseteq {"Output", "Errors"}
  /\ work \in {"none", "created", "running", "ok", "bad"}
  /\ task \in BOOLEAN /\ exists \in BOOLEAN
  /\ target \in {"up", "down"}
  /\ verdict \in {"none", "ok", "failed"}
  /\ via \in {"none", "call", "channel", "stop"}
  /\ parked \in BOOLEAN /\ orphan \in BOOLEAN

(***************************************************************************)
(* The verdict of a select that had to wait is the goroutine's report, and *)
(* a success is an exit with 0: the two channels and their closes are told *)
(* apart as long as the caller is there first.                             *)
(***************************************************************************)
ParkedVerdict ==
  parked /\ via = "channel" =>
    /\ (verdict = "ok") = (msg = "ok")
    /\ verdict = "ok" => work = "ok"

(***************************************************************************)
(* A sidecar that never ran is not left behind unless pumba never learned  *)
(* its identifier or its removal failed (the explicit removals after a     *)
(* failed attach or start, which AutoRemove does not cover).               *)
(***************************************************************************)
NeverStartedIsRemoved ==
  pc = "done" /\ via = "call" /\ exists => orphan

(***************************************************************************)
(* Success means the stress is over: whichever way stressContainer came to *)
(* report success, stress-ng no longer runs.  (A select that was late may  *)
(* take the close of Output for success while a containerd task still      *)
(* dies, or after the engine broke the output stream.)                     *)
(***************************************************************************)
SuccessMeansOver ==
  verdict = "ok" /\ (parked \/ (Engine /\ faults = 0)) => Exited

(***************************************************************************)
(* The containerd sidecar is reaped whoever ends it: when its goroutine is *)
(* done, with no fault and no signal, neither task nor container is left,  *)
(* also when StopContainerWithID deletes the same task.  (A signal ends    *)
(* the wait before the task is gone, and pumba may exit before the         *)
(* goroutine does.)                                                        *)
(***************************************************************************)
SidecarReaped ==
  mode = "sidecar" /\ gor = "end" /\ faults = 0 /\ ~cancelled => ~exists /\ ~task

(***************************************************************************)
(* The goroutine is never stuck: once it has something to report it ends   *)
(* (or pumba does), also when stressContainer has long left its select.    *)
(***************************************************************************)
GoroutineEnds == gor = "send" ~> gor \in {"end", "gone"}

(***************************************************************************)
(* Every stress test returns, even when stress-ng never exits by itself.   *)
(***************************************************************************)
StressReturns == <>(pc = "done")

(***************************************************************************)
(* drainStressOutput: "emit either the captured buffer on success or a     *)
(* wrapped error on non-zero exit".  With no fault, signal or timer the    *)
(* verdict of stressContainer is the exit status of stress-ng.             *)
(***************************************************************************)
VerdictIsExitStatus ==
  via = "channel" /\ faults = 0 /\ ~cancelled /\ ~fired =>
    (verdict = "ok") = (work = "ok")

(***************************************************************************)
(* StopContainerWithID ends the stress workload, not the target: a stress  *)
(* test leaves its target running.                                         *)
(***************************************************************************)
TargetSurvives == target = "up"
=============================================================================
