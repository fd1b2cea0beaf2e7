--------------------------- MODULE LifecycleRevert ---------------------------
(***************************************************************************)
(* The lifecycle commands that undo themselves: pause (pause.go) and       *)
(* stop --restart (stop.go), with docker's StopContainer and containerd's  *)
(* stopTask and startTask below them.                                      *)
(*                                                                         *)
(* Run acts on the targets one after the other and records each success;   *)
(* the first error ends the loop.  It then waits for --duration, or for    *)
(* its context, and undoes what it recorded.  Every call may fail, or take *)
(* effect and still report an error, and a signalled process dies when it  *)
(* likes.                                                                  *)
(*                                                                         *)
(* An operator X_Defect... is X with one plausible bug.  No specification  *)
(* uses it; it serves to show that a property can fail.                    *)
(***************************************************************************)
EXTENDS Naturals

CONSTANTS
  Containers,  \* the candidates of a run
  Commands,    \* the command lines considered, a set of Command records
  None,        \* no container is being acted on
  MaxFaults,   \* how many calls the runtime may fail
  MaxRounds    \* how many ticks of the interval are modelled

Command ==
  [kind : {"pause", "stop"}, restart : BOOLEAN, dryRun : BOOLEAN,
   runtime : {"docker", "containerd"}]

ASSUME LifecycleAssumption ==
  /\ Commands \subseteq Command
  /\ None \notin Containers
  /\ MaxFaults \in Nat /\ MaxRounds \in Nat

VARIABLES
  cmd,        \* the command line, never changed
  cancelled,  \* the context of Run is done
  faults,     \* calls the runtime failed so far
  rounds,     \* runs begun so far
  pc,         \* where Run is: "idle", "each", "hold" or "revert"
  todo,       \* targets the loop has not reached
  cur,        \* the target StopContainer is busy with
  stage,      \* how far StopContainer got with cur
  undo,       \* pausedContainers or stoppedContainers
  reverting,  \* members of undo the revert loop has not reached
  woke,       \* what ended the wait: "none", "abort" or "timer"
  expired,    \* the context of the cleanup ran out
  state,      \* "up", "paused" or "down"
  signal,     \* the strongest signal a container got: "none", "term", "kill"
  stale,      \* containerd: the task of a stopped container was not deleted
  blame       \* containers some call reported an error for, in any round

vars == <<cmd, cancelled, faults, rounds, pc, todo, cur, stage, undo,
          reverting, woke, expired, state, signal, stale, blame>>

world == <<state, signal, stale>>

Docker == cmd.runtime = "docker"

-----------------------------------------------------------------------------
(* Contexts and faults *)

Fault == faults < MaxFaults /\ faults' = faults + 1

\* A call made with the context of Run fails.
CallFails == (cancelled /\ UNCHANGED faults) \/ Fault

CallSucceeds == ~cancelled /\ UNCHANGED faults

\* The abort branch hands on the cancelled context.
RevertCtxDone_DefectSharedCtx == cancelled \/ (woke = "abort" /\ expired)

(***************************************************************************)
(* The context of the revert is done.  After an abort it is a fresh one    *)
(* that lasts --duration; after the timer it is the context of Run itself. *)
(***************************************************************************)
RevertCtxDone ==
  \/ woke = "timer" /\ cancelled
  \/ woke = "abort" /\ expired

RevertCallFails == (RevertCtxDone /\ UNCHANGED faults) \/ Fault

-----------------------------------------------------------------------------
Init ==
  /\ cmd \in Commands
  /\ cancelled = FALSE
  /\ faults = 0 /\ rounds = 0
  /\ pc = "idle"
  /\ todo = {} /\ undo = {} /\ reverting = {}
  /\ cur = None /\ stage = "none"
  /\ woke = "none" /\ expired = FALSE
  /\ state = [c \in Containers |-> "up"]
  /\ signal = [c \in Containers |-> "none"]
  /\ stale = [c \in Containers |-> FALSE]
  /\ blame = {}

\* The listing may hand out a nil container.
RunCommand_DefectNil ==
  /\ pc = "idle" /\ rounds < MaxRounds /\ ~cancelled
  /\ rounds' = rounds + 1
  /\ todo' = Containers \cup {None}
  /\ pc' = "each"
  /\ undo' = {} /\ reverting' = {} /\ woke' = "none" /\ expired' = FALSE
  /\ UNCHANGED <<cmd, cancelled, faults, cur, stage, world, blame>>

\* Run lists its targets: any set of containers that are not down.
RunCommand ==
  /\ pc = "idle" /\ rounds < MaxRounds /\ ~cancelled
  /\ rounds' = rounds + 1
  /\ \E T \in SUBSET {c \in Containers : state[c] # "down"} : todo' = T
  /\ pc' = "each"
  /\ undo' = {} /\ reverting' = {} /\ woke' = "none" /\ expired' = FALSE
  /\ UNCHANGED <<cmd, cancelled, faults, cur, stage, world, blame>>

\* The closure of c returns nil after recording c.
ActOK(c) ==
  /\ undo' = undo \cup {c}
  /\ todo' = todo \ {c}
  /\ cur' = None /\ stage' = "none"
  /\ UNCHANGED blame

\* The closure of c returns an error, which ends the loop.
ActFails(c) ==
  /\ todo' = {}
  /\ cur' = None /\ stage' = "none"
  /\ blame' = blame \cup {c}
  /\ UNCHANGED undo

\* With --dry-run every client method returns nil before its first call.
ActDry(c) ==
  /\ pc = "each" /\ cur = None /\ c \in todo /\ cmd.dryRun
  /\ ActOK(c)
  /\ UNCHANGED <<cmd, cancelled, faults, rounds, pc, reverting, woke, expired, world>>

(***************************************************************************)
(* PauseContainer: one call.  Pausing a paused container is refused.       *)
(***************************************************************************)
Pause(c) ==
  /\ pc = "each" /\ cur = None /\ c \in todo
  /\ cmd.kind = "pause" /\ ~cmd.dryRun
  /\ \/ /\ CallSucceeds /\ state[c] = "up"
        /\ state' = [state EXCEPT ![c] = "paused"]
        /\ ActOK(c)
     \/ /\ CallSucceeds /\ state[c] # "up"
        /\ ActFails(c)
        /\ UNCHANGED state
     \/ /\ CallFails
        /\ ActFails(c)
        /\ \/ UNCHANGED state
           \/ state[c] = "up" /\ state' = [state EXCEPT ![c] = "paused"]
  /\ UNCHANGED <<cmd, cancelled, rounds, pc, reverting, woke, expired, signal, stale>>

\* StopContainer is entered for c.
EnterStop(c) ==
  /\ pc = "each" /\ cur = None /\ c \in todo
  /\ cmd.kind = "stop" /\ ~cmd.dryRun
  /\ todo' = todo \ {c}
  /\ cur' = c /\ stage' = "term"
  /\ UNCHANGED <<cmd, cancelled, faults, rounds, pc, undo, reverting, woke,
                 expired, world, blame>>

Stronger(s, t) == IF s = "kill" THEN s ELSE t

(***************************************************************************)
(* A signal is sent to cur: the stop signal ("term") or SIGKILL.  Docker   *)
(* refuses to signal a container that is not running; containerd's "no     *)
(* such process" is not an error of stopTask, but a task that is gone is.  *)
(***************************************************************************)
SendSignal(from, sig, to) ==
  /\ pc = "each" /\ cur # None /\ stage = from
  /\ LET sent == [signal EXCEPT ![cur] = Stronger(@, sig)]
     IN  \/ /\ CallSucceeds /\ state[cur] # "down"
            /\ signal' = sent
            /\ stage' = to
            /\ UNCHANGED <<cur, undo, todo, blame>>
         \/ /\ CallSucceeds /\ state[cur] = "down" /\ ~Docker
            /\ stage' = to
            /\ UNCHANGED <<signal, cur, undo, todo, blame>>
         \/ /\ CallSucceeds /\ state[cur] = "down" /\ (Docker \/ from = "term")
            /\ ActFails(cur)
            /\ UNCHANGED signal
         \/ /\ CallFails
            /\ ActFails(cur)
            /\ signal' = signal \/ (state[cur] # "down" /\ signal' = sent)
  /\ UNCHANGED <<cmd, cancelled, rounds, pc, reverting, woke, expired, state, stale>>

SendStopSignal == SendSignal("term", "term", "grace")

SendKill == SendSignal("sigkill", "kill", "final")

(***************************************************************************)
(* The wait sees that cur is down.  containerd then deletes the task, a    *)
(* failure of which is ignored.                                            *)
(***************************************************************************)
WaitSeesExit ==
  /\ pc = "each" /\ cur # None /\ stage \in {"grace", "final"}
  /\ state[cur] = "down"
  /\ \/ CallSucceeds /\ UNCHANGED stale
     \/ ~Docker /\ CallFails /\ stale' = [stale EXCEPT ![cur] = TRUE]
  /\ ActOK(cur)
  /\ UNCHANGED <<cmd, cancelled, rounds, pc, reverting, woke, expired, state, signal>>

\* After SIGKILL the container is taken to be stopped.
WaitFails_DefectProceed ==
  /\ pc = "each" /\ cur # None /\ stage \in {"grace", "final"}
  /\ IF stage = "grace"
       THEN stage' = "sigkill" /\ UNCHANGED <<cur, undo, todo, blame>>
       ELSE ActOK(cur)
  /\ UNCHANGED <<cmd, cancelled, faults, rounds, pc, reverting, woke, expired, world>>

(***************************************************************************)
(* The wait ends without an exit: its time is up, the context is done or,  *)
(* for docker, an inspection failed.  Docker then escalates to SIGKILL, or *)
(* gives up if it already did; containerd escalates only when the time is  *)
(* up.                                                                     *)
(***************************************************************************)
WaitFails ==
  /\ pc = "each" /\ cur # None /\ stage \in {"grace", "final"}
  /\ \E timeout \in BOOLEAN :
       /\ \/ timeout /\ UNCHANGED faults
          \/ ~timeout /\ CallFails /\ (Docker \/ cancelled)
       /\ IF stage = "grace" /\ (timeout \/ Docker)
            THEN stage' = "sigkill" /\ UNCHANGED <<cur, undo, todo, blame>>
            ELSE ActFails(cur)
  /\ UNCHANGED <<cmd, cancelled, rounds, pc, reverting, woke, expired, world>>

(***************************************************************************)
(* containerd's wait channel also fires when its context is done or the    *)
(* wait itself fails, so stopTask may report a stop of a task that still   *)
(* runs, which it can then not delete.                                     *)
(***************************************************************************)
WaitAborted ==
  /\ pc = "each" /\ cur # None /\ stage \in {"grace", "final"}
  /\ ~Docker /\ CallFails
  /\ stale' = [stale EXCEPT ![cur] = TRUE]
  /\ ActOK(cur)
  /\ UNCHANGED <<cmd, cancelled, rounds, pc, reverting, woke, expired, state, signal>>

\* An error of the loop returns before anything is undone.
LoopEnds_DefectEarlyReturn ==
  /\ pc = "each" /\ cur = None /\ todo = {}
  /\ pc' = IF undo # {} /\ blame = {} THEN "hold" ELSE "idle"
  /\ UNCHANGED <<cmd, cancelled, faults, rounds, todo, cur, stage, undo,
                 reverting, woke, expired, world, blame>>

(***************************************************************************)
(* The loop over the targets is over.  Run waits if it recorded anything   *)
(* it has to undo, whether the loop succeeded or not.                      *)
(***************************************************************************)
LoopEnds ==
  /\ pc = "each" /\ cur = None /\ todo = {}
  /\ pc' = IF undo # {} /\ (cmd.kind = "pause" \/ cmd.restart) THEN "hold" ELSE "idle"
  /\ UNCHANGED <<cmd, cancelled, faults, rounds, todo, cur, stage, undo,
                 reverting, woke, expired, world, blame>>

\* The duration timer is not a case of the select.
HoldEnds_DefectNoTimer ==
  /\ pc = "hold" /\ cancelled
  /\ woke' = "abort"
  /\ pc' = "revert"
  /\ reverting' = undo
  /\ UNCHANGED <<cmd, cancelled, faults, rounds, todo, cur, stage, undo,
                 expired, world, blame>>

\* The select of Run: its context is done, or the duration timer fires.
HoldEnds ==
  /\ pc = "hold"
  /\ \/ cancelled /\ woke' = "abort"
     \/ woke' = "timer"
  /\ pc' = "revert"
  /\ reverting' = undo
  /\ UNCHANGED <<cmd, cancelled, faults, rounds, todo, cur, stage, undo,
                 expired, world, blame>>

(***************************************************************************)
(* UnpauseContainer or StartContainer on one recorded container; an error  *)
(* does not end this loop.  Docker starts a running container without      *)
(* complaint; containerd starts only a container without a task.           *)
(***************************************************************************)
Refused(c) == ~Docker /\ cmd.kind = "stop" /\ (stale[c] \/ state[c] = "up")

Revert(c) ==
  /\ pc = "revert" /\ c \in reverting
  /\ reverting' = reverting \ {c}
  /\ LET undone == /\ state' = [state EXCEPT ![c] = "up"]
                   /\ signal' = [signal EXCEPT ![c] = IF state[c] = "down" THEN "none" ELSE @]
     IN  \/ /\ cmd.dryRun
            /\ UNCHANGED <<faults, state, signal, blame>>
         \/ /\ ~cmd.dryRun /\ ~RevertCtxDone /\ ~Refused(c)
            /\ undone
            /\ UNCHANGED <<faults, blame>>
         \/ /\ ~cmd.dryRun /\ ~RevertCtxDone /\ Refused(c)
            /\ blame' = blame \cup {c}
            /\ UNCHANGED <<faults, state, signal>>
         \/ /\ ~cmd.dryRun /\ RevertCallFails
            /\ blame' = blame \cup {c}
            /\ \/ UNCHANGED <<state, signal>>
               \/ ~Refused(c) /\ undone
  /\ UNCHANGED <<cmd, cancelled, rounds, pc, todo, cur, stage, undo, woke, expired, stale>>

RunReturns ==
  /\ pc = "revert" /\ reverting = {}
  /\ pc' = "idle"
  /\ UNCHANGED <<cmd, cancelled, faults, rounds, todo, cur, stage, undo,
                 reverting, woke, expired, world, blame>>

RunStep ==
  \/ SendStopSignal \/ SendKill \/ WaitSeesExit \/ WaitFails \/ WaitAborted
  \/ LoopEnds \/ HoldEnds \/ RunReturns
  \/ \E c \in Containers : ActDry(c) \/ Pause(c) \/ EnterStop(c) \/ Revert(c)

-----------------------------------------------------------------------------
(* The environment *)

Cancel ==
  /\ ~cancelled
  /\ cancelled' = TRUE
  /\ UNCHANGED <<cmd, faults, rounds, pc, todo, cur, stage, undo, reverting,
                 woke, expired, world, blame>>

\* The context of the cleanup after an abort lasts no longer than --duration.
CleanupExpires ==
  /\ pc = "revert" /\ woke = "abort" /\ ~expired
  /\ expired' = TRUE
  /\ UNCHANGED <<cmd, cancelled, faults, rounds, pc, todo, cur, stage, undo,
                 reverting, woke, world, blame>>

\* A container that got a signal exits, whoever is still waiting for it.
Exit(c) ==
  /\ state[c] = "up" /\ signal[c] # "none"
  /\ state' = [state EXCEPT ![c] = "down"]
  /\ UNCHANGED <<cmd, cancelled, faults, rounds, pc, todo, cur, stage, undo,
                 reverting, woke, expired, signal, stale, blame>>

Next ==
  \/ RunCommand \/ RunStep \/ Cancel \/ CleanupExpires
  \/ \E c \in Containers : Exit(c)

Spec == Init /\ [][Next]_vars

\* The goroutine of Run runs, its calls return and its timers fire; no fault is
\* forced.
FairSpec == Spec /\ WF_vars(RunStep /\ UNCHANGED faults)

-----------------------------------------------------------------------------
(* Properties *)

\* The command promises to undo what it does.
Undoes == cmd.kind = "pause" \/ cmd.restart

(***************************************************************************)
(* Type invariant of Run and of the containers it acts on.                 *)
(***************************************************************************)
TypeOK ==
  /\ cmd \in Commands
  /\ cancelled \in BOOLEAN /\ expired \in BOOLEAN
  /\ faults \in 0..MaxFaults /\ rounds \in 0..MaxRounds
  /\ pc \in {"idle", "each", "hold", "revert"}
  /\ todo \subseteq Containers /\ undo \subseteq Containers
  /\ reverting \subseteq Containers /\ blame \subseteq Containers
  /\ cur \in Containers \cup {None}
  /\ stage \in {"none", "term", "grace", "sigkill", "final"}
  /\ woke \in {"none", "abort", "timer"}
  /\ state \in [Containers -> {"up", "paused", "down"}]
  /\ signal \in [Containers -> {"none", "term", "kill"}]
  /\ stale \in [Containers -> BOOLEAN]

(***************************************************************************)
(* No container is silently left paused or stopped: between runs every     *)
(* container is up unless pausing, stopping, unpausing or starting it      *)
(* reported an error, even when the loop broke off half way.               *)
(***************************************************************************)
NoSilentFreeze ==
  pc = "idle" /\ Undoes => \A c \in Containers : state[c] # "up" => c \in blame

(***************************************************************************)
(* What Run records it really did: a container in pausedContainers is      *)
(* paused, one docker reported as stopped is down, until the revert starts *)
(* (StopContainer never returns nil for a container that still runs).      *)
(***************************************************************************)
RecordedIsDone ==
  pc \in {"each", "hold"} /\ ~cmd.dryRun /\ (Docker \/ cmd.kind = "pause") =>
    \A c \in undo : state[c] = IF cmd.kind = "pause" THEN "paused" ELSE "down"

(***************************************************************************)
(* An abort undoes everything recorded: when the wait was ended by the     *)
(* context, and neither the runtime nor the cleanup's own deadline failed, *)
(* every recorded container is up again (the WithoutCancel contexts of     *)
(* pauseCommand.Run and stopCommand.Run).                                  *)
(***************************************************************************)
AbortReverts ==
  pc = "idle" /\ woke = "abort" /\ faults = 0 /\ ~expired
     /\ (Docker \/ cmd.kind = "pause") =>
    \A c \in undo : state[c] = "up"

(***************************************************************************)
(* Seen from outside: a target is acted on until it is recorded or given   *)
(* up, held until the wait is over and undone when its turn comes.  A stop *)
(* without --restart makes no promise.                                     *)
(***************************************************************************)
Phase ==
  [c \in Containers |->
     IF ~Undoes THEN "idle"
     ELSE IF pc = "each" /\ (c \in todo \/ c = cur) THEN "acting"
     ELSE IF pc \in {"each", "hold"} /\ c \in undo THEN "held"
     ELSE IF pc = "revert" /\ c \in reverting THEN "undoing" ELSE "idle"]

Lease == INSTANCE ReversibleChaos
  WITH Targets <- Containers, phase <- Phase,
       dirty <- [c \in Containers |-> Undoes /\ state[c] # "up"],
       told <- [c \in Containers |-> c \in blame],
       replaced <- [c \in Containers |-> FALSE]

(***************************************************************************)
(* pause and stop --restart implement the lease: a container stays paused  *)
(* or stopped while it is held, is always let go in the end, and is left   *)
(* paused or stopped only with an error reported for it.                   *)
(***************************************************************************)
KeepsLease == Lease!Spec

(***************************************************************************)
(* The cleanup of pause survives cancellation: with a runtime and cleanup  *)
(* deadline that do not fail, everything pause recorded is up after Run.   *)
(* The cleanup discipline docs/modularity-review/2026-04-27 claims for the *)
(* chaos actions, and pause.go states for one of its two branches.         *)
(***************************************************************************)
PauseCleanupSurvivesCancel ==
  pc = "idle" /\ cmd.kind = "pause" /\ faults = 0 /\ ~expired =>
    \A c \in undo : state[c] = "up"

(***************************************************************************)
(* "restart stopped container after specified duration": with no signal to *)
(* pumba and no failure of the runtime, a stop --restart leaves no         *)
(* container down.                                                         *)
(***************************************************************************)
StoppedIsRestarted ==
  pc = "idle" /\ cmd.kind = "stop" /\ cmd.restart /\ faults = 0 /\ ~cancelled =>
    \A c \in Containers : state[c] # "down"
=============================================================================
