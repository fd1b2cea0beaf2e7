----------------------- MODULE LifecycleRevertProofs -----------------------
(***************************************************************************)
(* Proofs about LifecycleRevert, for every set of containers, every set of *)
(* command lines and any number of faults and rounds.                      *)
(***************************************************************************)
EXTENDS LifecycleRevert, TLAPS

(***************************************************************************)
(* The inductive invariant.  NoSilentFreeze speaks of the time between     *)
(* runs only; what carries it through a run is InvCovered: a container     *)
(* that is frozen, or signalled and so free to die at any moment, is the   *)
(* one being stopped, is recorded, waits for its revert or was reported.   *)
(***************************************************************************)

\* The target in hand, the ones to come and the recorded ones are different
\* containers; the wait and the revert are reached only with a promise to keep.
InvPlace ==
  /\ pc # "each" => todo = {} /\ cur = None
  /\ todo \cap undo = {}
  /\ cur \notin todo /\ cur \notin undo
  /\ cur # None => cmd.kind = "stop" /\ ~cmd.dryRun
  /\ pc \in {"hold", "revert"} => Undoes
  /\ pc \in {"each", "hold"} => woke = "none"
  /\ reverting \subseteq undo

\* What each command can do to a container at all.
InvKind ==
  \A c \in Containers :
    /\ cmd.kind = "pause" => state[c] # "down" /\ signal[c] = "none"
    /\ cmd.kind = "stop" => state[c] # "paused"
    /\ cmd.dryRun => state[c] = "up" /\ signal[c] = "none"

\* The run is still answerable for c.
InHand(c) ==
  \/ c = cur
  \/ pc \in {"each", "hold"} /\ c \in undo
  \/ pc = "revert" /\ c \in reverting

InvCovered ==
  Undoes => \A c \in Containers :
    state[c] # "up" \/ signal[c] # "none" => c \in blame \/ InHand(c)

\* RecordedIsDone goes on to hold for what the revert has not reached.
InvRecorded ==
  ~cmd.dryRun /\ (Docker \/ cmd.kind = "pause") =>
    \A c \in undo : pc \in {"each", "hold"} \/ (pc = "revert" /\ c \in reverting) =>
      state[c] = IF cmd.kind = "pause" THEN "paused" ELSE "down"

\* AbortReverts as the revert goes along; a container that is up must also
\* have no signal left that could still kill it.
InvAborted ==
  pc \in {"idle", "revert"} /\ woke = "abort" /\ faults = 0 /\ ~expired
     /\ (Docker \/ cmd.kind = "pause") =>
    \A c \in undo : (pc = "revert" /\ c \in reverting)
                      \/ (state[c] = "up" /\ signal[c] = "none")

IInv == TypeOK /\ InvPlace /\ InvKind /\ InvCovered /\ InvRecorded /\ InvAborted

-----------------------------------------------------------------------------
\* The inductive invariant holds at the start.
LEMMA InitIInv == Init => IInv
<1> SUFFICES ASSUME Init
             PROVE  IInv
  OBVIOUS
<1>1. TypeOK
  <2>1. /\ state \in [Containers -> {"up", "paused", "down"}]
        /\ signal \in [Containers -> {"none", "term", "kill"}]
    BY DEF Init
  <2>2. stale \in [Containers -> BOOLEAN]
    BY DEF Init
  <2>3. faults \in 0..MaxFaults /\ rounds \in 0..MaxRounds
    BY LifecycleAssumption DEF Init
  <2> QED
    BY <2>1, <2>2, <2>3 DEF Init, TypeOK
<1>2. InvPlace /\ InvRecorded /\ InvAborted
  BY DEF Init, InvPlace, InvRecorded, InvAborted
<1>3. InvKind /\ InvCovered
  BY DEF Init, InvKind, InvCovered
<1> QED
  BY <1>1, <1>2, <1>3 DEF IInv

\* Every step of Run, of the clients and of the containers keeps the invariant.
LEMMA IInvPreserved ==
  ASSUME IInv, [Next]_vars
  PROVE  IInv'
<1>1. ASSUME RunCommand
      PROVE  IInv'
  <2>1. TypeOK'
    <3>1. todo' \subseteq Containers
      BY <1>1 DEF RunCommand
    <3>2. rounds' \in 0..MaxRounds
      BY <1>1, LifecycleAssumption DEF RunCommand, IInv, TypeOK
    <3> QED
      BY <1>1, <3>1, <3>2 DEF RunCommand, IInv, TypeOK, world
  <2>2. InvPlace'
    BY <1>1, LifecycleAssumption DEF IInv, InvPlace, RunCommand
  <2>3. InvKind'
    BY <1>1 DEF IInv, InvKind, RunCommand, world
  <2>4. InvCovered'
    BY <1>1 DEF IInv, InvCovered, InHand, Undoes, RunCommand, world
  <2>5. InvRecorded'
    BY <1>1 DEF IInv, InvRecorded, RunCommand
  <2>6. InvAborted'
    BY <1>1 DEF IInv, InvAborted, RunCommand
  <2> QED
    BY <2>1, <2>2, <2>3, <2>4, <2>5, <2>6 DEF IInv
<1>2. ASSUME NEW c \in Containers, ActDry(c)
      PROVE  IInv'
  <2>1. TypeOK'
    BY <1>2 DEF IInv, TypeOK, ActDry, ActOK, world
  <2>2. InvPlace'
    BY <1>2 DEF IInv, InvPlace, ActDry, ActOK
  <2>3. InvKind'
    BY <1>2 DEF IInv, InvKind, ActDry, world
  <2>4. InvCovered'
    BY <1>2 DEF IInv, InvCovered, InvKind, ActDry, world
  <2>5. InvRecorded'
    BY <1>2 DEF IInv, InvRecorded, ActDry
  <2>6. InvAborted'
    BY <1>2 DEF IInv, InvAborted, ActDry
  <2> QED
    BY <2>1, <2>2, <2>3, <2>4, <2>5, <2>6 DEF IInv
<1>3. ASSUME NEW c \in Containers, Pause(c)
      PROVE  IInv'
  <2>1. TypeOK'
    BY <1>3, LifecycleAssumption DEF IInv, TypeOK, Pause, ActOK, ActFails, CallFails,
       CallSucceeds, Fault
  <2>2. InvPlace'
    BY <1>3 DEF IInv, InvPlace, Pause, ActOK, ActFails
  <2>3. InvKind'
    BY <1>3 DEF IInv, InvKind, TypeOK, Pause
  <2>4. InvCovered'
    BY <1>3 DEF IInv, InvCovered, InHand, Undoes, TypeOK, Pause, ActOK, ActFails
  <2>5. InvRecorded'
    BY <1>3 DEF IInv, InvRecorded, TypeOK, Pause, ActOK, ActFails
  <2>6. InvAborted'
    BY <1>3 DEF IInv, InvAborted, Pause
  <2> QED
    BY <2>1, <2>2, <2>3, <2>4, <2>5, <2>6 DEF IInv
<1>4. ASSUME NEW c \in Containers, EnterStop(c)
      PROVE  IInv'
  <2>1. TypeOK'
    BY <1>4 DEF IInv, TypeOK, EnterStop, world
  <2>2. InvPlace'
    BY <1>4 DEF IInv, InvPlace, EnterStop
  <2>3. InvKind'
    BY <1>4 DEF IInv, InvKind, EnterStop, world
  <2>4. InvCovered'
    BY <1>4, LifecycleAssumption DEF IInv, InvCovered, InHand, Undoes, EnterStop, world
  <2>5. InvRecorded'
    BY <1>4 DEF IInv, InvRecorded, Docker, EnterStop, world
  <2>6. InvAborted'
    BY <1>4 DEF IInv, InvAborted, EnterStop
  <2> QED
    BY <2>1, <2>2, <2>3, <2>4, <2>5, <2>6 DEF IInv
<1>5. ASSUME SendStopSignal
      PROVE  IInv'
  <2>1. TypeOK'
    BY <1>5, LifecycleAssumption DEF IInv, TypeOK, SendStopSignal, SendSignal, Stronger,
       ActFails, CallFails, CallSucceeds, Fault
  <2>2. InvPlace'
    BY <1>5, LifecycleAssumption DEF IInv, InvPlace, TypeOK, SendStopSignal, SendSignal,
       ActFails
  <2>3. InvKind'
    BY <1>5 DEF IInv, InvKind, InvPlace, SendStopSignal, SendSignal
  <2>4. InvCovered'
    BY <1>5 DEF IInv, InvCovered, InHand, Undoes, TypeOK, SendStopSignal, SendSignal,
       ActFails
  <2>5. InvRecorded'
    BY <1>5 DEF IInv, InvRecorded, Docker, SendStopSignal, SendSignal, ActFails
  <2>6. InvAborted'
    BY <1>5 DEF IInv, InvAborted, SendStopSignal, SendSignal
  <2> QED
    BY <2>1, <2>2, <2>3, <2>4, <2>5, <2>6 DEF IInv
<1>6. ASSUME SendKill
      PROVE  IInv'
  <2>1. TypeOK'
    BY <1>6, LifecycleAssumption DEF IInv, TypeOK, SendKill, SendSignal, Stronger, ActFails,
       CallFails, CallSucceeds, Fault
  <2>2. InvPlace'
    BY <1>6, LifecycleAssumption DEF IInv, InvPlace, TypeOK, SendKill, SendSignal, ActFails
  <2>3. InvKind'
    BY <1>6 DEF IInv, InvKind, InvPlace, SendKill, SendSignal
  <2>4. InvCovered'
    BY <1>6 DEF IInv, InvCovered, InHand, Undoes, TypeOK, SendKill, SendSignal, ActFails
  <2>5. InvRecorded'
    BY <1>6 DEF IInv, InvRecorded, Docker, SendKill, SendSignal, ActFails
  <2>6. InvAborted'
    BY <1>6 DEF IInv, InvAborted, SendKill, SendSignal
  <2> QED
    BY <2>1, <2>2, <2>3, <2>4, <2>5, <2>6 DEF IInv
<1>7. ASSUME WaitSeesExit
      PROVE  IInv'
  <2>1. TypeOK'
    <3>1. stale' \in [Containers -> BOOLEAN]
      BY <1>7 DEF WaitSeesExit, IInv, TypeOK
    <3>2. faults' \in 0..MaxFaults
      BY <1>7, LifecycleAssumption DEF WaitSeesExit, CallSucceeds, CallFails, Fault, IInv,
         TypeOK
    <3>3. undo' \subseteq Containers /\ todo' \subseteq Containers
      BY <1>7 DEF WaitSeesExit, ActOK, IInv, TypeOK
    <3> QED
      BY <1>7, <3>1, <3>2, <3>3 DEF WaitSeesExit, ActOK, IInv, TypeOK
  <2>2. InvPlace'
    BY <1>7, LifecycleAssumption DEF IInv, InvPlace, TypeOK, WaitSeesExit, ActOK
  <2>3. InvKind'
    BY <1>7 DEF IInv, InvKind, WaitSeesExit
  <2>4. InvCovered'
    BY <1>7 DEF IInv, InvCovered, InHand, Undoes, WaitSeesExit, ActOK
  <2>5. InvRecorded'
    BY <1>7 DEF IInv, InvRecorded, Docker, InvPlace, WaitSeesExit, ActOK
  <2>6. InvAborted'
    BY <1>7 DEF IInv, InvAborted, WaitSeesExit
  <2> QED
    BY <2>1, <2>2, <2>3, <2>4, <2>5, <2>6 DEF IInv
<1>8. ASSUME WaitFails
      PROVE  IInv'
  <2>1. TypeOK'
    BY <1>8, LifecycleAssumption DEF IInv, TypeOK, WaitFails, ActFails, CallFails, Fault,
       world
  <2>2. InvPlace'
    BY <1>8, LifecycleAssumption DEF IInv, InvPlace, TypeOK, WaitFails, ActFails
  <2>3. InvKind'
    BY <1>8 DEF IInv, InvKind, WaitFails, world
  <2>4. InvCovered'
    BY <1>8 DEF IInv, InvCovered, InHand, Undoes, WaitFails, ActFails, world
  <2>5. InvRecorded'
    BY <1>8 DEF IInv, InvRecorded, Docker, WaitFails, ActFails, world
  <2>6. InvAborted'
    BY <1>8 DEF IInv, InvAborted, WaitFails
  <2> QED
    BY <2>1, <2>2, <2>3, <2>4, <2>5, <2>6 DEF IInv
<1>9. ASSUME WaitAborted
      PROVE  IInv'
  <2>1. TypeOK'
    BY <1>9, LifecycleAssumption DEF IInv, TypeOK, WaitAborted, ActOK, CallFails, Fault
  <2>2. InvPlace'
    BY <1>9, LifecycleAssumption DEF IInv, InvPlace, TypeOK, WaitAborted, ActOK
  <2>3. InvKind'
    BY <1>9 DEF IInv, InvKind, WaitAborted
  <2>4. InvCovered'
    BY <1>9 DEF IInv, InvCovered, InHand, Undoes, WaitAborted, ActOK
  <2>5. InvRecorded'
    BY <1>9 DEF IInv, InvRecorded, Docker, InvPlace, WaitAborted
  <2>6. InvAborted'
    BY <1>9 DEF IInv, InvAborted, WaitAborted
  <2> QED
    BY <2>1, <2>2, <2>3, <2>4, <2>5, <2>6 DEF IInv
<1>10. ASSUME LoopEnds
      PROVE  IInv'
  <2>1. TypeOK'
    BY <1>10 DEF IInv, TypeOK, LoopEnds, world
  <2>2. InvPlace'
    BY <1>10 DEF IInv, InvPlace, Undoes, LoopEnds
  <2>3. InvKind'
    BY <1>10 DEF IInv, InvKind, LoopEnds, world
  <2>4. InvCovered'
    BY <1>10 DEF IInv, InvCovered, InHand, Undoes, LoopEnds, world
  <2>5. InvRecorded'
    BY <1>10 DEF IInv, InvRecorded, Docker, LoopEnds, world
  <2>6. InvAborted'
    BY <1>10 DEF IInv, InvAborted, InvPlace, LoopEnds
  <2> QED
    BY <2>1, <2>2, <2>3, <2>4, <2>5, <2>6 DEF IInv
<1>11. ASSUME HoldEnds
      PROVE  IInv'
  <2>1. TypeOK'
    BY <1>11 DEF IInv, TypeOK, HoldEnds, world
  <2>2. InvPlace'
    BY <1>11 DEF IInv, InvPlace, Undoes, HoldEnds
  <2>3. InvKind'
    BY <1>11 DEF IInv, InvKind, HoldEnds, world
  <2>4. InvCovered'
    BY <1>11 DEF IInv, InvCovered, InHand, Undoes, HoldEnds, world
  <2>5. InvRecorded'
    BY <1>11 DEF IInv, InvRecorded, Docker, HoldEnds, world
  <2>6. InvAborted'
    BY <1>11 DEF IInv, InvAborted, HoldEnds
  <2> QED
    BY <2>1, <2>2, <2>3, <2>4, <2>5, <2>6 DEF IInv
<1>12. ASSUME NEW c \in Containers, Revert(c)
      PROVE  IInv'
  <2>1. TypeOK'
    BY <1>12, LifecycleAssumption DEF IInv, TypeOK, Revert, RevertCallFails, Fault
  <2>2. InvPlace'
    BY <1>12 DEF IInv, InvPlace, Undoes, Revert
  <2>3. InvKind'
    BY <1>12 DEF IInv, InvKind, TypeOK, Revert
  <2>4. InvCovered'
    BY <1>12, LifecycleAssumption DEF IInv, InvCovered, InHand, TypeOK, Command, InvPlace,
       InvKind, InvRecorded, Revert, Refused
  <2>5. InvRecorded'
    BY <1>12 DEF IInv, InvRecorded, Docker, TypeOK, Revert
  <2>6. InvAborted'
    BY <1>12 DEF IInv, InvAborted, Docker, TypeOK, InvKind, InvRecorded, Revert,
       RevertCallFails, RevertCtxDone, Refused, Fault
  <2> QED
    BY <2>1, <2>2, <2>3, <2>4, <2>5, <2>6 DEF IInv
<1>13. ASSUME RunReturns
      PROVE  IInv'
  <2>1. TypeOK'
    BY <1>13 DEF IInv, TypeOK, RunReturns, world
  <2>2. InvPlace'
    BY <1>13 DEF IInv, InvPlace, RunReturns
  <2>3. InvKind'
    BY <1>13 DEF IInv, InvKind, RunReturns, world
  <2>4. InvCovered'
    BY <1>13 DEF IInv, InvCovered, InHand, Undoes, RunReturns, world
  <2>5. InvRecorded'
    BY <1>13 DEF IInv, InvRecorded, RunReturns
  <2>6. InvAborted'
    BY <1>13 DEF IInv, InvAborted, Docker, RunReturns, world
  <2> QED
    BY <2>1, <2>2, <2>3, <2>4, <2>5, <2>6 DEF IInv
<1>14. ASSUME Cancel
      PROVE  IInv'
  <2>1. TypeOK'
    BY <1>14 DEF IInv, TypeOK, Cancel, world
  <2>2. InvPlace'
    BY <1>14 DEF IInv, InvPlace, Undoes, Cancel
  <2>3. InvKind'
    BY <1>14 DEF IInv, InvKind, Cancel, world
  <2>4. InvCovered'
    BY <1>14 DEF IInv, InvCovered, InHand, Undoes, Cancel, world
  <2>5. InvRecorded'
    BY <1>14 DEF IInv, InvRecorded, Docker, Cancel, world
  <2>6. InvAborted'
    BY <1>14 DEF IInv, InvAborted, Docker, Cancel, world
  <2> QED
    BY <2>1, <2>2, <2>3, <2>4, <2>5, <2>6 DEF IInv
<1>15. ASSUME CleanupExpires
      PROVE  IInv'
  <2>1. TypeOK'
    BY <1>15 DEF IInv, TypeOK, CleanupExpires, world
  <2>2. InvPlace'
    BY <1>15 DEF IInv, InvPlace, Undoes, CleanupExpires
  <2>3. InvKind'
    BY <1>15 DEF IInv, InvKind, CleanupExpires, world
  <2>4. InvCovered'
    BY <1>15 DEF IInv, InvCovered, InHand, Undoes, CleanupExpires, world
  <2>5. InvRecorded'
    BY <1>15 DEF IInv, InvRecorded, Docker, CleanupExpires, world
  <2>6. InvAborted'
    BY <1>15 DEF IInv, InvAborted, CleanupExpires
  <2> QED
    BY <2>1, <2>2, <2>3, <2>4, <2>5, <2>6 DEF IInv
<1>16. ASSUME NEW c \in Containers, Exit(c)
      PROVE  IInv'
  <2>1. TypeOK'
    BY <1>16 DEF IInv, TypeOK, Exit
  <2>2. InvPlace'
    BY <1>16 DEF IInv, InvPlace, Undoes, Exit
  <2>3. InvKind'
    BY <1>16 DEF IInv, InvKind, Exit
  <2>4. InvCovered'
    BY <1>16 DEF IInv, InvCovered, InHand, Undoes, Exit
  <2>5. InvRecorded'
    BY <1>16 DEF IInv, InvRecorded, Docker, Exit
  <2>6. InvAborted'
    BY <1>16 DEF IInv, InvAborted, Docker, Exit
  <2> QED
    BY <2>1, <2>2, <2>3, <2>4, <2>5, <2>6 DEF IInv
<1>17. ASSUME UNCHANGED vars
      PROVE  IInv'
  <2>1. TypeOK'
    BY <1>17 DEF IInv, TypeOK, vars
  <2>2. InvPlace'
    BY <1>17 DEF IInv, InvPlace, Undoes, vars
  <2>3. InvKind'
    BY <1>17 DEF IInv, InvKind, vars
  <2>4. InvCovered'
    BY <1>17 DEF IInv, InvCovered, InHand, Undoes, vars
  <2>5. InvRecorded'
    BY <1>17 DEF IInv, InvRecorded, Docker, vars
  <2>6. InvAborted'
    BY <1>17 DEF IInv, InvAborted, Docker, vars
  <2> QED
    BY <2>1, <2>2, <2>3, <2>4, <2>5, <2>6 DEF IInv
<1> QED
  BY <1>1, <1>2, <1>3, <1>4, <1>5, <1>6, <1>7, <1>8, <1>9, <1>10, <1>11, <1>12, <1>13,
     <1>14, <1>15, <1>16, <1>17 DEF Next, RunStep

-----------------------------------------------------------------------------
(* Theorems *)

\* The inductive invariant is an invariant of pause and stop.
THEOREM Invariance == Spec => []IInv
BY InitIInv, IInvPreserved, PTL DEF Spec

(***************************************************************************)
(* Type correctness of Run and of the containers it acts on.               *)
(***************************************************************************)
THEOREM TypeCorrect == Spec => []TypeOK
<1>1. IInv => TypeOK
  BY DEF IInv
<1> QED
  BY Invariance, <1>1, PTL

(***************************************************************************)
(* Between runs of pause and of stop --restart, a container that is not up *)
(* is one for which some call reported an error.                           *)
(***************************************************************************)
THEOREM Freeze == Spec => []NoSilentFreeze
<1>1. IInv => NoSilentFreeze
  <2> SUFFICES ASSUME IInv, pc = "idle", Undoes, NEW c \in Containers, state[c] # "up"
               PROVE  c \in blame
    BY DEF NoSilentFreeze
  <2>1. ~InHand(c)
    BY LifecycleAssumption DEF IInv, InvPlace, InHand
  <2> QED
    BY <2>1 DEF IInv, InvCovered
<1> QED
  BY Invariance, <1>1, PTL

(***************************************************************************)
(* What pause, and stop on docker, record until the revert starts is       *)
(* really paused or down.                                                  *)
(***************************************************************************)
THEOREM Recorded == Spec => []RecordedIsDone
<1>1. IInv => RecordedIsDone
  BY DEF IInv, InvRecorded, RecordedIsDone
<1> QED
  BY Invariance, <1>1, PTL

(***************************************************************************)
(* A wait ended by the context is followed by a revert of everything       *)
(* recorded, unless the runtime or the cleanup's deadline fails.           *)
(***************************************************************************)
THEOREM Aborted == Spec => []AbortReverts
<1>1. IInv => AbortReverts
  BY DEF IInv, InvAborted, AbortReverts
<1> QED
  BY Invariance, <1>1, PTL

-----------------------------------------------------------------------------
(* The lease *)

\* The start is one of the abstract specification.
LEMMA InitLease == Init => Lease!Init
<1> SUFFICES ASSUME Init
             PROVE  Lease!Init
  OBVIOUS
<1>1. Phase = [c \in Containers |-> "idle"]
  BY DEF Init, Phase
<1>2. [c \in Containers |-> Undoes /\ state[c] # "up"] = [c \in Containers |-> FALSE]
  <2>1. \A c \in Containers : (Undoes /\ state[c] # "up") = FALSE
    BY DEF Init
  <2> QED
    BY <2>1
<1>3. [c \in Containers |-> c \in blame] = [c \in Containers |-> FALSE]
  <2>1. blame = {}
    BY DEF Init
  <2>2. \A c \in Containers : (c \in blame) = FALSE
    BY <2>1
  <2> QED
    BY <2>2
<1> QED
  BY <1>1, <1>2, <1>3 DEF Lease!Init

\* Every step is one of the abstract specification, or changes nothing there.
LEMMA StepLease ==
  ASSUME IInv, IInv', Next
  PROVE  Lease!Next
<1>1. Phase' \in [Containers -> Lease!Phases]
  BY DEF Phase, Lease!Phases
<1>2. [c \in Containers |-> Undoes /\ state[c] # "up"]' \in [Containers -> BOOLEAN]
  <2>1. \A c \in Containers : (Undoes /\ state[c] # "up")' \in BOOLEAN
    OBVIOUS
  <2> QED
    BY <2>1
<1>3. [c \in Containers |-> c \in blame]' \in [Containers -> BOOLEAN]
  <2>1. \A c \in Containers : (c \in blame)' \in BOOLEAN
    OBVIOUS
  <2> QED
    BY <2>1
<1>4. [c \in Containers |-> FALSE]' \in [Containers -> BOOLEAN]
  OBVIOUS
<1>5. ASSUME NEW c \in Containers
      PROVE  Lease!Moves(c) /\ Lease!Holds(c) /\ Lease!Honest(c)
  <2>1. Lease!Moves(c) /\ Lease!Holds(c) /\ blame \subseteq blame'
    <3>1. ASSUME RunCommand
          PROVE  Lease!Moves(c) /\ Lease!Holds(c) /\ blame \subseteq blame'
      BY <3>1 DEF IInv, Phase, Lease!Moves, Lease!Holds, RunCommand
    <3>2. ASSUME NEW x \in Containers, ActDry(x)
          PROVE  Lease!Moves(c) /\ Lease!Holds(c) /\ blame \subseteq blame'
      BY <3>2 DEF IInv, Phase, Undoes, world, Lease!Moves, Lease!Holds, ActDry, ActOK
    <3>3. ASSUME NEW x \in Containers, Pause(x)
          PROVE  Lease!Moves(c) /\ Lease!Holds(c) /\ blame \subseteq blame'
      BY <3>3 DEF IInv, TypeOK, Phase, Undoes, Lease!Moves, Lease!Holds, Pause, ActOK,
         ActFails
    <3>4. ASSUME NEW x \in Containers, EnterStop(x)
          PROVE  Lease!Moves(c) /\ Lease!Holds(c) /\ blame \subseteq blame'
      BY <3>4 DEF IInv, Phase, Undoes, world, Lease!Moves, Lease!Holds, EnterStop
    <3>5. ASSUME SendStopSignal
          PROVE  Lease!Moves(c) /\ Lease!Holds(c) /\ blame \subseteq blame'
      BY <3>5, LifecycleAssumption DEF IInv, Phase, Undoes, Lease!Moves, Lease!Holds,
         SendStopSignal, SendSignal, ActFails
    <3>6. ASSUME SendKill
          PROVE  Lease!Moves(c) /\ Lease!Holds(c) /\ blame \subseteq blame'
      BY <3>6, LifecycleAssumption DEF IInv, Phase, Undoes, Lease!Moves, Lease!Holds,
         SendKill, SendSignal, ActFails
    <3>7. ASSUME WaitSeesExit
          PROVE  Lease!Moves(c) /\ Lease!Holds(c) /\ blame \subseteq blame'
      BY <3>7, LifecycleAssumption DEF IInv, Phase, Undoes, Lease!Moves, Lease!Holds,
         WaitSeesExit, ActOK
    <3>8. ASSUME WaitFails
          PROVE  Lease!Moves(c) /\ Lease!Holds(c) /\ blame \subseteq blame'
      BY <3>8, LifecycleAssumption DEF IInv, Phase, Undoes, world, Lease!Moves, Lease!Holds,
         WaitFails, ActFails
    <3>9. ASSUME WaitAborted
          PROVE  Lease!Moves(c) /\ Lease!Holds(c) /\ blame \subseteq blame'
      BY <3>9, LifecycleAssumption DEF IInv, Phase, Undoes, Lease!Moves, Lease!Holds,
         WaitAborted, ActOK
    <3>10. ASSUME LoopEnds
          PROVE  Lease!Moves(c) /\ Lease!Holds(c) /\ blame \subseteq blame'
      BY <3>10 DEF IInv, Phase, Undoes, world, Lease!Moves, Lease!Holds, LoopEnds
    <3>11. ASSUME HoldEnds
          PROVE  Lease!Moves(c) /\ Lease!Holds(c) /\ blame \subseteq blame'
      BY <3>11 DEF IInv, Phase, Undoes, Lease!Moves, Lease!Holds, HoldEnds
    <3>12. ASSUME NEW x \in Containers, Revert(x)
          PROVE  Lease!Moves(c) /\ Lease!Holds(c) /\ blame \subseteq blame'
      BY <3>12 DEF IInv, Phase, Undoes, Lease!Moves, Lease!Holds, Revert
    <3>13. ASSUME RunReturns
          PROVE  Lease!Moves(c) /\ Lease!Holds(c) /\ blame \subseteq blame'
      BY <3>13 DEF IInv, Phase, Lease!Moves, Lease!Holds, RunReturns
    <3>14. ASSUME Cancel
          PROVE  Lease!Moves(c) /\ Lease!Holds(c) /\ blame \subseteq blame'
      BY <3>14 DEF IInv, Phase, Undoes, world, Lease!Moves, Lease!Holds, Cancel
    <3>15. ASSUME CleanupExpires
          PROVE  Lease!Moves(c) /\ Lease!Holds(c) /\ blame \subseteq blame'
      BY <3>15 DEF IInv, Phase, Undoes, Lease!Moves, Lease!Holds, CleanupExpires
    <3>16. ASSUME NEW x \in Containers, Exit(x)
          PROVE  Lease!Moves(c) /\ Lease!Holds(c) /\ blame \subseteq blame'
      BY <3>16 DEF IInv, TypeOK, Phase, Undoes, Lease!Moves, Lease!Holds, Exit
    <3> QED
      BY <3>1, <3>2, <3>3, <3>4, <3>5, <3>6, <3>7, <3>8, <3>9, <3>10, <3>11, <3>12, <3>13,
         <3>14, <3>15, <3>16 DEF Next, RunStep
  <2>2. Lease!Honest(c)
    <3>1. (Undoes /\ InHand(c))' => Phase'[c] # "idle"
      BY LifecycleAssumption DEF IInv, InvPlace, InHand, Phase
    <3>2. (Undoes /\ state[c] # "up")' => c \in blame' \/ InHand(c)'
      BY DEF IInv, InvCovered
    <3> QED
      BY <2>1, <3>1, <3>2 DEF Lease!Honest
  <2> QED
    BY <2>1, <2>2
<1> QED
  BY <1>1, <1>2, <1>3, <1>4, <1>5 DEF Lease!Next

(***************************************************************************)
(* pause and stop --restart implement the safety part of the lease, step   *)
(* by step: a step of Run, of the context or of a dying container is a     *)
(* step of ReversibleChaos or leaves it alone.                             *)
(***************************************************************************)
THEOREM ImplementsLease == Spec => Lease!Safe
<1>1. IInv /\ IInv' /\ [Next]_vars => [Lease!Next]_(Lease!lease)
  <2> SUFFICES ASSUME IInv, IInv', UNCHANGED vars
               PROVE  UNCHANGED Lease!lease
    BY StepLease
  <2> QED
    BY DEF vars, Lease!lease, Phase, Undoes
<1> QED
  BY InitLease, Invariance, <1>1, PTL DEF Spec, Lease!Safe

(***************************************************************************)
(* What the lease gives the user, at any time and not only between runs: a *)
(* container Run is not busy with, and for which nothing was reported, is  *)
(* neither paused nor stopped.                                             *)
(***************************************************************************)
THEOREM Unreported == Spec => []Lease!NoSilentChaos
<1>1. Lease!Init => Lease!NoSilentChaos
  BY DEF Lease!Init, Lease!NoSilentChaos
<1>2. Lease!NoSilentChaos /\ [Lease!Next]_(Lease!lease) => Lease!NoSilentChaos'
  <2>1. Lease!Next => Lease!NoSilentChaos'
    BY DEF Lease!Next, Lease!Honest, Lease!NoSilentChaos
  <2>2. Lease!NoSilentChaos /\ UNCHANGED Lease!lease => Lease!NoSilentChaos'
    BY DEF Lease!lease, Lease!NoSilentChaos
  <2> QED
    BY <2>1, <2>2
<1> QED
  BY ImplementsLease, <1>1, <1>2, PTL DEF Lease!Safe
=============================================================================
