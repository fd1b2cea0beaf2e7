------------------------- MODULE LifecycleOpsProofs -------------------------
(***************************************************************************)
(* Proofs about LifecycleOps, for every set of containers, every set of    *)
(* command lines and any number of faults and rounds.                      *)
(***************************************************************************)
EXTENDS LifecycleOps, TLAPS

(***************************************************************************)
(* The inductive invariant.  TouchedIsAccountedFor speaks of the time      *)
(* between runs; within one, the container in hand is the only one that    *)
(* may be touched and not yet accounted for.                               *)
(***************************************************************************)

\* Whoever is in hand is still among the targets to come, a target that is done
\* with is not, and the first error is the last.
InvPlace ==
  /\ pc = "idle" => todo = {}
  /\ cur # None => cur \in todo /\ ~cmd.dryRun
  /\ ok \cap todo = {}
  /\ blame # {} => todo = {}
  /\ \A c, d \in blame : c = d

\* The calls each command makes.
InvStage ==
  /\ stage = "kill" => cmd.kind = "kill"
  /\ stage \in {"term", "grace", "last", "delete", "start"} => cmd.kind = "restart"
  /\ stage \in {"force", "forcewait", "forcedelete", "remove"} => cmd.kind = "rm"
  /\ stage \in {"exec", "drain", "status"} => cmd.kind = "exec"

\* A container is never started less often than it was.
InvGen == \A c \in Containers : base[c] <= gen[c]

\* A container the command did something to is done, to blame or its turn now.
InvTouched ==
  \A c \in Containers :
    got[c] # {} \/ gen[c] > base[c] \/ ran[c] # "none" => c \in ok \cup blame \cup {cur}

IInv == TypeOK /\ InvPlace /\ InvStage /\ InvGen /\ InvTouched /\ NilMeansDone
-----------------------------------------------------------------------------
(* What the parts of an action do to the type *)

Signals == LinuxSignals \cup SignalMap

\* However a call ends, the faults stay within their bound.
LEMMA CallType ==
  ASSUME TypeOK, CallFails \/ CallSucceeds \/ Fault \/ UNCHANGED faults
  PROVE  faults' \in 0..MaxFaults
BY OpsAssumption DEF TypeOK, CallFails, CallSucceeds, Fault

\* The closure of a target ends, or goes on to another call.
LEMMA LoopType ==
  ASSUME TypeOK, NEW c \in Containers,
         \/ Nil(c) \/ Err(c)
         \/ \E s \in {"kill", "term", "grace", "last", "delete", "start", "force", "forcewait",
                      "forcedelete", "remove", "exec", "drain", "status"} : Goto(c, s)
  PROVE  /\ pc' \in {"idle", "each"}
         /\ todo' \subseteq Containers /\ ok' \subseteq Containers
         /\ blame' \subseteq Containers
         /\ cur' \in Containers \cup {None}
         /\ stage' \in {"none", "kill", "term", "grace", "last", "delete", "start", "force",
                        "forcewait", "forcedelete", "remove", "exec", "drain", "status"}
         /\ (cur' = None) = (stage' = "none")
BY OpsAssumption DEF TypeOK, Nil, Err, Goto

\* A signal is added to those its container got, and to no other's.
LEMMA DeliverType ==
  ASSUME TypeOK, NEW c \in Containers, NEW s \in Signals, Deliver(c, s) \/ UNCHANGED got
  PROVE  /\ got' \in [Containers -> SUBSET Signals]
         /\ \A x \in Containers : got[x] \subseteq got'[x] /\ (x # c => got'[x] = got[x])
BY DEF TypeOK, Deliver, Signals

\* A start counts for its container only.
LEMMA StartedType ==
  ASSUME TypeOK, NEW c \in Containers, Started(c)
  PROVE  /\ task' \in [Containers -> {"up", "none", "exited"}]
         /\ gen' \in [Containers -> Nat]
         /\ gen'[c] = gen[c] + 1
         /\ \A x \in Containers : x # c => gen'[x] = gen[x]
BY DEF TypeOK, Started

\* A removal takes one container away and brings none back.
LEMMA GoneType ==
  ASSUME TypeOK, NEW c \in Containers, Gone(c)
  PROVE  /\ exists' \in [Containers -> BOOLEAN]
         /\ task' \in [Containers -> {"up", "none", "exited"}]
         /\ exists'[c] = FALSE
         /\ \A x \in Containers : exists'[x] => exists[x]
<1>1. exists' = [exists EXCEPT ![c] = FALSE] /\ exists \in [Containers -> BOOLEAN]
  BY DEF TypeOK, Gone
<1>2. exists' \in [Containers -> BOOLEAN] /\ exists'[c] = FALSE
  BY <1>1
<1>3. \A x \in Containers : exists'[x] => exists[x]
  BY <1>1
<1>4. task' \in [Containers -> {"up", "none", "exited"}]
  BY DEF TypeOK, Gone
<1> QED
  BY <1>2, <1>3, <1>4

\* The signal of a kill is a signal, in particular.
LEMMA CommandType ==
  ASSUME TypeOK
  PROVE  /\ cmd.kind \in {"kill", "restart", "rm", "exec"}
         /\ cmd.signal \in Signals /\ "SIGTERM" \in Signals /\ "SIGKILL" \in Signals
BY OpsAssumption DEF TypeOK, Command, Signals, SignalMap

-----------------------------------------------------------------------------
(* Done stays done *)

\* The command has done to c what it says.
Done(c) ==
  /\ cmd.kind = "kill" => cmd.signal \in got[c]
  /\ cmd.kind = "restart" => gen[c] > base[c]
  /\ cmd.kind = "rm" => ~exists[c]
  /\ cmd.kind = "exec" => ran[c] = "ok"

\* NilMeansDone in terms of Done.
LEMMA DoneMeans ==
  ASSUME TypeOK
  PROVE  NilMeansDone <=> \A c \in ok : ~cmd.dryRun => Done(c)
BY CommandType DEF NilMeansDone, Done

\* A step that takes back nothing keeps NilMeansDone, if the target that returns
\* nil is done with.
LEMMA DoneKept ==
  ASSUME IInv, TypeOK', UNCHANGED <<cmd, base>>,
         \A x \in Containers :
           /\ got[x] \subseteq got'[x] /\ gen[x] <= gen'[x]
           /\ exists'[x] => exists[x]
           /\ x \in ok /\ ran[x] = "ok" => ran'[x] = "ok",
         NEW c, ok' \subseteq ok \cup {c},
         c \in ok' \ ok /\ ~cmd.dryRun => Done(c)'
  PROVE  NilMeansDone'
<1> SUFFICES ASSUME NEW x \in ok', ~cmd.dryRun
             PROVE  Done(x)'
  BY CommandType DEF IInv, NilMeansDone, Done
<1>1. CASE x \in ok
  <2>1. x \in Containers /\ Done(x)
    BY <1>1, DoneMeans DEF IInv, TypeOK
  <2>2. gen[x] \in Nat /\ gen'[x] \in Nat /\ base[x] \in Nat
    BY <2>1 DEF IInv, TypeOK
  <2> QED
    BY <1>1, <2>1, <2>2 DEF Done
<1> QED
  BY <1>1

-----------------------------------------------------------------------------
(* The inductive invariant holds *)

\* Every step of the loop, of the clients and of the containers keeps the invariant.
LEMMA IInvPreserved ==
  ASSUME IInv, [Next]_vars
  PROVE  IInv'
<1>1. ASSUME RunCommand
      PROVE  IInv'
  <2>1. TypeOK'
    BY <1>1, OpsAssumption DEF IInv, TypeOK, RunCommand
  <2>2. InvPlace'
    BY <1>1 DEF IInv, InvPlace, RunCommand
  <2>3. InvStage'
    BY <1>1 DEF IInv, InvStage, RunCommand
  <2>4. InvGen'
    BY <1>1 DEF IInv, TypeOK, InvGen, RunCommand
  <2>5. InvTouched'
    BY <1>1 DEF IInv, TypeOK, InvTouched, RunCommand
  <2>6. NilMeansDone'
    BY <1>1 DEF IInv, NilMeansDone, RunCommand
  <2> QED
    BY <2>1, <2>2, <2>3, <2>4, <2>5, <2>6 DEF IInv
<1>2. ASSUME NEW c \in Containers, DryRun(c)
      PROVE  IInv'
  <2>1. TypeOK'
    BY <1>2 DEF IInv, TypeOK, DryRun, Nil, world
  <2>2. InvPlace'
    BY <1>2 DEF IInv, InvPlace, DryRun, Nil
  <2>3. InvStage'
    BY <1>2 DEF IInv, InvStage, DryRun, Nil
  <2>4. InvGen'
    BY <1>2 DEF IInv, InvGen, DryRun, world
  <2>5. InvTouched'
    BY <1>2 DEF IInv, InvTouched, InvPlace, DryRun, Nil, world
  <2>6. NilMeansDone'
    BY <1>2 DEF IInv, NilMeansDone, DryRun
  <2> QED
    BY <2>1, <2>2, <2>3, <2>4, <2>5, <2>6 DEF IInv
<1>3. ASSUME RunReturns
      PROVE  IInv'
  <2>1. TypeOK'
    BY <1>3 DEF IInv, TypeOK, RunReturns, world
  <2>2. InvPlace'
    BY <1>3 DEF IInv, InvPlace, RunReturns
  <2>3. InvStage'
    BY <1>3 DEF IInv, InvStage, RunReturns
  <2>4. InvGen'
    BY <1>3 DEF IInv, InvGen, RunReturns, world
  <2>5. InvTouched'
    BY <1>3 DEF IInv, InvTouched, RunReturns, world
  <2>6. NilMeansDone'
    BY <1>3 DEF IInv, NilMeansDone, RunReturns, world
  <2> QED
    BY <2>1, <2>2, <2>3, <2>4, <2>5, <2>6 DEF IInv
<1>4. ASSUME NEW c \in Containers, DockerKill(c)
      PROVE  IInv'
  <2>1. TypeOK'
    <3>1. faults' \in 0..MaxFaults
      BY <1>4, CallType DEF IInv, DockerKill
    <3>2. /\ pc' \in {"idle", "each"}
          /\ todo' \subseteq Containers /\ ok' \subseteq Containers
          /\ blame' \subseteq Containers
          /\ cur' \in Containers \cup {None}
          /\ stage' \in {"none", "kill", "term", "grace", "last", "delete", "start", "force",
                         "forcewait", "forcedelete", "remove", "exec", "drain", "status"}
          /\ (cur' = None) = (stage' = "none")
      BY <1>4, LoopType DEF IInv, DockerKill
    <3>3. got' \in [Containers -> SUBSET Signals]
      BY <1>4, CommandType, DeliverType DEF IInv, DockerKill
    <3> QED
      BY <1>4, <3>1, <3>2, <3>3 DEF IInv, TypeOK, Signals, DockerKill
  <2>2. InvPlace'
    BY <1>4 DEF IInv, InvPlace, DockerKill, Begin, Nil, Err
  <2>3. InvStage'
    BY <1>4 DEF IInv, InvStage, DockerKill, Nil, Err
  <2>4. InvGen'
    BY <1>4 DEF IInv, InvGen, DockerKill
  <2>5. InvTouched'
    BY <1>4 DEF IInv, TypeOK, InvTouched, DockerKill, Begin, Deliver, Nil, Err
  <2>6. NilMeansDone'
    <3>1. /\ UNCHANGED <<cmd, base>> /\ ok' \subseteq ok \cup {c}
          /\ c \notin ok
      BY <1>4 DEF IInv, InvPlace, DockerKill, Begin, Nil, Err
    <3>2. \A x \in Containers :
            /\ got[x] \subseteq got'[x] /\ gen[x] <= gen'[x]
            /\ exists'[x] => exists[x]
            /\ x \in ok /\ ran[x] = "ok" => ran'[x] = "ok"
      BY <1>4, CommandType, DeliverType DEF IInv, TypeOK, DockerKill
    <3>3. c \in ok' => Done(c)'
      BY <1>4, <3>1 DEF IInv, TypeOK, Done, DockerKill, Begin, Deliver, Err
    <3> QED
      BY <2>1, <3>1, <3>2, <3>3, DoneKept
  <2> QED
    BY <2>1, <2>2, <2>3, <2>4, <2>5, <2>6 DEF IInv
<1>5. ASSUME NEW c \in Containers, DockerRestart(c)
      PROVE  IInv'
  <2>1. TypeOK'
    <3>1. faults' \in 0..MaxFaults
      BY <1>5, CallType DEF IInv, DockerRestart
    <3>2. /\ pc' \in {"idle", "each"}
          /\ todo' \subseteq Containers /\ ok' \subseteq Containers
          /\ blame' \subseteq Containers
          /\ cur' \in Containers \cup {None}
          /\ stage' \in {"none", "kill", "term", "grace", "last", "delete", "start", "force",
                         "forcewait", "forcedelete", "remove", "exec", "drain", "status"}
          /\ (cur' = None) = (stage' = "none")
      BY <1>5, LoopType DEF IInv, DockerRestart
    <3>3. got' \in [Containers -> SUBSET Signals]
      BY <1>5, CommandType, DeliverType DEF IInv, DockerRestart
    <3>4. /\ task' \in [Containers -> {"up", "none", "exited"}]
          /\ gen' \in [Containers -> Nat]
      BY <1>5, StartedType DEF IInv, TypeOK, DockerRestart
    <3> QED
      BY <1>5, <3>1, <3>2, <3>3, <3>4 DEF IInv, TypeOK, Signals, DockerRestart
  <2>2. InvPlace'
    BY <1>5 DEF IInv, InvPlace, DockerRestart, Begin, Nil, Err
  <2>3. InvStage'
    BY <1>5 DEF IInv, InvStage, DockerRestart, Nil, Err
  <2>4. InvGen'
    BY <1>5 DEF IInv, TypeOK, InvGen, DockerRestart, Started
  <2>5. InvTouched'
    BY <1>5 DEF IInv, TypeOK, InvTouched, DockerRestart, Begin, Started, Deliver, Nil, Err
  <2>6. NilMeansDone'
    <3>1. /\ UNCHANGED <<cmd, base>> /\ ok' \subseteq ok \cup {c}
          /\ c \notin ok
      BY <1>5 DEF IInv, InvPlace, DockerRestart, Begin, Nil, Err
    <3>2. \A x \in Containers :
            /\ got[x] \subseteq got'[x] /\ gen[x] <= gen'[x]
            /\ exists'[x] => exists[x]
            /\ x \in ok /\ ran[x] = "ok" => ran'[x] = "ok"
      BY <1>5, CommandType, DeliverType, StartedType DEF IInv, TypeOK, DockerRestart
    <3>3. c \in ok' => Done(c)'
      BY <1>5, <3>1, StartedType DEF IInv, TypeOK, InvGen, Done, DockerRestart, Begin, Err
    <3> QED
      BY <2>1, <3>1, <3>2, <3>3, DoneKept
  <2> QED
    BY <2>1, <2>2, <2>3, <2>4, <2>5, <2>6 DEF IInv
<1>6. ASSUME NEW c \in Containers, DockerRemove(c)
      PROVE  IInv'
  <2>1. TypeOK'
    <3>1. faults' \in 0..MaxFaults
      BY <1>6, CallType DEF IInv, DockerRemove
    <3>2. /\ pc' \in {"idle", "each"}
          /\ todo' \subseteq Containers /\ ok' \subseteq Containers
          /\ blame' \subseteq Containers
          /\ cur' \in Containers \cup {None}
          /\ stage' \in {"none", "kill", "term", "grace", "last", "delete", "start", "force",
                         "forcewait", "forcedelete", "remove", "exec", "drain", "status"}
          /\ (cur' = None) = (stage' = "none")
      BY <1>6, LoopType DEF IInv, DockerRemove
    <3>3. got' \in [Containers -> SUBSET Signals]
      BY <1>6, CommandType, DeliverType DEF IInv, DockerRemove
    <3>4. /\ task' \in [Containers -> {"up", "none", "exited"}]
          /\ exists' \in [Containers -> BOOLEAN]
      BY <1>6, GoneType DEF IInv, TypeOK, DockerRemove
    <3> QED
      BY <1>6, <3>1, <3>2, <3>3, <3>4 DEF IInv, TypeOK, Signals, DockerRemove
  <2>2. InvPlace'
    BY <1>6 DEF IInv, InvPlace, DockerRemove, Begin, Nil, Err
  <2>3. InvStage'
    BY <1>6 DEF IInv, InvStage, DockerRemove, Nil, Err
  <2>4. InvGen'
    BY <1>6 DEF IInv, InvGen, DockerRemove
  <2>5. InvTouched'
    BY <1>6 DEF IInv, TypeOK, InvTouched, DockerRemove, Begin, Deliver, Nil, Err
  <2>6. NilMeansDone'
    <3>1. /\ UNCHANGED <<cmd, base>> /\ ok' \subseteq ok \cup {c}
          /\ c \notin ok
      BY <1>6 DEF IInv, InvPlace, DockerRemove, Begin, Nil, Err
    <3>2. \A x \in Containers :
            /\ got[x] \subseteq got'[x] /\ gen[x] <= gen'[x]
            /\ x \in ok /\ ran[x] = "ok" => ran'[x] = "ok"
      BY <1>6, CommandType, DeliverType DEF IInv, TypeOK, DockerRemove
    <3>3. \A x \in Containers : exists'[x] => exists[x]
      BY <1>6, GoneType DEF IInv, DockerRemove
    <3>4. c \in ok' => Done(c)'
      BY <1>6, <3>1, GoneType DEF IInv, Done, DockerRemove, Begin, Err
    <3> QED
      BY <2>1, <3>1, <3>2, <3>3, <3>4, DoneKept
  <2> QED
    BY <2>1, <2>2, <2>3, <2>4, <2>5, <2>6 DEF IInv
<1>7. ASSUME NEW c \in Containers, GetTask(c)
      PROVE  IInv'
  <2>1. TypeOK'
    BY <1>7, OpsAssumption DEF IInv, TypeOK, GetTask, Begin, Goto, Err, CallFails,
       CallSucceeds, Fault, world
  <2>2. InvPlace'
    BY <1>7 DEF IInv, InvPlace, GetTask, Begin, Goto, Err
  <2>3. InvStage'
    BY <1>7 DEF IInv, InvStage, GetTask, Begin, Goto, Err
  <2>4. InvGen'
    BY <1>7 DEF IInv, InvGen, GetTask, world
  <2>5. InvTouched'
    BY <1>7, OpsAssumption DEF IInv, InvTouched, GetTask, Begin, Goto, Err, world
  <2>6. NilMeansDone'
    BY <1>7 DEF IInv, NilMeansDone, GetTask, Goto, Err, world
  <2> QED
    BY <2>1, <2>2, <2>3, <2>4, <2>5, <2>6 DEF IInv
<1>8. ASSUME NEW c \in Containers, KillTask(c)
      PROVE  IInv'
  <2>1. TypeOK'
    <3>1. faults' \in 0..MaxFaults
      BY <1>8, CallType DEF IInv, KillTask
    <3>2. /\ pc' \in {"idle", "each"}
          /\ todo' \subseteq Containers /\ ok' \subseteq Containers
          /\ blame' \subseteq Containers
          /\ cur' \in Containers \cup {None}
          /\ stage' \in {"none", "kill", "term", "grace", "last", "delete", "start", "force",
                         "forcewait", "forcedelete", "remove", "exec", "drain", "status"}
          /\ (cur' = None) = (stage' = "none")
      BY <1>8, LoopType DEF IInv, KillTask
    <3>3. got' \in [Containers -> SUBSET Signals]
      BY <1>8, CommandType, DeliverType DEF IInv, KillTask
    <3> QED
      BY <1>8, <3>1, <3>2, <3>3 DEF IInv, TypeOK, Signals, KillTask
  <2>2. InvPlace'
    BY <1>8, OpsAssumption DEF IInv, InvPlace, KillTask, At, Nil, Err
  <2>3. InvStage'
    BY <1>8 DEF IInv, InvStage, KillTask, Nil, Err
  <2>4. InvGen'
    BY <1>8 DEF IInv, InvGen, KillTask
  <2>5. InvTouched'
    BY <1>8 DEF IInv, TypeOK, InvTouched, KillTask, At, Deliver, Nil, Err
  <2>6. NilMeansDone'
    <3>1. /\ UNCHANGED <<cmd, base>> /\ ok' \subseteq ok \cup {c}
          /\ c \notin ok
      BY <1>8, OpsAssumption DEF IInv, InvPlace, KillTask, At, Nil, Err
    <3>2. \A x \in Containers :
            /\ got[x] \subseteq got'[x] /\ gen[x] <= gen'[x]
            /\ exists'[x] => exists[x]
            /\ x \in ok /\ ran[x] = "ok" => ran'[x] = "ok"
      BY <1>8, CommandType, DeliverType DEF IInv, TypeOK, KillTask
    <3>3. c \in ok' => Done(c)'
      BY <1>8, <3>1 DEF IInv, TypeOK, InvStage, Done, KillTask, At, Deliver, Err
    <3> QED
      BY <2>1, <3>1, <3>2, <3>3, DoneKept
  <2> QED
    BY <2>1, <2>2, <2>3, <2>4, <2>5, <2>6 DEF IInv
<1>9. ASSUME NEW c \in Containers, StopTask(c)
      PROVE  IInv'
  <2>1. TypeOK'
    <3>1. faults' \in 0..MaxFaults
      BY <1>9, CallType DEF IInv, StopTask
    <3>2. /\ pc' \in {"idle", "each"}
          /\ todo' \subseteq Containers /\ ok' \subseteq Containers
          /\ blame' \subseteq Containers
          /\ cur' \in Containers \cup {None}
          /\ stage' \in {"none", "kill", "term", "grace", "last", "delete", "start", "force",
                         "forcewait", "forcedelete", "remove", "exec", "drain", "status"}
          /\ (cur' = None) = (stage' = "none")
      BY <1>9, LoopType DEF IInv, StopTask
    <3>3. got' \in [Containers -> SUBSET Signals]
      BY <1>9, CommandType, DeliverType DEF IInv, StopTask
    <3> QED
      BY <1>9, <3>1, <3>2, <3>3 DEF IInv, TypeOK, Signals, StopTask
  <2>2. InvPlace'
    BY <1>9, OpsAssumption DEF IInv, InvPlace, StopTask, At, Goto, Err
  <2>3. InvStage'
    BY <1>9 DEF IInv, InvStage, StopTask, At, Goto, Err
  <2>4. InvGen'
    BY <1>9 DEF IInv, InvGen, StopTask
  <2>5. InvTouched'
    BY <1>9 DEF IInv, TypeOK, InvTouched, StopTask, At, Goto, Deliver, Err
  <2>6. NilMeansDone'
    BY <1>9 DEF IInv, NilMeansDone, InvStage, StopTask, At, Goto, Err
  <2> QED
    BY <2>1, <2>2, <2>3, <2>4, <2>5, <2>6 DEF IInv
<1>10. ASSUME NEW c \in Containers, AwaitExit(c)
      PROVE  IInv'
  <2>1. TypeOK'
    <3>1. faults' \in 0..MaxFaults
      BY <1>10, CallType DEF IInv, AwaitExit, WaitFires
    <3>2. /\ pc' \in {"idle", "each"}
          /\ todo' \subseteq Containers /\ ok' \subseteq Containers
          /\ blame' \subseteq Containers
          /\ cur' \in Containers \cup {None}
          /\ stage' \in {"none", "kill", "term", "grace", "last", "delete", "start", "force",
                         "forcewait", "forcedelete", "remove", "exec", "drain", "status"}
          /\ (cur' = None) = (stage' = "none")
      BY <1>10, LoopType DEF IInv, AwaitExit
    <3>3. got' \in [Containers -> SUBSET Signals]
      BY <1>10, CommandType, DeliverType DEF IInv, AwaitExit
    <3> QED
      BY <1>10, <3>1, <3>2, <3>3 DEF IInv, TypeOK, Signals, AwaitExit
  <2>2. InvPlace'
    BY <1>10, OpsAssumption DEF IInv, InvPlace, AwaitExit, At, Goto, Err
  <2>3. InvStage'
    BY <1>10 DEF IInv, InvStage, AwaitExit, At, Goto, Err
  <2>4. InvGen'
    BY <1>10 DEF IInv, InvGen, AwaitExit
  <2>5. InvTouched'
    BY <1>10 DEF IInv, TypeOK, InvTouched, AwaitExit, At, Goto, Deliver, Err
  <2>6. NilMeansDone'
    BY <1>10 DEF IInv, NilMeansDone, InvStage, AwaitExit, Goto, Err
  <2> QED
    BY <2>1, <2>2, <2>3, <2>4, <2>5, <2>6 DEF IInv
<1>11. ASSUME NEW c \in Containers, DeleteTask(c)
      PROVE  IInv'
  <2>1. TypeOK'
    <3>1. faults' \in 0..MaxFaults
      BY <1>11, CallType DEF IInv, DeleteTask
    <3>2. /\ pc' \in {"idle", "each"}
          /\ todo' \subseteq Containers /\ ok' \subseteq Containers
          /\ blame' \subseteq Containers
          /\ cur' \in Containers \cup {None}
          /\ stage' \in {"none", "kill", "term", "grace", "last", "delete", "start", "force",
                         "forcewait", "forcedelete", "remove", "exec", "drain", "status"}
          /\ (cur' = None) = (stage' = "none")
      BY <1>11, LoopType DEF IInv, DeleteTask
    <3>3. task' \in [Containers -> {"up", "none", "exited"}]
      BY <1>11 DEF IInv, TypeOK, DeleteTask
    <3> QED
      BY <1>11, <3>1, <3>2, <3>3 DEF IInv, TypeOK, DeleteTask
  <2>2. InvPlace'
    BY <1>11 DEF IInv, InvPlace, DeleteTask, At, Goto
  <2>3. InvStage'
    BY <1>11 DEF IInv, InvStage, DeleteTask, At, Goto
  <2>4. InvGen'
    BY <1>11 DEF IInv, InvGen, DeleteTask
  <2>5. InvTouched'
    BY <1>11 DEF IInv, InvTouched, DeleteTask, At, Goto
  <2>6. NilMeansDone'
    BY <1>11 DEF IInv, NilMeansDone, DeleteTask, Goto
  <2> QED
    BY <2>1, <2>2, <2>3, <2>4, <2>5, <2>6 DEF IInv
<1>12. ASSUME NEW c \in Containers, StartTask(c)
      PROVE  IInv'
  <2>1. TypeOK'
    <3>1. faults' \in 0..MaxFaults
      BY <1>12, CallType DEF IInv, StartTask
    <3>2. /\ pc' \in {"idle", "each"}
          /\ todo' \subseteq Containers /\ ok' \subseteq Containers
          /\ blame' \subseteq Containers
          /\ cur' \in Containers \cup {None}
          /\ stage' \in {"none", "kill", "term", "grace", "last", "delete", "start", "force",
                         "forcewait", "forcedelete", "remove", "exec", "drain", "status"}
          /\ (cur' = None) = (stage' = "none")
      BY <1>12, LoopType DEF IInv, StartTask
    <3>3. /\ task' \in [Containers -> {"up", "none", "exited"}]
          /\ gen' \in [Containers -> Nat]
      BY <1>12, StartedType DEF IInv, TypeOK, StartTask
    <3> QED
      BY <1>12, <3>1, <3>2, <3>3 DEF IInv, TypeOK, StartTask
  <2>2. InvPlace'
    BY <1>12, OpsAssumption DEF IInv, InvPlace, StartTask, At, Nil, Err
  <2>3. InvStage'
    BY <1>12 DEF IInv, InvStage, StartTask, Nil, Err
  <2>4. InvGen'
    BY <1>12 DEF IInv, TypeOK, InvGen, StartTask, Started
  <2>5. InvTouched'
    BY <1>12 DEF IInv, TypeOK, InvTouched, StartTask, At, Started, Nil, Err
  <2>6. NilMeansDone'
    <3>1. /\ UNCHANGED <<cmd, base>> /\ ok' \subseteq ok \cup {c}
          /\ c \notin ok
      BY <1>12, OpsAssumption DEF IInv, InvPlace, StartTask, At, Nil, Err
    <3>2. \A x \in Containers :
            /\ got[x] \subseteq got'[x] /\ gen[x] <= gen'[x]
            /\ exists'[x] => exists[x]
            /\ x \in ok /\ ran[x] = "ok" => ran'[x] = "ok"
      BY <1>12, StartedType DEF IInv, TypeOK, StartTask
    <3>3. c \in ok' => Done(c)'
      BY <1>12, <3>1, StartedType DEF IInv, TypeOK, InvStage, InvGen, Done, StartTask, At,
         Err
    <3> QED
      BY <2>1, <3>1, <3>2, <3>3, DoneKept
  <2> QED
    BY <2>1, <2>2, <2>3, <2>4, <2>5, <2>6 DEF IInv
<1>13. ASSUME NEW c \in Containers, LoadContainer(c)
      PROVE  IInv'
  <2>1. TypeOK'
    BY <1>13, OpsAssumption DEF IInv, TypeOK, LoadContainer, Goto, Err, CallFails,
       CallSucceeds, Fault, world
  <2>2. InvPlace'
    BY <1>13 DEF IInv, InvPlace, LoadContainer, Begin, Goto, Err
  <2>3. InvStage'
    BY <1>13 DEF IInv, InvStage, LoadContainer, Begin, Goto, Err
  <2>4. InvGen'
    BY <1>13 DEF IInv, InvGen, LoadContainer, world
  <2>5. InvTouched'
    BY <1>13, OpsAssumption DEF IInv, InvTouched, LoadContainer, Begin, Goto, Err, world
  <2>6. NilMeansDone'
    BY <1>13 DEF IInv, NilMeansDone, LoadContainer, Goto, Err, world
  <2> QED
    BY <2>1, <2>2, <2>3, <2>4, <2>5, <2>6 DEF IInv
<1>14. ASSUME NEW c \in Containers, ForceKillTask(c)
      PROVE  IInv'
  <2>1. TypeOK'
    <3>1. faults' \in 0..MaxFaults
      BY <1>14, CallType DEF IInv, ForceKillTask
    <3>2. /\ pc' \in {"idle", "each"}
          /\ todo' \subseteq Containers /\ ok' \subseteq Containers
          /\ blame' \subseteq Containers
          /\ cur' \in Containers \cup {None}
          /\ stage' \in {"none", "kill", "term", "grace", "last", "delete", "start", "force",
                         "forcewait", "forcedelete", "remove", "exec", "drain", "status"}
          /\ (cur' = None) = (stage' = "none")
      BY <1>14, LoopType DEF IInv, ForceKillTask
    <3>3. got' \in [Containers -> SUBSET Signals]
      BY <1>14, CommandType, DeliverType DEF IInv, ForceKillTask
    <3> QED
      BY <1>14, <3>1, <3>2, <3>3 DEF IInv, TypeOK, Signals, ForceKillTask
  <2>2. InvPlace'
    BY <1>14 DEF IInv, InvPlace, ForceKillTask, At, Goto
  <2>3. InvStage'
    BY <1>14 DEF IInv, InvStage, ForceKillTask, At, Goto
  <2>4. InvGen'
    BY <1>14 DEF IInv, InvGen, ForceKillTask
  <2>5. InvTouched'
    BY <1>14 DEF IInv, TypeOK, InvTouched, ForceKillTask, At, Goto, Deliver
  <2>6. NilMeansDone'
    BY <1>14 DEF IInv, NilMeansDone, InvStage, ForceKillTask, At, Goto
  <2> QED
    BY <2>1, <2>2, <2>3, <2>4, <2>5, <2>6 DEF IInv
<1>15. ASSUME NEW c \in Containers, ForceWait(c)
      PROVE  IInv'
  <2>1. TypeOK'
    BY <1>15, OpsAssumption DEF IInv, TypeOK, ForceWait, WaitFires, Goto, CallFails, Fault,
       world
  <2>2. InvPlace'
    BY <1>15 DEF IInv, InvPlace, ForceWait, At, Goto
  <2>3. InvStage'
    BY <1>15 DEF IInv, InvStage, ForceWait, At, Goto
  <2>4. InvGen'
    BY <1>15 DEF IInv, InvGen, ForceWait, world
  <2>5. InvTouched'
    BY <1>15 DEF IInv, InvTouched, ForceWait, At, Goto, world
  <2>6. NilMeansDone'
    BY <1>15 DEF IInv, NilMeansDone, ForceWait, Goto, world
  <2> QED
    BY <2>1, <2>2, <2>3, <2>4, <2>5, <2>6 DEF IInv
<1>16. ASSUME NEW c \in Containers, RemoveContainer(c)
      PROVE  IInv'
  <2>1. TypeOK'
    <3>1. faults' \in 0..MaxFaults
      BY <1>16, CallType DEF IInv, RemoveContainer
    <3>2. /\ pc' \in {"idle", "each"}
          /\ todo' \subseteq Containers /\ ok' \subseteq Containers
          /\ blame' \subseteq Containers
          /\ cur' \in Containers \cup {None}
          /\ stage' \in {"none", "kill", "term", "grace", "last", "delete", "start", "force",
                         "forcewait", "forcedelete", "remove", "exec", "drain", "status"}
          /\ (cur' = None) = (stage' = "none")
      BY <1>16, LoopType DEF IInv, RemoveContainer
    <3>3. /\ task' \in [Containers -> {"up", "none", "exited"}]
          /\ exists' \in [Containers -> BOOLEAN]
      BY <1>16, GoneType DEF IInv, TypeOK, RemoveContainer
    <3> QED
      BY <1>16, <3>1, <3>2, <3>3 DEF IInv, TypeOK, RemoveContainer
  <2>2. InvPlace'
    BY <1>16, OpsAssumption DEF IInv, InvPlace, RemoveContainer, At, Nil, Err
  <2>3. InvStage'
    BY <1>16 DEF IInv, InvStage, RemoveContainer, Nil, Err
  <2>4. InvGen'
    BY <1>16 DEF IInv, InvGen, RemoveContainer
  <2>5. InvTouched'
    BY <1>16 DEF IInv, InvTouched, RemoveContainer, At, Nil, Err
  <2>6. NilMeansDone'
    <3>1. /\ UNCHANGED <<cmd, base>> /\ ok' \subseteq ok \cup {c}
          /\ c \notin ok
      BY <1>16, OpsAssumption DEF IInv, InvPlace, RemoveContainer, At, Nil, Err
    <3>2. \A x \in Containers :
            /\ got[x] \subseteq got'[x] /\ gen[x] <= gen'[x]
            /\ x \in ok /\ ran[x] = "ok" => ran'[x] = "ok"
      BY <1>16 DEF IInv, TypeOK, RemoveContainer
    <3>3. \A x \in Containers : exists'[x] => exists[x]
      BY <1>16, GoneType DEF IInv, RemoveContainer
    <3>4. c \in ok' => Done(c)'
      BY <1>16, <3>1, GoneType DEF IInv, InvStage, Done, RemoveContainer, At, Err
    <3> QED
      BY <2>1, <3>1, <3>2, <3>3, <3>4, DoneKept
  <2> QED
    BY <2>1, <2>2, <2>3, <2>4, <2>5, <2>6 DEF IInv
<1>17. ASSUME NEW c \in Containers, ExecStart(c)
      PROVE  IInv'
  <2>1. TypeOK'
    <3>1. faults' \in 0..MaxFaults
      BY <1>17, CallType DEF IInv, ExecStart
    <3>2. /\ pc' \in {"idle", "each"}
          /\ todo' \subseteq Containers /\ ok' \subseteq Containers
          /\ blame' \subseteq Containers
          /\ cur' \in Containers \cup {None}
          /\ stage' \in {"none", "kill", "term", "grace", "last", "delete", "start", "force",
                         "forcewait", "forcedelete", "remove", "exec", "drain", "status"}
          /\ (cur' = None) = (stage' = "none")
      BY <1>17, LoopType DEF IInv, ExecStart
    <3>3. ran' \in [Containers -> {"none", "running", "ok", "bad", "notfound"}]
      BY <1>17 DEF IInv, TypeOK, ExecStart
    <3> QED
      BY <1>17, <3>1, <3>2, <3>3 DEF IInv, TypeOK, ExecStart
  <2>2. InvPlace'
    BY <1>17, OpsAssumption DEF IInv, InvPlace, ExecStart, Begin, At, Goto, Err
  <2>3. InvStage'
    BY <1>17 DEF IInv, InvStage, ExecStart, Begin, At, Goto, Err
  <2>4. InvGen'
    BY <1>17 DEF IInv, InvGen, ExecStart
  <2>5. InvTouched'
    BY <1>17, OpsAssumption DEF IInv, TypeOK, InvTouched, ExecStart, Begin, At, Goto, Err
  <2>6. NilMeansDone'
    <3>1. /\ UNCHANGED <<cmd, base>> /\ ok' \subseteq ok \cup {c}
          /\ c \notin ok
      BY <1>17, OpsAssumption DEF IInv, InvPlace, ExecStart, Begin, At, Err, Goto
    <3>2. \A x \in Containers :
            /\ got[x] \subseteq got'[x] /\ gen[x] <= gen'[x]
            /\ exists'[x] => exists[x]
            /\ x \in ok /\ ran[x] = "ok" => ran'[x] = "ok"
      BY <1>17 DEF IInv, TypeOK, ExecStart, Begin, At, InvPlace
    <3>3. c \in ok' => Done(c)'
      BY <1>17, <3>1 DEF IInv, ExecStart, Goto, Err
    <3> QED
      BY <2>1, <3>1, <3>2, <3>3, DoneKept
  <2> QED
    BY <2>1, <2>2, <2>3, <2>4, <2>5, <2>6 DEF IInv
<1>18. ASSUME NEW c \in Containers, ExecDrain(c)
      PROVE  IInv'
  <2>1. TypeOK'
    BY <1>18, OpsAssumption DEF IInv, TypeOK, ExecDrain, Goto, Err, Fault, world
  <2>2. InvPlace'
    BY <1>18, OpsAssumption DEF IInv, InvPlace, ExecDrain, At, Goto, Err
  <2>3. InvStage'
    BY <1>18 DEF IInv, InvStage, ExecDrain, At, Goto, Err
  <2>4. InvGen'
    BY <1>18 DEF IInv, InvGen, ExecDrain, world
  <2>5. InvTouched'
    BY <1>18 DEF IInv, InvTouched, ExecDrain, At, Goto, Err, world
  <2>6. NilMeansDone'
    BY <1>18 DEF IInv, NilMeansDone, ExecDrain, Goto, Err, world
  <2> QED
    BY <2>1, <2>2, <2>3, <2>4, <2>5, <2>6 DEF IInv
<1>19. ASSUME NEW c \in Containers, ExecStatus(c)
      PROVE  IInv'
  <2>1. TypeOK'
    <3>1. faults' \in 0..MaxFaults
      BY <1>19, CallType DEF IInv, ExecStatus
    <3>2. /\ pc' \in {"idle", "each"}
          /\ todo' \subseteq Containers /\ ok' \subseteq Containers
          /\ blame' \subseteq Containers
          /\ cur' \in Containers \cup {None}
          /\ stage' \in {"none", "kill", "term", "grace", "last", "delete", "start", "force",
                         "forcewait", "forcedelete", "remove", "exec", "drain", "status"}
          /\ (cur' = None) = (stage' = "none")
      BY <1>19, LoopType DEF IInv, ExecStatus
    <3> QED
      BY <1>19, <3>1, <3>2 DEF IInv, TypeOK, world, ExecStatus
  <2>2. InvPlace'
    BY <1>19, OpsAssumption DEF IInv, InvPlace, ExecStatus, At, Nil, Err
  <2>3. InvStage'
    BY <1>19 DEF IInv, InvStage, ExecStatus, Nil, Err
  <2>4. InvGen'
    BY <1>19 DEF IInv, InvGen, ExecStatus, world
  <2>5. InvTouched'
    BY <1>19 DEF IInv, InvTouched, ExecStatus, At, Nil, Err, world
  <2>6. NilMeansDone'
    <3>1. /\ UNCHANGED <<cmd, base>> /\ ok' \subseteq ok \cup {c}
          /\ c \notin ok
      BY <1>19, OpsAssumption DEF IInv, InvPlace, ExecStatus, At, Nil, Err
    <3>2. \A x \in Containers :
            /\ got[x] \subseteq got'[x] /\ gen[x] <= gen'[x]
            /\ exists'[x] => exists[x]
            /\ x \in ok /\ ran[x] = "ok" => ran'[x] = "ok"
      BY <1>19 DEF IInv, TypeOK, ExecStatus, world
    <3>3. c \in ok' => Done(c)'
      BY <1>19, <3>1 DEF IInv, InvStage, Done, ExecStatus, world, At, Err
    <3> QED
      BY <2>1, <3>1, <3>2, <3>3, DoneKept
  <2> QED
    BY <2>1, <2>2, <2>3, <2>4, <2>5, <2>6 DEF IInv
<1>20. ASSUME Cancel
      PROVE  IInv'
  <2>1. TypeOK'
    BY <1>20 DEF IInv, TypeOK, Cancel, loop, world
  <2>2. InvPlace'
    BY <1>20 DEF IInv, InvPlace, Cancel, loop
  <2>3. InvStage'
    BY <1>20 DEF IInv, InvStage, Cancel, loop
  <2>4. InvGen'
    BY <1>20 DEF IInv, InvGen, Cancel, world
  <2>5. InvTouched'
    BY <1>20 DEF IInv, InvTouched, Cancel, loop, world
  <2>6. NilMeansDone'
    BY <1>20 DEF IInv, NilMeansDone, Cancel, loop, world
  <2> QED
    BY <2>1, <2>2, <2>3, <2>4, <2>5, <2>6 DEF IInv
<1>21. ASSUME NEW c \in Containers, Exit(c)
      PROVE  IInv'
  <2>1. TypeOK'
    BY <1>21 DEF IInv, TypeOK, Exit, loop
  <2>2. InvPlace'
    BY <1>21 DEF IInv, InvPlace, Exit, loop
  <2>3. InvStage'
    BY <1>21 DEF IInv, InvStage, Exit, loop
  <2>4. InvGen'
    BY <1>21 DEF IInv, InvGen, Exit
  <2>5. InvTouched'
    BY <1>21 DEF IInv, InvTouched, Exit, loop
  <2>6. NilMeansDone'
    BY <1>21 DEF IInv, TypeOK, NilMeansDone, Exit, loop
  <2> QED
    BY <2>1, <2>2, <2>3, <2>4, <2>5, <2>6 DEF IInv
<1>22. ASSUME NEW c \in Containers, Vanish(c)
      PROVE  IInv'
  <2>1. TypeOK'
    BY <1>22 DEF IInv, TypeOK, Vanish, Gone, loop
  <2>2. InvPlace'
    BY <1>22 DEF IInv, InvPlace, Vanish, loop
  <2>3. InvStage'
    BY <1>22 DEF IInv, InvStage, Vanish, loop
  <2>4. InvGen'
    BY <1>22 DEF IInv, InvGen, Vanish
  <2>5. InvTouched'
    BY <1>22 DEF IInv, InvTouched, Vanish, loop
  <2>6. NilMeansDone'
    BY <1>22, OpsAssumption DEF IInv, TypeOK, NilMeansDone, Command, Vanish, Gone, loop
  <2> QED
    BY <2>1, <2>2, <2>3, <2>4, <2>5, <2>6 DEF IInv
<1>23. ASSUME NEW c \in Containers, ExecExits(c)
      PROVE  IInv'
  <2>1. TypeOK'
    BY <1>23 DEF IInv, TypeOK, ExecExits, loop
  <2>2. InvPlace'
    BY <1>23 DEF IInv, InvPlace, ExecExits, loop
  <2>3. InvStage'
    BY <1>23 DEF IInv, InvStage, ExecExits, loop
  <2>4. InvGen'
    BY <1>23 DEF IInv, InvGen, ExecExits
  <2>5. InvTouched'
    BY <1>23 DEF IInv, InvTouched, ExecExits, loop
  <2>6. NilMeansDone'
    BY <1>23, OpsAssumption DEF IInv, TypeOK, NilMeansDone, Command, ExecExits, loop
  <2> QED
    BY <2>1, <2>2, <2>3, <2>4, <2>5, <2>6 DEF IInv
<1>24. CASE UNCHANGED vars
  BY <1>24 DEF vars, IInv, TypeOK, InvPlace, InvStage, InvGen, InvTouched, NilMeansDone
<1> QED
  BY <1>1, <1>2, <1>3, <1>4, <1>5, <1>6, <1>7, <1>8, <1>9, <1>10, <1>11, <1>12, <1>13,
     <1>14, <1>15, <1>16, <1>17, <1>18, <1>19, <1>20, <1>21, <1>22, <1>23, <1>24 DEF Next,
     RunStep

\* The inductive invariant holds at the start.
LEMMA InitIInv == Init => IInv
<1> SUFFICES ASSUME Init
             PROVE  IInv
  OBVIOUS
<1>1. TypeOK
  <2>1. exists \in [Containers -> BOOLEAN]
    BY DEF Init
  <2>2. /\ task \in [Containers -> {"up", "none", "exited"}]
        /\ gen \in [Containers -> Nat] /\ base \in [Containers -> Nat]
        /\ ran \in [Containers -> {"none", "running", "ok", "bad", "notfound"}]
    BY DEF Init
  <2>3. got \in [Containers -> SUBSET (LinuxSignals \cup SignalMap)]
    BY DEF Init
  <2>4. faults \in 0..MaxFaults /\ rounds \in 0..MaxRounds
    BY OpsAssumption DEF Init
  <2> QED
    BY <2>1, <2>2, <2>3, <2>4 DEF Init, TypeOK
<1>2. InvPlace /\ InvStage /\ NilMeansDone
  BY DEF Init, InvPlace, InvStage, NilMeansDone
<1>3. InvGen /\ InvTouched
  BY DEF Init, InvGen, InvTouched
<1> QED
  BY <1>1, <1>2, <1>3 DEF IInv

-----------------------------------------------------------------------------
(* Theorems *)

(***************************************************************************)
(* The inductive invariant holds of every run of kill, restart, rm, exec.  *)
(***************************************************************************)
THEOREM Invariance == Spec => []IInv
BY InitIInv, IInvPreserved, PTL DEF Spec

(***************************************************************************)
(* Type correctness of the loop, the client and the containers.            *)
(***************************************************************************)
THEOREM TypeCorrect == Spec => []TypeOK
<1>1. IInv => TypeOK
  BY DEF IInv
<1> QED
  BY Invariance, <1>1, PTL

(***************************************************************************)
(* A closure of kill, restart, rm or exec that returned nil has done what  *)
(* the command says.                                                       *)
(***************************************************************************)
THEOREM NilIsDone == Spec => []NilMeansDone
<1>1. IInv => NilMeansDone
  BY DEF IInv
<1> QED
  BY Invariance, <1>1, PTL

(***************************************************************************)
(* A run that is over accounts for every container it touched, and failed  *)
(* for at most one.                                                        *)
(***************************************************************************)
THEOREM Accounted == Spec => []TouchedIsAccountedFor
<1>1. IInv => TouchedIsAccountedFor
  <2> SUFFICES ASSUME IInv, pc = "idle"
               PROVE  /\ \A c \in Containers :
                           got[c] # {} \/ gen[c] > base[c] \/ ran[c] # "none" =>
                             c \in ok \cup blame
                      /\ \A c, d \in blame : c = d
    BY DEF TouchedIsAccountedFor
  <2>1. cur \notin Containers
    BY OpsAssumption DEF IInv, InvPlace
  <2> QED
    BY <2>1 DEF IInv, InvPlace, InvTouched
<1> QED
  BY Invariance, <1>1, PTL
=============================================================================
