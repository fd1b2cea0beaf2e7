-------------------------- MODULE StressTestProofs --------------------------
(***************************************************************************)
(* Proofs about StressResult and StressTest, for every set of clients and  *)
(* of situations and any number of faults.                                 *)
(***************************************************************************)
EXTENDS StressTest, TLAPS

(***************************************************************************)
(* The inductive invariant of a stress test.                               *)
(***************************************************************************)

\* Where stressContainer and the goroutine can be for a client, and how far
\* they can be apart: a select that waits is one nothing was sent to yet.
InvPlace ==
  /\ pc = "dry" => mode = "dry"
  /\ mode = "dry" => pc \in {"dry", "done"}
  /\ mode = "direct" => pc \in {"launch", "select", "parked", "stop", "done"}
  /\ pc = "attach" => Engine
  /\ pc = "starting" => mode = "docker"
  /\ pc \in {"dry", "create", "attach", "launch"} => gor = "off"
  /\ pc = "start" /\ mode # "docker" => gor = "off"
  /\ pc = "start" /\ mode = "docker" => gor # "off"
  /\ pc \in {"starting", "select", "stop"} => gor # "off"
  /\ pc = "parked" => gor \in {"wait", "inspect", "cleanup", "send"}
  /\ gor = "gone" => pc = "done"
  /\ parked => pc \in {"parked", "stop", "done"}

\* What stressContainer returned, and how.
InvReturn ==
  /\ via = "none" <=> pc # "done"
  /\ verdict = "none" <=> pc # "done"
  /\ via = "call" /\ verdict = "ok" => mode = "dry"
  /\ via = "call" => ~parked

\* StressContainer started stress-ng and said so.
Started ==
  \/ pc \in {"starting", "select", "parked", "stop"}
  \/ pc = "launch" /\ mode # "direct"
  \/ via \in {"channel", "stop"}

\* The sidecar and stress-ng as far as the caller got.
InvWork ==
  /\ pc \in {"dry", "create"} => work = "none" /\ ~exists /\ ~orphan
  /\ pc \in {"attach", "start"} => work = "created" /\ exists
  /\ pc = "launch" /\ mode = "direct" => work = "none"
  /\ Started => work \in {"running", "ok", "bad"} /\ (Engine => exists \/ Exited)
  /\ msg = "ok" => work = "ok"

\* What is in a channel is the goroutine's report, and so is what a select
\* that waited received.
InvChannels ==
  /\ closed # {} => gor \in {"close2", "end", "gone"}
  /\ full # "none" =>
       /\ gor \in {"close1", "close2", "end", "gone"}
       /\ full = IF msg = "ok" THEN "Output" ELSE "Errors"
  /\ pc # "done" /\ gor \in {"close1", "close2", "end"} => full # "none"
  /\ parked /\ via = "channel" =>
       /\ gor \in {"close1", "close2", "end", "gone"}
       /\ verdict = "ok" <=> msg = "ok"

\* Without faults a goroutine that no longer waits has seen stress-ng exit,
\* and the one of the containerd sidecar reaps before it reports.
InvOver ==
  /\ Engine /\ faults = 0 /\ gor \in {"inspect", "send", "close1", "close2", "end"}
       /\ via # "call" => Exited
  /\ mode = "sidecar" /\ faults = 0 /\ ~cancelled =>
       /\ gor = "cleanup" => Exited
       /\ gor \in {"send", "close1", "close2", "end"} => ~exists /\ ~task

IInv ==
  /\ TypeOK /\ InvPlace /\ InvReturn /\ InvWork /\ InvChannels /\ InvOver
  /\ SuccessMeansOver /\ NeverStartedIsRemoved
-----------------------------------------------------------------------------
(* The inductive invariant holds *)

\* The inductive invariant holds at the start.
LEMMA InitIInv == Init => IInv
<1> SUFFICES ASSUME Init
             PROVE  IInv
  OBVIOUS
<1>1. TypeOK
  <2>1. pc \in {"dry", "launch", "create"}
    BY DEF Init
  <2>2. /\ cancelled \in BOOLEAN /\ fired \in BOOLEAN /\ task \in BOOLEAN
        /\ exists \in BOOLEAN /\ parked \in BOOLEAN /\ orphan \in BOOLEAN
    BY DEF Init
  <2> QED
    BY <2>1, <2>2, StressAssumption DEF Init, TypeOK
<1>2. InvPlace
  BY DEF Init, InvPlace
<1>3. InvReturn /\ InvWork /\ InvChannels /\ InvOver
  BY DEF Init, InvReturn, InvWork, InvChannels, InvOver, Started
<1>4. SuccessMeansOver /\ NeverStartedIsRemoved
  BY DEF Init, SuccessMeansOver, NeverStartedIsRemoved
<1> QED
  BY <1>1, <1>2, <1>3, <1>4 DEF IInv

\* What StopContainerWithID does, whichever identifier it knows.
LEMMA StopEffect ==
  ASSUME StopContainerWithID
  PROVE  /\ pc = "stop" /\ pc' = "done" /\ via' = "stop" /\ verdict' \in {"ok", "failed"}
         /\ task' = FALSE \/ task' = task
         /\ target' = "down" \/ target' = target
         /\ verdict' = "ok" => work' = IF work = "running" THEN "bad" ELSE work
         /\ verdict' # "ok" => work' = work
         /\ UNCHANGED faults \/ Fault
         /\ UNCHANGED <<mode, cancelled, fired, gor, msg, channels, exists, parked, orphan>>
BY DEF StopContainerWithID, Return

\* Every step of stressContainer, of the goroutine and of the runtime keeps the invariant.
LEMMA IInvPreserved ==
  ASSUME IInv, [Next]_vars
  PROVE  IInv'
<1>1. ASSUME DryRun
      PROVE  IInv'
  <2>1. TypeOK'
    BY <1>1 DEF IInv, TypeOK, DryRun, Return, channels
  <2>2. InvPlace'
    BY <1>1 DEF IInv, InvPlace, DryRun, Return
  <2>3. InvReturn'
    BY <1>1 DEF IInv, InvReturn, InvPlace, DryRun, Return
  <2>4. InvWork'
    BY <1>1 DEF IInv, InvWork, Started, DryRun, Return
  <2>5. InvChannels'
    BY <1>1 DEF IInv, InvChannels, DryRun, Return, channels
  <2>6. InvOver'
    BY <1>1 DEF IInv, InvOver, InvPlace, DryRun
  <2>7. SuccessMeansOver'
    BY <1>1 DEF IInv, SuccessMeansOver, InvPlace, Engine, DryRun
  <2>8. NeverStartedIsRemoved'
    BY <1>1 DEF IInv, NeverStartedIsRemoved, InvWork, DryRun
  <2> QED
    BY <2>1, <2>2, <2>3, <2>4, <2>5, <2>6, <2>7, <2>8 DEF IInv
<1>2. ASSUME CreateSidecar
      PROVE  IInv'
  <2>1. TypeOK'
    <3>1. faults' \in 0..MaxFaults
      BY <1>2, StressAssumption DEF CreateSidecar, CallFails, CallSucceeds, Fault, IInv,
         TypeOK
    <3>2. exists' \in BOOLEAN /\ orphan' \in BOOLEAN
      BY <1>2 DEF CreateSidecar, IInv, TypeOK
    <3> QED
      BY <1>2, <3>1, <3>2 DEF CreateSidecar, Return, channels, IInv, TypeOK
  <2>2. InvPlace'
    BY <1>2 DEF IInv, InvPlace, Engine, CreateSidecar, Return
  <2>3. InvReturn'
    BY <1>2 DEF IInv, InvReturn, InvPlace, CreateSidecar, Return
  <2>4. InvWork'
    BY <1>2 DEF IInv, InvWork, Started, CreateSidecar, Return
  <2>5. InvChannels'
    BY <1>2 DEF IInv, InvChannels, CreateSidecar, Return, channels
  <2>6. InvOver'
    BY <1>2 DEF IInv, InvOver, InvPlace, CreateSidecar
  <2>7. SuccessMeansOver'
    BY <1>2 DEF IInv, SuccessMeansOver, InvReturn, CreateSidecar, Return
  <2>8. NeverStartedIsRemoved'
    BY <1>2 DEF IInv, NeverStartedIsRemoved, CreateSidecar
  <2> QED
    BY <2>1, <2>2, <2>3, <2>4, <2>5, <2>6, <2>7, <2>8 DEF IInv
<1>3. ASSUME AttachSidecar
      PROVE  IInv'
  <2>1. TypeOK'
    <3>1. faults' \in 0..MaxFaults
      BY <1>3, StressAssumption DEF AttachSidecar, CallFails, CallSucceeds, Fault, IInv,
         TypeOK
    <3>2. exists' \in BOOLEAN /\ orphan' \in BOOLEAN
      BY <1>3 DEF AttachSidecar, RemoveNeverStarted, IInv, TypeOK
    <3> QED
      BY <1>3, <3>1, <3>2 DEF AttachSidecar, Return, channels, IInv, TypeOK
  <2>2. InvPlace'
    BY <1>3 DEF IInv, InvPlace, AttachSidecar, Return
  <2>3. InvReturn'
    BY <1>3 DEF IInv, InvReturn, InvPlace, AttachSidecar, Return
  <2>4. InvWork'
    BY <1>3 DEF IInv, InvWork, Started, AttachSidecar, Return
  <2>5. InvChannels'
    BY <1>3 DEF IInv, InvChannels, InvPlace, AttachSidecar, channels
  <2>6. InvOver'
    BY <1>3 DEF IInv, InvOver, InvPlace, AttachSidecar
  <2>7. SuccessMeansOver'
    BY <1>3 DEF IInv, SuccessMeansOver, InvReturn, AttachSidecar, Return
  <2>8. NeverStartedIsRemoved'
    BY <1>3 DEF IInv, NeverStartedIsRemoved, AttachSidecar, RemoveNeverStarted
  <2> QED
    BY <2>1, <2>2, <2>3, <2>4, <2>5, <2>6, <2>7, <2>8 DEF IInv
<1>4. ASSUME StartSidecar
      PROVE  IInv'
  <2>1. TypeOK'
    <3>1. faults' \in 0..MaxFaults
      BY <1>4, StressAssumption DEF StartSidecar, CallFails, CallSucceeds, Fault, IInv,
         TypeOK
    <3>2. exists' \in BOOLEAN /\ orphan' \in BOOLEAN /\ task' \in BOOLEAN
      BY <1>4 DEF StartSidecar, RemoveNeverStarted, IInv, TypeOK
    <3> QED
      BY <1>4, <3>1, <3>2 DEF StartSidecar, Return, channels, IInv, TypeOK
  <2>2. InvPlace'
    BY <1>4 DEF IInv, InvPlace, StartSidecar, Return
  <2>3. InvReturn'
    BY <1>4 DEF IInv, InvReturn, InvPlace, StartSidecar, Return
  <2>4. InvWork'
    BY <1>4 DEF IInv, InvWork, InvPlace, Started, StartSidecar, Return
  <2>5. InvChannels'
    BY <1>4 DEF IInv, InvChannels, StartSidecar, Return, channels
  <2>6. InvOver'
    BY <1>4 DEF IInv, InvOver, InvPlace, InvWork, Exited, Engine, StartSidecar, Return,
       CallSucceeds
  <2>7. SuccessMeansOver'
    BY <1>4 DEF IInv, SuccessMeansOver, InvReturn, StartSidecar, Return
  <2>8. NeverStartedIsRemoved'
    BY <1>4 DEF IInv, NeverStartedIsRemoved, StartSidecar, RemoveNeverStarted
  <2> QED
    BY <2>1, <2>2, <2>3, <2>4, <2>5, <2>6, <2>7, <2>8 DEF IInv
<1>5. ASSUME StartReturns
      PROVE  IInv'
  <2>1. TypeOK'
    BY <1>5 DEF IInv, TypeOK, StartReturns, channels
  <2>2. InvPlace'
    BY <1>5 DEF IInv, InvPlace, StartReturns
  <2>3. InvReturn'
    BY <1>5 DEF IInv, InvReturn, StartReturns
  <2>4. InvWork'
    BY <1>5 DEF IInv, InvWork, Started, Exited, Engine, StartReturns
  <2>5. InvChannels'
    BY <1>5 DEF IInv, InvChannels, StartReturns, channels
  <2>6. InvOver'
    BY <1>5 DEF IInv, InvOver, Exited, Engine, StartReturns
  <2>7. SuccessMeansOver'
    BY <1>5 DEF IInv, SuccessMeansOver, InvReturn, StartReturns
  <2>8. NeverStartedIsRemoved'
    BY <1>5 DEF IInv, NeverStartedIsRemoved, StartReturns
  <2> QED
    BY <2>1, <2>2, <2>3, <2>4, <2>5, <2>6, <2>7, <2>8 DEF IInv
<1>6. ASSUME LaunchGoroutine
      PROVE  IInv'
  <2>1. TypeOK'
    BY <1>6 DEF IInv, TypeOK, LaunchGoroutine, channels
  <2>2. InvPlace'
    BY <1>6 DEF IInv, InvPlace, LaunchGoroutine
  <2>3. InvReturn'
    BY <1>6 DEF IInv, InvReturn, LaunchGoroutine
  <2>4. InvWork'
    BY <1>6 DEF IInv, InvWork, Started, Exited, Engine, LaunchGoroutine
  <2>5. InvChannels'
    BY <1>6 DEF IInv, InvChannels, InvPlace, LaunchGoroutine, channels
  <2>6. InvOver'
    BY <1>6 DEF IInv, InvOver, LaunchGoroutine
  <2>7. SuccessMeansOver'
    BY <1>6 DEF IInv, SuccessMeansOver, InvReturn, LaunchGoroutine
  <2>8. NeverStartedIsRemoved'
    BY <1>6 DEF IInv, NeverStartedIsRemoved, LaunchGoroutine
  <2> QED
    BY <2>1, <2>2, <2>3, <2>4, <2>5, <2>6, <2>7, <2>8 DEF IInv
<1>7. ASSUME Select
      PROVE  IInv'
  <2>1. TypeOK'
    <3>1. faults' \in 0..MaxFaults
      BY <1>7 DEF Select, IInv, TypeOK
    <3>2. parked' \in BOOLEAN
      BY <1>7 DEF Select, IInv, TypeOK
    <3> QED
      BY <1>7, <3>1, <3>2 DEF Select, Receive, Return, IInv, TypeOK
  <2>2. InvPlace'
    BY <1>7 DEF IInv, InvPlace, TypeOK, InvChannels, Select, Ready, Receive, Return
  <2>3. InvReturn'
    BY <1>7 DEF IInv, InvReturn, Select, Receive, Return
  <2>4. InvWork'
    BY <1>7 DEF IInv, InvWork, Started, Exited, Engine, Select, Receive, Return
  <2>5. InvChannels'
    BY <1>7 DEF IInv, InvChannels, InvPlace, InvReturn, Select, Receive, Return
  <2>6. InvOver'
    BY <1>7 DEF IInv, InvOver, InvReturn, Exited, Engine, Select
  <2>7. SuccessMeansOver'
    BY <1>7 DEF IInv, SuccessMeansOver, InvPlace, InvReturn, InvChannels, InvOver, Exited,
       Engine, Select, Ready
  <2>8. NeverStartedIsRemoved'
    BY <1>7 DEF IInv, NeverStartedIsRemoved, Select, Receive, Return
  <2> QED
    BY <2>1, <2>2, <2>3, <2>4, <2>5, <2>6, <2>7, <2>8 DEF IInv
<1>8. ASSUME StopContainerWithID
      PROVE  IInv'
  <2>1. TypeOK'
    <3>1. faults' \in 0..MaxFaults
      BY <1>8, StopEffect, StressAssumption DEF Fault, IInv, TypeOK
    <3>2. task' \in BOOLEAN
      BY <1>8, StopEffect DEF IInv, TypeOK
    <3>3. work' \in {"none", "created", "running", "ok", "bad"}
      BY <1>8, StopEffect DEF IInv, TypeOK
    <3>4. target' \in {"up", "down"}
      BY <1>8, StopEffect DEF IInv, TypeOK
    <3> QED
      BY <1>8, <3>1, <3>2, <3>3, <3>4, StopEffect DEF channels, IInv, TypeOK
  <2>2. InvPlace'
    BY <1>8, StopEffect DEF IInv, InvPlace
  <2>3. InvReturn'
    BY <1>8, StopEffect DEF IInv, InvReturn
  <2>4. InvWork'
    BY <1>8, StopEffect DEF IInv, InvWork, Started, Exited, Engine
  <2>5. InvChannels'
    BY <1>8, StopEffect DEF IInv, InvChannels, channels
  <2>6. InvOver'
    <3>1. /\ Exited => Exited'
          /\ faults' = 0 => faults = 0
          /\ UNCHANGED <<mode, gor, cancelled, exists>> /\ via # "call"
      BY <1>8, StopEffect DEF Exited, Fault, IInv, TypeOK, InvReturn
    <3>2. ~task => ~task'
      BY <1>8, StopEffect
    <3> QED
      BY <3>1, <3>2 DEF IInv, InvOver, Engine
  <2>7. SuccessMeansOver'
    BY <1>8, StopEffect DEF IInv, SuccessMeansOver, InvWork, Started, Exited
  <2>8. NeverStartedIsRemoved'
    BY <1>8, StopEffect DEF IInv, NeverStartedIsRemoved
  <2> QED
    BY <2>1, <2>2, <2>3, <2>4, <2>5, <2>6, <2>7, <2>8 DEF IInv
<1>9. ASSUME DrainOutput
      PROVE  IInv'
  <2>1. TypeOK'
    BY <1>9, StressAssumption DEF IInv, TypeOK, DrainOutput, Fault, channels
  <2>2. InvPlace'
    BY <1>9 DEF IInv, InvPlace, DrainOutput
  <2>3. InvReturn'
    BY <1>9 DEF IInv, InvReturn, DrainOutput
  <2>4. InvWork'
    BY <1>9 DEF IInv, InvWork, Started, Exited, DrainOutput
  <2>5. InvChannels'
    BY <1>9 DEF IInv, InvChannels, DrainOutput, channels
  <2>6. InvOver'
    BY <1>9 DEF IInv, InvOver, TypeOK, InvPlace, InvReturn, InvWork, Started, Exited,
       DrainOutput, Fault
  <2>7. SuccessMeansOver'
    BY <1>9 DEF IInv, SuccessMeansOver, TypeOK, Exited, DrainOutput, Fault
  <2>8. NeverStartedIsRemoved'
    BY <1>9 DEF IInv, NeverStartedIsRemoved, DrainOutput
  <2> QED
    BY <2>1, <2>2, <2>3, <2>4, <2>5, <2>6, <2>7, <2>8 DEF IInv
<1>10. ASSUME InspectExit
      PROVE  IInv'
  <2>1. TypeOK'
    BY <1>10, StressAssumption DEF IInv, TypeOK, InspectExit, CallSucceeds, CallFails,
       Fault, channels
  <2>2. InvPlace'
    BY <1>10 DEF IInv, InvPlace, InspectExit
  <2>3. InvReturn'
    BY <1>10 DEF IInv, InvReturn, InspectExit
  <2>4. InvWork'
    BY <1>10 DEF IInv, InvWork, Started, Exited, InspectExit
  <2>5. InvChannels'
    BY <1>10 DEF IInv, InvChannels, InspectExit, channels
  <2>6. InvOver'
    BY <1>10 DEF IInv, InvOver, TypeOK, Exited, Engine, InspectExit, CallSucceeds,
       CallFails, Fault
  <2>7. SuccessMeansOver'
    BY <1>10 DEF IInv, SuccessMeansOver, TypeOK, Exited, InspectExit, CallSucceeds,
       CallFails, Fault
  <2>8. NeverStartedIsRemoved'
    BY <1>10 DEF IInv, NeverStartedIsRemoved, InspectExit
  <2> QED
    BY <2>1, <2>2, <2>3, <2>4, <2>5, <2>6, <2>7, <2>8 DEF IInv
<1>11. ASSUME WaitSidecar
      PROVE  IInv'
  <2>1. TypeOK'
    BY <1>11, StressAssumption DEF IInv, TypeOK, WaitSidecar, Exited, CallFails, Fault,
       channels
  <2>2. InvPlace'
    BY <1>11 DEF IInv, InvPlace, WaitSidecar
  <2>3. InvReturn'
    BY <1>11 DEF IInv, InvReturn, WaitSidecar
  <2>4. InvWork'
    BY <1>11 DEF IInv, InvWork, Started, Engine, WaitSidecar
  <2>5. InvChannels'
    BY <1>11 DEF IInv, InvChannels, WaitSidecar, channels
  <2>6. InvOver'
    BY <1>11 DEF IInv, InvOver, TypeOK, Exited, WaitSidecar, CallFails, Fault
  <2>7. SuccessMeansOver'
    BY <1>11 DEF IInv, SuccessMeansOver, Exited, Engine, WaitSidecar
  <2>8. NeverStartedIsRemoved'
    BY <1>11 DEF IInv, NeverStartedIsRemoved, WaitSidecar
  <2> QED
    BY <2>1, <2>2, <2>3, <2>4, <2>5, <2>6, <2>7, <2>8 DEF IInv
<1>12. ASSUME CleanupSidecar
      PROVE  IInv'
  <2>1. TypeOK'
    <3>1. faults' \in 0..MaxFaults
      BY <1>12, StressAssumption DEF CleanupSidecar, Fault, IInv, TypeOK
    <3>2. exists' \in BOOLEAN /\ task' \in BOOLEAN
      BY <1>12 DEF CleanupSidecar, IInv, TypeOK
    <3> QED
      BY <1>12, <3>1, <3>2 DEF CleanupSidecar, channels, IInv, TypeOK
  <2>2. InvPlace'
    BY <1>12 DEF IInv, InvPlace, CleanupSidecar
  <2>3. InvReturn'
    BY <1>12 DEF IInv, InvReturn, CleanupSidecar
  <2>4. InvWork'
    BY <1>12 DEF IInv, InvWork, InvPlace, Started, Engine, CleanupSidecar
  <2>5. InvChannels'
    BY <1>12 DEF IInv, InvChannels, CleanupSidecar, channels
  <2>6. InvOver'
    BY <1>12 DEF IInv, InvOver, TypeOK, Engine, CleanupSidecar, Fault
  <2>7. SuccessMeansOver'
    BY <1>12 DEF IInv, SuccessMeansOver, Exited, Engine, CleanupSidecar
  <2>8. NeverStartedIsRemoved'
    BY <1>12 DEF IInv, NeverStartedIsRemoved, CleanupSidecar
  <2> QED
    BY <2>1, <2>2, <2>3, <2>4, <2>5, <2>6, <2>7, <2>8 DEF IInv
<1>13. ASSUME WaitExec
      PROVE  IInv'
  <2>1. TypeOK'
    BY <1>13, StressAssumption DEF IInv, TypeOK, WaitExec, Exited, CallFails, Fault,
       channels
  <2>2. InvPlace'
    BY <1>13 DEF IInv, InvPlace, WaitExec
  <2>3. InvReturn'
    BY <1>13 DEF IInv, InvReturn, WaitExec
  <2>4. InvWork'
    BY <1>13 DEF IInv, InvWork, Started, Engine, WaitExec
  <2>5. InvChannels'
    BY <1>13 DEF IInv, InvChannels, WaitExec, channels
  <2>6. InvOver'
    BY <1>13 DEF IInv, InvOver, Engine, WaitExec
  <2>7. SuccessMeansOver'
    BY <1>13 DEF IInv, SuccessMeansOver, Exited, Engine, WaitExec
  <2>8. NeverStartedIsRemoved'
    BY <1>13 DEF IInv, NeverStartedIsRemoved, WaitExec
  <2> QED
    BY <2>1, <2>2, <2>3, <2>4, <2>5, <2>6, <2>7, <2>8 DEF IInv
<1>14. ASSUME SendResult
      PROVE  IInv'
  <2>1. TypeOK'
    BY <1>14 DEF IInv, TypeOK, SendResult, Receive, Return
  <2>2. InvPlace'
    BY <1>14 DEF IInv, InvPlace, SendResult, Receive, Return
  <2>3. InvReturn'
    BY <1>14 DEF IInv, InvReturn, SendResult, Receive, Return
  <2>4. InvWork'
    BY <1>14 DEF IInv, InvWork, Started, Exited, Engine, SendResult, Receive, Return
  <2>5. InvChannels'
    BY <1>14 DEF IInv, InvChannels, SendResult, Receive, Return
  <2>6. InvOver'
    BY <1>14 DEF IInv, InvOver, InvReturn, Exited, Engine, SendResult
  <2>7. SuccessMeansOver'
    BY <1>14 DEF IInv, SuccessMeansOver, InvWork, Exited, Engine, SendResult, Receive,
       Return
  <2>8. NeverStartedIsRemoved'
    BY <1>14 DEF IInv, NeverStartedIsRemoved, SendResult, Receive, Return
  <2> QED
    BY <2>1, <2>2, <2>3, <2>4, <2>5, <2>6, <2>7, <2>8 DEF IInv
<1>15. ASSUME CloseChannel
      PROVE  IInv'
  <2>1. TypeOK'
    BY <1>15 DEF IInv, TypeOK, CloseChannel, Receive, Return
  <2>2. InvPlace'
    BY <1>15 DEF IInv, InvPlace, CloseChannel
  <2>3. InvReturn'
    BY <1>15 DEF IInv, InvReturn, CloseChannel, Receive, Return
  <2>4. InvWork'
    BY <1>15 DEF IInv, InvWork, Started, Exited, Engine, CloseChannel, Receive, Return
  <2>5. InvChannels'
    BY <1>15 DEF IInv, InvChannels, InvPlace, CloseChannel
  <2>6. InvOver'
    BY <1>15 DEF IInv, InvOver, InvReturn, Exited, Engine, CloseChannel
  <2>7. SuccessMeansOver'
    BY <1>15 DEF IInv, SuccessMeansOver, InvPlace, Exited, Engine, CloseChannel
  <2>8. NeverStartedIsRemoved'
    BY <1>15 DEF IInv, NeverStartedIsRemoved, CloseChannel, Receive, Return
  <2> QED
    BY <2>1, <2>2, <2>3, <2>4, <2>5, <2>6, <2>7, <2>8 DEF IInv
<1>16. ASSUME Cancel
      PROVE  IInv'
  <2>1. TypeOK'
    BY <1>16 DEF IInv, TypeOK, Cancel, channels
  <2>2. InvPlace'
    BY <1>16 DEF IInv, InvPlace, Engine, Cancel
  <2>3. InvReturn'
    BY <1>16 DEF IInv, InvReturn, Cancel
  <2>4. InvWork'
    BY <1>16 DEF IInv, InvWork, Started, Exited, Engine, Cancel
  <2>5. InvChannels'
    BY <1>16 DEF IInv, InvChannels, Cancel, channels
  <2>6. InvOver'
    BY <1>16 DEF IInv, InvOver, Exited, Engine, Cancel
  <2>7. SuccessMeansOver'
    BY <1>16 DEF IInv, SuccessMeansOver, InvReturn, Cancel
  <2>8. NeverStartedIsRemoved'
    BY <1>16 DEF IInv, NeverStartedIsRemoved, Cancel
  <2> QED
    BY <2>1, <2>2, <2>3, <2>4, <2>5, <2>6, <2>7, <2>8 DEF IInv
<1>17. ASSUME TimerFires
      PROVE  IInv'
  <2>1. TypeOK'
    BY <1>17 DEF IInv, TypeOK, TimerFires, channels
  <2>2. InvPlace'
    BY <1>17 DEF IInv, InvPlace, TimerFires
  <2>3. InvReturn'
    BY <1>17 DEF IInv, InvReturn, TimerFires
  <2>4. InvWork'
    BY <1>17 DEF IInv, InvWork, Started, Exited, Engine, TimerFires
  <2>5. InvChannels'
    BY <1>17 DEF IInv, InvChannels, TimerFires, channels
  <2>6. InvOver'
    BY <1>17 DEF IInv, InvOver, Exited, Engine, TimerFires
  <2>7. SuccessMeansOver'
    BY <1>17 DEF IInv, SuccessMeansOver, InvReturn, TimerFires
  <2>8. NeverStartedIsRemoved'
    BY <1>17 DEF IInv, NeverStartedIsRemoved, TimerFires
  <2> QED
    BY <2>1, <2>2, <2>3, <2>4, <2>5, <2>6, <2>7, <2>8 DEF IInv
<1>18. ASSUME WorkExits
      PROVE  IInv'
  <2>1. TypeOK'
    BY <1>18 DEF IInv, TypeOK, WorkExits, channels
  <2>2. InvPlace'
    BY <1>18 DEF IInv, InvPlace, InvWork, WorkExits
  <2>3. InvReturn'
    BY <1>18 DEF IInv, InvReturn, WorkExits
  <2>4. InvWork'
    BY <1>18 DEF IInv, InvWork, Exited, WorkExits
  <2>5. InvChannels'
    BY <1>18 DEF IInv, InvChannels, WorkExits, channels
  <2>6. InvOver'
    BY <1>18 DEF IInv, InvOver, Exited, WorkExits
  <2>7. SuccessMeansOver'
    BY <1>18 DEF IInv, SuccessMeansOver, Exited, WorkExits
  <2>8. NeverStartedIsRemoved'
    BY <1>18 DEF IInv, NeverStartedIsRemoved, WorkExits
  <2> QED
    BY <2>1, <2>2, <2>3, <2>4, <2>5, <2>6, <2>7, <2>8 DEF IInv
<1>19. ASSUME AutoRemove
      PROVE  IInv'
  <2>1. TypeOK'
    <3>1. faults' \in 0..MaxFaults
      BY <1>19 DEF AutoRemove, IInv, TypeOK
    <3>2. exists' \in BOOLEAN
      BY <1>19 DEF AutoRemove, IInv
    <3> QED
      BY <1>19, <3>1, <3>2 DEF AutoRemove, channels, IInv, TypeOK
  <2>2. InvPlace'
    BY <1>19 DEF IInv, InvPlace, InvWork, Exited, AutoRemove
  <2>3. InvReturn'
    BY <1>19 DEF IInv, InvReturn, AutoRemove
  <2>4. InvWork'
    BY <1>19 DEF IInv, InvWork, Exited, AutoRemove
  <2>5. InvChannels'
    BY <1>19 DEF IInv, InvChannels, AutoRemove, channels
  <2>6. InvOver'
    BY <1>19 DEF IInv, InvOver, Exited, AutoRemove
  <2>7. SuccessMeansOver'
    BY <1>19 DEF IInv, SuccessMeansOver, Exited, AutoRemove
  <2>8. NeverStartedIsRemoved'
    BY <1>19 DEF IInv, NeverStartedIsRemoved, AutoRemove
  <2> QED
    BY <2>1, <2>2, <2>3, <2>4, <2>5, <2>6, <2>7, <2>8 DEF IInv
<1>20. ASSUME ProcessExits
      PROVE  IInv'
  <2>1. TypeOK'
    BY <1>20 DEF IInv, TypeOK, ProcessExits, channels
  <2>2. InvPlace'
    BY <1>20 DEF IInv, InvPlace, ProcessExits
  <2>3. InvReturn'
    BY <1>20 DEF IInv, InvReturn, ProcessExits
  <2>4. InvWork'
    BY <1>20 DEF IInv, InvWork, Started, Exited, Engine, ProcessExits
  <2>5. InvChannels'
    BY <1>20 DEF IInv, InvChannels, ProcessExits, channels
  <2>6. InvOver'
    BY <1>20 DEF IInv, InvOver, ProcessExits
  <2>7. SuccessMeansOver'
    BY <1>20 DEF IInv, SuccessMeansOver, Exited, Engine, ProcessExits
  <2>8. NeverStartedIsRemoved'
    BY <1>20 DEF IInv, NeverStartedIsRemoved, ProcessExits
  <2> QED
    BY <2>1, <2>2, <2>3, <2>4, <2>5, <2>6, <2>7, <2>8 DEF IInv
<1>21. ASSUME UNCHANGED vars
      PROVE  IInv'
  BY <1>21 DEF vars, IInv, TypeOK, InvPlace, InvReturn, InvWork, InvChannels, InvOver,
     SuccessMeansOver, NeverStartedIsRemoved, Started, Exited, Engine
<1> QED
  BY <1>1, <1>2, <1>3, <1>4, <1>5, <1>6, <1>7, <1>8, <1>9, <1>10, <1>11, <1>12, <1>13,
     <1>14, <1>15, <1>16, <1>17, <1>18, <1>19, <1>20, <1>21 DEF Next, Caller, Goroutine
-----------------------------------------------------------------------------
(* The composition with the look-ups *)

\* A look-up can only add a fault; the situation around it has no part in the
\* state of StressResult.
LEMMA PlacementFrame ==
  /\ P!LookUp => (UNCHANGED faults \/ Fault) /\ UNCHANGED cancelled
  /\ P!Environment => UNCHANGED <<faults, cancelled>>
<1>1. ASSUME P!LookUp
      PROVE  UNCHANGED faults \/ Fault
  <2>1. P!CallFails \/ P!CallSucceeds => UNCHANGED faults \/ Fault
    BY DEF P!CallFails, P!CallSucceeds, Fault
  <2>2. CASE P!CgroupDriver \/ P!TargetPid \/ P!PullImage
    BY <2>1, <2>2 DEF P!CgroupDriver, P!TargetPid, P!PullImage
  <2>3. CASE P!InspectCgroupParent
    BY <2>1, <2>3 DEF P!InspectCgroupParent
  <2>4. CASE P!ReadCgroup \/ P!StatCgroup
    BY <2>4 DEF P!ReadCgroup, P!StatCgroup
  <2> QED
    BY <1>1, <2>2, <2>3, <2>4 DEF P!LookUp
<1>2. P!LookUp => UNCHANGED cancelled
  BY DEF P!LookUp
<1>3. P!Environment => UNCHANGED <<faults, cancelled>>
  BY DEF P!Environment, P!TargetExits, P!SubCgroupGoes
<1> QED
  BY <1>1, <1>2, <1>3

\* A look-up that ends StressContainer leaves nothing behind.
LEMMA LookUpPreserves ==
  ASSUME IInv, LookUp
  PROVE  IInv'
<1>1. /\ pc = "create"
      /\ UNCHANGED faults \/ Fault
      /\ \/ pc' = "done" /\ verdict' = "failed" /\ via' = "call"
         \/ UNCHANGED <<pc, verdict, via>>
      /\ UNCHANGED <<cancelled, mode, fired, gor, msg, full, closed, work, task, exists,
                     target, parked, orphan>>
  BY PlacementFrame DEF LookUp, Return, channels
<1>2. faults' \in 0..MaxFaults /\ (faults' = 0 => faults = 0)
  BY <1>1, StressAssumption DEF IInv, TypeOK, Fault
<1>3. TypeOK'
  BY <1>1, <1>2 DEF IInv, TypeOK
<1>4. InvPlace' /\ InvReturn'
  BY <1>1 DEF IInv, InvPlace, InvReturn
<1>5. InvWork' /\ InvChannels'
  BY <1>1 DEF IInv, InvWork, InvChannels, Started
<1>6. InvOver' /\ SuccessMeansOver' /\ NeverStartedIsRemoved'
  BY <1>1, <1>2 DEF IInv, InvPlace, InvReturn, InvWork, InvOver, SuccessMeansOver,
     NeverStartedIsRemoved
<1> QED
  BY <1>3, <1>4, <1>5, <1>6 DEF IInv

\* So does every step of the stress test with its look-ups.
LEMMA TestPreserves ==
  ASSUME IInv, [TestNext]_testVars
  PROVE  IInv'
<1>1. CASE LookUp
  BY <1>1, LookUpPreserves
<1>2. CASE Next \/ UNCHANGED vars
  BY <1>2, IInvPreserved
<1>3. TestCaller => LookUp \/ Next
  BY DEF TestCaller, Create, Start, Next, Caller
<1>4. TestGoroutine \/ TestTimer \/ Exits => Next
  BY DEF TestGoroutine, TestTimer, Exits, Next
<1>5. Around => Next \/ UNCHANGED vars
  <2>1. CASE P!Environment /\ UNCHANGED <<mode, fired, pc, gor, msg, channels, work, task,
                               exists, target, verdict, via, parked, orphan>>
    BY <2>1, PlacementFrame DEF vars, channels
  <2>2. CASE Cancel \/ AutoRemove \/ ProcessExits
    BY <2>2 DEF Next
  <2> QED
    BY <2>1, <2>2 DEF Around
<1>6. UNCHANGED testVars => UNCHANGED vars
  BY DEF testVars
<1> QED
  BY <1>1, <1>2, <1>3, <1>4, <1>5, <1>6 DEF TestNext

-----------------------------------------------------------------------------
(* Theorems *)

(***************************************************************************)
(* The inductive invariant holds of a stress test, with the look-ups and   *)
(* without them.                                                           *)
(***************************************************************************)
THEOREM Invariance == (Spec => []IInv) /\ (TestSpec => []IInv)
<1>1. Spec => []IInv
  BY InitIInv, IInvPreserved, PTL DEF Spec
<1>2. TestSpec => []IInv
  <2>1. TestInit => IInv
    BY InitIInv DEF TestInit
  <2> QED
    BY <2>1, TestPreserves, PTL DEF TestSpec
<1> QED
  BY <1>1, <1>2

(***************************************************************************)
(* A select that had to wait returns the goroutine's report, and success   *)
(* only for an exit with 0.                                                *)
(***************************************************************************)
THEOREM Parked == (Spec => []ParkedVerdict) /\ (TestSpec => []ParkedVerdict)
<1>1. IInv => ParkedVerdict
  <2> SUFFICES ASSUME IInv, parked, via = "channel"
               PROVE  (verdict = "ok") = (msg = "ok") /\ (verdict = "ok" => work = "ok")
    BY DEF ParkedVerdict
  <2>1. verdict = "ok" <=> msg = "ok"
    BY DEF IInv, InvChannels
  <2> QED
    BY <2>1 DEF IInv, InvWork
<1> QED
  BY Invariance, <1>1, PTL

(***************************************************************************)
(* A sidecar that was created but never ran is removed, unless its removal *)
(* failed or its identifier was never learned.                             *)
(***************************************************************************)
THEOREM Removed ==
  (Spec => []NeverStartedIsRemoved) /\ (TestSpec => []NeverStartedIsRemoved)
<1>1. IInv => NeverStartedIsRemoved
  BY DEF IInv
<1> QED
  BY Invariance, <1>1, PTL

(***************************************************************************)
(* When stressContainer reports success, stress-ng no longer runs.         *)
(***************************************************************************)
THEOREM Over == (Spec => []SuccessMeansOver) /\ (TestSpec => []SuccessMeansOver)
<1>1. IInv => SuccessMeansOver
  BY DEF IInv
<1> QED
  BY Invariance, <1>1, PTL

(***************************************************************************)
(* The goroutine of a containerd sidecar ends with task and container      *)
(* reaped, whether it or StopContainerWithID deletes the task first.       *)
(***************************************************************************)
THEOREM Reaped == (Spec => []SidecarReaped) /\ (TestSpec => []SidecarReaped)
<1>1. IInv => SidecarReaped
  BY DEF IInv, InvOver, SidecarReaped
<1> QED
  BY Invariance, <1>1, PTL
=============================================================================
