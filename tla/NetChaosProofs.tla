--------------------------- MODULE NetChaosProofs ---------------------------
(***************************************************************************)
(* Proofs about NetChaos, for every set of targets, every list of          *)
(* addresses and ports, and any number of faults and rounds.               *)
(***************************************************************************)
EXTENDS NetChaos, SequenceTheorems, TLAPS

(***************************************************************************)
(* The inductive invariant: the type, the ledger, and where a closure can  *)
(* be for the request it serves.  The ledger needs the last part to know   *)
(* that a started sidecar is one the request asked for.                    *)
(***************************************************************************)

\* A dry run stays clear of the runtime; only --tc-image uses a sidecar; the
\* loop over the commands begins at the first.
InvPlace ==
  \A c \in Containers :
    /\ next[c] >= 1
    /\ req.dryRun => pc[c] \in {"idle", "dry", "wait"}
    /\ pc[c] \in {"pull", "create", "start", "remove"} => req.image
    /\ req.dryRun => rules[c] = Clean

IInv == TypeOK /\ SidecarLedger /\ InvPlace

\* A command names an object of the namespace.
Command == [verb : {"add", "del"}, obj : Objects]

-----------------------------------------------------------------------------
(* The command sequences *)

\* The sequences of tc and iptables commands are made of known commands.
LEMMA CommandsType ==
  ASSUME req \in Request, NEW o \in {"apply", "revert"}
  PROVE  Commands(o) \in Seq(Command)
<1>1. /\ req.filters \in Seq(Filters)
      /\ req.tool \in {"tc", "iptables"}
  BY DEF Request
<1>2. /\ \A x \in Objects : Add(x) \in Command /\ Del(x) \in Command
      /\ Filters \subseteq Objects /\ Bands \subseteq Objects
      /\ "root" \in Objects /\ "rule" \in Objects
      /\ "10:" \in Bands /\ "20:" \in Bands /\ "30:" \in Bands
  BY DEF Add, Del, Command, Objects, Bands
<1>3. /\ Len(req.filters) \in Nat
      /\ \A i \in 1..Len(req.filters) : req.filters[i] \in Objects
  BY <1>1, <1>2
<1>4. /\ [i \in 1..Len(req.filters) |-> Add(req.filters[i])] \in Seq(Command)
      /\ [i \in 1..Len(req.filters) |-> Del(req.filters[i])] \in Seq(Command)
  BY <1>2, <1>3
<1>5. /\ <<Add("root")>> \in Seq(Command)
      /\ <<Del("root")>> \in Seq(Command)
      /\ <<Add("rule")>> \in Seq(Command)
      /\ <<Del("rule")>> \in Seq(Command)
      /\ <<Add("root"), Add("10:"), Add("20:"), Add("30:")>> \in Seq(Command)
      /\ <<Del("10:"), Del("20:"), Del("30:"), Del("root")>> \in Seq(Command)
  BY <1>2
<1>6. /\ NetemStart \in Seq(Command) /\ NetemStop \in Seq(Command)
  <2>1. NetemStart \in Seq(Command)
    BY <1>4, <1>5, ConcatProperties DEF NetemStart, PerFilter, Add
  <2> QED
    BY <2>1, <1>5 DEF NetemStop
<1>7. IPTablesCommands("add") \in Seq(Command) /\ IPTablesCommands("del") \in Seq(Command)
  BY <1>4, <1>5 DEF IPTablesCommands, PerFilter, Add, Del
<1> QED
  BY <1>1, <1>6, <1>7 DEF Commands

\* An accepted command leaves a countable number of every object behind.
LEMMA EffectType ==
  ASSUME NEW r \in [Objects -> Nat], NEW cmd \in Command, Accepts(r, cmd)
  PROVE  Effect(r, cmd) \in [Objects -> Nat]
<1>1. cmd.verb \in {"add", "del"} /\ cmd.obj \in Objects
  BY DEF Command
<1>2. CASE cmd.verb = "add"
  <2>1. Effect(r, cmd) = [r EXCEPT ![cmd.obj] = @ + 1]
    BY <1>2 DEF Effect
  <2>2. r[cmd.obj] + 1 \in Nat
    BY <1>1
  <2> QED
    BY <1>1, <2>1, <2>2
<1>3. CASE cmd.verb = "del" /\ cmd.obj = "root"
  <2>1. Effect(r, cmd) = Clean
    BY <1>3 DEF Effect
  <2> QED
    BY <2>1 DEF Clean
<1>4. CASE cmd.verb = "del" /\ cmd.obj # "root"
  <2>1. r[cmd.obj] > 0
    BY <1>4 DEF Accepts
  <2>2. Effect(r, cmd) = [r EXCEPT ![cmd.obj] = @ - 1]
    BY <1>4 DEF Effect
  <2> QED
    BY <1>1, <2>1, <2>2
<1> QED
  BY <1>1, <1>2, <1>3, <1>4
-----------------------------------------------------------------------------
(* The inductive invariant holds *)

\* The inductive invariant holds at the start.
LEMMA InitIInv == Init => IInv
<1> SUFFICES ASSUME Init
             PROVE  IInv
  OBVIOUS
<1>1. TypeOK
  <2>1. rules \in [Containers -> [Objects -> Nat]]
    BY DEF Init, Clean
  <2>2. /\ bad \in [Containers -> BOOLEAN] /\ expired \in [Containers -> BOOLEAN]
        /\ lost \in [Containers -> BOOLEAN] /\ detached \in [Containers -> BOOLEAN]
    BY DEF Init
  <2>3. /\ next \in [Containers -> Nat]
        /\ sidecars \in [Containers -> Nat] /\ orphans \in [Containers -> Nat]
    BY DEF Init
  <2>4. /\ pc \in [Containers -> {"idle", "dry", "pull", "create", "start", "exec",
                                  "remove", "wait"}]
        /\ op \in [Containers -> {"apply", "revert"}]
        /\ reported \in [Containers -> SUBSET {"apply", "revert"}]
    BY DEF Init
  <2>5. faults \in 0..MaxFaults /\ rounds \in 0..MaxRounds
    BY NetAssumption DEF Init
  <2> QED
    BY <2>1, <2>2, <2>3, <2>4, <2>5, NetAssumption DEF Init, TypeOK
<1>2. SidecarLedger
  <2> SUFFICES ASSUME NEW c \in Containers
               PROVE  sidecars[c] = orphans[c] + (IF pc[c] \in {"start", "remove"}
                                     \/ (pc[c] = "exec" /\ req.image) THEN 1 ELSE 0)
    BY DEF SidecarLedger
  <2>1. pc[c] = "idle" /\ sidecars[c] = 0 /\ orphans[c] = 0
    BY DEF Init
  <2> QED
    BY <2>1
<1>3. InvPlace
  <2> SUFFICES ASSUME NEW c \in Containers
               PROVE  /\ next[c] >= 1
                      /\ pc[c] = "idle" /\ rules[c] = Clean
    BY DEF InvPlace
  <2> QED
    BY DEF Init
<1> QED
  BY <1>1, <1>2, <1>3 DEF IInv

\* What a successful or failed call does to the count of faults.
LEMMA CallType ==
  ASSUME TypeOK, NEW c, CallFails(c) \/ CallSucceeds(c)
  PROVE  faults' \in 0..MaxFaults
BY NetAssumption DEF TypeOK, CallFails, CallSucceeds

\* Where the end of an operation leads, and what it reports.
LEMMA OpDoneType ==
  ASSUME TypeOK, NEW c \in Containers, NEW f \in BOOLEAN, OpDone(c, f)
  PROVE  /\ \E p \in {"idle", "wait"} : pc' = [pc EXCEPT ![c] = p]
         /\ reported' \in [Containers -> SUBSET {"apply", "revert"}]
BY DEF TypeOK, OpDone, Goto

\* Every step of a closure and of its surroundings keeps the invariant.
LEMMA IInvPreserved ==
  ASSUME IInv, [Next]_vars
  PROVE  IInv'
<1> USE NetAssumption DEF IInv, globals, place
<1>0. req \in Request
  BY DEF TypeOK
<1>1. CASE RunCommand
  <2>1. TypeOK'
    BY <1>1 DEF RunCommand, TypeOK, Entry
  <2>2. SidecarLedger'
    BY <1>0, <1>1 DEF RunCommand, SidecarLedger, TypeOK, Entry
  <2>3. InvPlace'
    BY <1>1 DEF RunCommand, InvPlace, Entry
  <2> QED
    BY <2>1, <2>2, <2>3
<1>2. CASE Cancel
  BY <1>2 DEF Cancel, TypeOK, SidecarLedger, InvPlace
<1>3. ASSUME NEW c \in Containers, Expire(c)
      PROVE  IInv'
  BY <1>3 DEF Expire, TypeOK, SidecarLedger, InvPlace
<1>4. CASE UNCHANGED vars
  BY <1>4 DEF vars, TypeOK, SidecarLedger, InvPlace
<1>5. ASSUME NEW c \in Containers, DryRun(c)
      PROVE  IInv'
  <2>1. PICK p \in {"idle", "wait"} : pc' = [pc EXCEPT ![c] = p]
    BY <1>5, OpDoneType DEF DryRun
  <2>2. reported' \in [Containers -> SUBSET {"apply", "revert"}]
    BY <1>5, OpDoneType DEF DryRun
  <2> QED
    BY <1>5, <2>1, <2>2 DEF DryRun, TypeOK, SidecarLedger, InvPlace
<1>6. ASSUME NEW c \in Containers, PullImage(c)
      PROVE  IInv'
  <2>1. PICK p \in {"idle", "wait", "create"} : pc' = [pc EXCEPT ![c] = p]
    BY <1>6, OpDoneType DEF PullImage, Goto
  <2>2. reported' \in [Containers -> SUBSET {"apply", "revert"}]
    BY <1>6, OpDoneType DEF PullImage, TypeOK
  <2>3. faults' \in 0..MaxFaults
    BY <1>6, CallType DEF PullImage
  <2> QED
    BY <1>6, <2>1, <2>2, <2>3 DEF PullImage, TypeOK, SidecarLedger, InvPlace
<1>7. ASSUME NEW c \in Containers, CreateSidecar(c)
      PROVE  IInv'
  <2>1. faults' \in 0..MaxFaults
    BY <1>7, CallType DEF CreateSidecar
  <2>2. CASE /\ Goto(c, "start")
             /\ sidecars' = [sidecars EXCEPT ![c] = @ + 1]
             /\ detached' = [detached EXCEPT ![c] = FALSE]
             /\ UNCHANGED <<orphans, reported>>
    BY <1>7, <2>1, <2>2 DEF CreateSidecar, Goto, TypeOK, SidecarLedger, InvPlace
  <2>3. CASE /\ OpDone(c, TRUE)
             /\ \E stray \in {0, 1} :
               /\ sidecars' = [sidecars EXCEPT ![c] = @ + stray]
               /\ orphans' = [orphans EXCEPT ![c] = @ + stray]
             /\ UNCHANGED detached
    <3>1. PICK p \in {"idle", "wait"} : pc' = [pc EXCEPT ![c] = p]
      BY <2>3, OpDoneType
    <3>2. reported' \in [Containers -> SUBSET {"apply", "revert"}]
      BY <2>3, OpDoneType
    <3>3. PICK stray \in {0, 1} :
            /\ sidecars' = [sidecars EXCEPT ![c] = @ + stray]
            /\ orphans' = [orphans EXCEPT ![c] = @ + stray]
      BY <2>3
    <3>0. UNCHANGED <<req, cancelled, rounds, op, next, bad, expired, rules, lost, detached>>
      BY <1>7, <2>3 DEF CreateSidecar
    <3>4. TypeOK'
      BY <2>1, <3>0, <3>1, <3>2, <3>3 DEF TypeOK
    <3>5. SidecarLedger'
      BY <1>7, <3>1, <3>3 DEF CreateSidecar, TypeOK, SidecarLedger
    <3>6. InvPlace'
      BY <1>7, <3>1 DEF CreateSidecar, TypeOK, InvPlace
    <3> QED
      BY <3>4, <3>5, <3>6
  <2> QED
    BY <1>7, <2>2, <2>3 DEF CreateSidecar
<1>8. ASSUME NEW c \in Containers, StartSidecar(c)
      PROVE  IInv'
  <2>1. faults' \in 0..MaxFaults
    BY <1>8, CallType DEF StartSidecar, TypeOK
  <2>2. PICK p \in {"exec", "remove"} : pc' = [pc EXCEPT ![c] = p]
    BY <1>8 DEF StartSidecar, Goto
  <2>3. bad' \in [Containers -> BOOLEAN]
    BY <1>8 DEF StartSidecar, TypeOK
  <2> QED
    BY <1>8, <2>1, <2>2, <2>3 DEF StartSidecar, TypeOK, SidecarLedger, InvPlace
<1>9. ASSUME NEW c \in Containers, ExecCommand(c)
      PROVE  IInv'
  <2>1. /\ Commands(op[c]) \in Seq(Command)
        /\ next[c] \in 1..Len(Commands(op[c]))
    <3>1. op[c] \in {"apply", "revert"} /\ next[c] \in Nat /\ next[c] >= 1
      BY DEF TypeOK, InvPlace
    <3>2. Commands(op[c]) \in Seq(Command)
      BY <1>0, <3>1, CommandsType
    <3>3. next[c] <= Len(Commands(op[c]))
      BY <1>9 DEF ExecCommand
    <3>4. Len(Commands(op[c])) \in Nat
      BY <3>2, LenProperties
    <3> QED
      BY <3>1, <3>2, <3>3, <3>4
  <2> DEFINE cmd == Commands(op[c])[next[c]]
             after == [rules EXCEPT ![c] = Effect(@, cmd)]
  <2>2. cmd \in Command
    BY <2>1
  <2> HIDE DEF cmd
  <2>3. Accepts(rules[c], cmd) => after \in [Containers -> [Objects -> Nat]]
    BY <2>2, EffectType DEF TypeOK
  <2> HIDE DEF after
  <2>4. /\ faults' \in 0..MaxFaults
        /\ \/ /\ UNCHANGED <<pc, bad, reported>>
              /\ next' = [next EXCEPT ![c] = @ + 1]
           \/ ExecError(c) /\ UNCHANGED next
        /\ rules' = rules \/ (Accepts(rules[c], cmd) /\ rules' = after)
    BY <1>9, CallType DEF ExecCommand, cmd, after
  <2>5. rules' \in [Containers -> [Objects -> Nat]]
    BY <2>3, <2>4 DEF TypeOK
  <2>6. /\ UNCHANGED <<req, cancelled, rounds, op, expired, sidecars, orphans, lost, detached>>
        /\ pc[c] = "exec" /\ ~req.dryRun
    BY <1>9 DEF ExecCommand, InvPlace
  <2>7. CASE /\ UNCHANGED <<pc, bad, reported>>
             /\ next' = [next EXCEPT ![c] = @ + 1]
    BY <2>4, <2>5, <2>6, <2>7 DEF TypeOK, SidecarLedger, InvPlace
  <2>8. CASE /\ req.image /\ Goto(c, "remove")
             /\ bad' = [bad EXCEPT ![c] = TRUE] /\ UNCHANGED <<reported, next>>
    BY <2>4, <2>5, <2>6, <2>8 DEF Goto, TypeOK, SidecarLedger, InvPlace
  <2>9. CASE ~req.image /\ OpDone(c, TRUE) /\ UNCHANGED <<bad, next>>
    <3>1. PICK p \in {"idle", "wait"} : pc' = [pc EXCEPT ![c] = p]
      BY <2>9, OpDoneType
    <3>2. reported' \in [Containers -> SUBSET {"apply", "revert"}]
      BY <2>9, OpDoneType
    <3> QED
      BY <2>4, <2>5, <2>6, <2>9, <3>1, <3>2 DEF TypeOK, SidecarLedger, InvPlace
  <2> QED
    BY <2>4, <2>7, <2>8, <2>9 DEF ExecError
<1>10. ASSUME NEW c \in Containers, CommandsDone(c)
       PROVE  IInv'
  <2>1. CASE req.image /\ Goto(c, "remove") /\ UNCHANGED reported
    BY <1>10, <2>1 DEF CommandsDone, Goto, TypeOK, SidecarLedger, InvPlace
  <2>2. CASE ~req.image /\ OpDone(c, FALSE)
    <3>1. PICK p \in {"idle", "wait"} : pc' = [pc EXCEPT ![c] = p]
      BY <2>2, OpDoneType
    <3>2. reported' \in [Containers -> SUBSET {"apply", "revert"}]
      BY <2>2, OpDoneType
    <3> QED
      BY <1>10, <2>2, <3>1, <3>2 DEF CommandsDone, TypeOK, SidecarLedger, InvPlace
  <2> QED
    BY <1>10, <2>1, <2>2 DEF CommandsDone
<1>11. ASSUME NEW c \in Containers, RemoveSidecar(c)
       PROVE  IInv'
  <2>1. PICK f \in BOOLEAN : OpDone(c, f)
    BY <1>0, <1>11 DEF RemoveSidecar, TypeOK, Request
  <2>2. PICK p \in {"idle", "wait"} : pc' = [pc EXCEPT ![c] = p]
    BY <2>1, OpDoneType
  <2>3. reported' \in [Containers -> SUBSET {"apply", "revert"}]
    BY <2>1, OpDoneType
  <2>4. /\ faults' \in 0..MaxFaults /\ pc[c] = "remove"
        /\ UNCHANGED <<req, cancelled, rounds, op, next, bad, expired, rules, lost, detached>>
    BY <1>11 DEF RemoveSidecar, TypeOK
  <2>5. sidecars[c] = orphans[c] + 1 /\ sidecars[c] \in Nat /\ orphans[c] \in Nat
    BY <2>4 DEF SidecarLedger, TypeOK
  <2>6. \/ sidecars' = [sidecars EXCEPT ![c] = @ - 1] /\ UNCHANGED orphans
        \/ orphans' = [orphans EXCEPT ![c] = @ + 1] /\ UNCHANGED sidecars
    BY <1>11 DEF RemoveSidecar
  <2>7. sidecars' \in [Containers -> Nat] /\ orphans' \in [Containers -> Nat]
    BY <2>5, <2>6 DEF TypeOK
  <2>8. TypeOK'
    BY <2>2, <2>3, <2>4, <2>7 DEF TypeOK
  <2>9. SidecarLedger'
    BY <2>2, <2>4, <2>5, <2>6 DEF TypeOK, SidecarLedger
  <2>10. InvPlace'
    BY <2>2, <2>4 DEF TypeOK, InvPlace
  <2> QED
    BY <2>8, <2>9, <2>10
<1>12. ASSUME NEW c \in Containers, BeginRevert(c)
       PROVE  IInv'
  <2>1. Entry \in {"dry", "exec", "pull", "create"}
    BY DEF Entry
  <2>2. /\ Entry \in {"pull", "create"} => req.image
        /\ Entry = "exec" => ~req.image
    BY <1>0 DEF Entry, Request
  <2> QED
    <3>1. TypeOK'
      BY <1>12, <2>1 DEF BeginRevert, Goto, TypeOK
    <3>2. SidecarLedger'
      <4> SUFFICES ASSUME NEW d \in Containers
                   PROVE  sidecars'[d] = orphans'[d] + (IF pc'[d] \in {"start", "remove"}
                                     \/ (pc'[d] = "exec" /\ req'.image) THEN 1 ELSE 0)
        BY DEF SidecarLedger
      <4>1. UNCHANGED <<sidecars, orphans, req>>
        BY <1>12 DEF BeginRevert
      <4>2. CASE d = c
        <5>1. pc[d] = "wait" /\ pc'[d] = Entry
          BY <1>12, <4>2 DEF BeginRevert, Goto, TypeOK
        <5> QED
          BY <2>1, <2>2, <4>1, <5>1 DEF SidecarLedger
      <4>3. CASE d # c
        <5>1. pc'[d] = pc[d]
          BY <1>12, <4>3 DEF BeginRevert, Goto, TypeOK
        <5> QED
          BY <4>1, <5>1 DEF SidecarLedger
      <4> QED
        BY <4>2, <4>3
    <3>3. InvPlace'
      <4> SUFFICES ASSUME NEW d \in Containers
                   PROVE  /\ next'[d] >= 1
                          /\ req'.dryRun => pc'[d] \in {"idle", "dry", "wait"}
                          /\ pc'[d] \in {"pull", "create", "start", "remove"} => req'.image
                          /\ req'.dryRun => rules'[d] = Clean
        BY DEF InvPlace
      <4>1. req' = req /\ rules' = rules /\ (d = c => pc'[d] = Entry /\ next'[d] = 1)
        BY <1>12 DEF BeginRevert, Goto, TypeOK
      <4>2. d # c => pc'[d] = pc[d] /\ next'[d] = next[d]
        BY <1>12 DEF BeginRevert, Goto, TypeOK
      <4>3. d = c => (req.dryRun => pc'[d] = "dry")
        BY <4>1 DEF Entry
      <4> QED
        BY <2>1, <2>2, <4>1, <4>2, <4>3 DEF InvPlace
    <3> QED
      BY <3>1, <3>2, <3>3
<1>13. ASSUME NEW c \in Containers, Restart(c)
       PROVE  IInv'
  <2>1. /\ rules' \in [Containers -> [Objects -> Nat]]
        /\ \A d \in Containers : rules'[d] = Clean \/ rules'[d] = rules[d]
    BY <1>13 DEF Restart, TypeOK, Clean
  <2>2. /\ faults' \in 0..MaxFaults
        /\ lost' \in [Containers -> BOOLEAN]
    BY <1>13 DEF Restart, TypeOK
  <2>3. detached' \in [Containers -> BOOLEAN]
    BY <1>0, <1>13 DEF Restart, TypeOK, Request
  <2> QED
    BY <1>13, <2>1, <2>2, <2>3 DEF Restart, TypeOK, SidecarLedger, InvPlace
<1> QED
  BY <1>1, <1>2, <1>3, <1>4, <1>5, <1>6, <1>7, <1>8, <1>9, <1>10, <1>11, <1>12, <1>13
  DEF Next, Closure

\* The inductive invariant is an invariant of the specification.
THEOREM Inductive == Spec => []IInv
<1>1. IInv /\ [Next]_vars => IInv'
  BY IInvPreserved
<1> QED
  BY InitIInv, <1>1, PTL DEF Spec

-----------------------------------------------------------------------------
(* The properties of network chaos *)

(***************************************************************************)
(* Type correctness of the closures.  That no count of rules or sidecars   *)
(* becomes negative needs what the kernel accepts and the ledger.          *)
(***************************************************************************)
THEOREM TypeCorrect == Spec => []TypeOK
<1>1. IInv => TypeOK
  BY DEF IInv
<1> QED
  BY Inductive, <1>1, PTL

(***************************************************************************)
(* No sidecar is lost: on every path of runSidecar and sidecarExec, for    *)
(* any list of filters, any faults and a signal or deadline at any moment, *)
(* the sidecars that exist are the one in use and those given up on.       *)
(***************************************************************************)
THEOREM SidecarLedgerHolds == Spec => []SidecarLedger
<1>1. IInv => SidecarLedger
  BY DEF IInv
<1> QED
  BY Inductive, <1>1, PTL

(***************************************************************************)
(* A dry run of netem or iptables changes neither a namespace nor the set  *)
(* of containers of the runtime.                                           *)
(***************************************************************************)
THEOREM DryRunIsDryHolds == Spec => DryRunIsDry
<1>1. IInv /\ [Next]_vars => [req.dryRun => UNCHANGED <<rules, sidecars>>]_vars
  <2> SUFFICES ASSUME IInv, Next, req.dryRun
               PROVE  UNCHANGED <<rules, sidecars>>
    BY DEF vars
  <2>1. \A c \in Containers : pc[c] \in {"idle", "dry", "wait"}
    BY DEF IInv, InvPlace
  <2>2. ASSUME NEW c \in Containers, Restart(c)
        PROVE  UNCHANGED <<rules, sidecars>>
    BY <2>2 DEF Restart, IInv, InvPlace, TypeOK
  <2> QED
    BY <2>1, <2>2 DEF Next, Closure, RunCommand, Cancel, Expire, DryRun, PullImage,
       CreateSidecar, StartSidecar, ExecCommand, CommandsDone, RemoveSidecar,
       BeginRevert
<1> QED
  BY Inductive, <1>1, PTL DEF Spec, DryRunIsDry
=============================================================================
