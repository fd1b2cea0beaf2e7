------------------------------ MODULE NetChaos ------------------------------
(***************************************************************************)
(* Network chaos: runNetem (pkg/chaos/netem) and runIPTables               *)
(* (pkg/chaos/iptables) on every target in parallel, over the docker,      *)
(* podman and containerd clients.                                          *)
(*                                                                         *)
(* For each container pumba applies a sequence of tc or iptables commands, *)
(* inside the container or inside a helper container (the sidecar) that    *)
(* joins its network namespace, holds the chaos for --duration, and runs   *)
(* the mirror sequence.  Every call to the runtime may fail, or take       *)
(* effect and still report an error; the context of the apply phase may be *)
(* cancelled, or run out, between or during any two calls.                 *)
(*                                                                         *)
(* An operator X_Defect... is X with one plausible bug.  No specification  *)
(* uses it; it serves to show that a property can fail.                    *)
(***************************************************************************)
EXTENDS Integers, Sequences

CONSTANTS
  Containers,  \* the targets of a run
  Filters,     \* the addresses and ports a request may name
  BadFilters,  \* those of them the tools reject: an empty port GetPorts let pass
  Requests,    \* the requests considered, a set of Request records
  MaxFaults,   \* how many calls the runtime may fail
  MaxRounds    \* how many ticks of the interval are modelled

Bands == {"10:", "20:", "30:"}

Objects == {"root", "rule"} \cup Bands \cup Filters

(***************************************************************************)
(* NetemRequest and IPTablesRequest.  image and pull are the SidecarSpec;  *)
(* deadline tells whether the command runs under WithTimeout(Duration),    *)
(* as all but netem delay do.                                              *)
(***************************************************************************)
Request ==
  [tool : {"tc", "iptables"}, filters : Seq(Filters), image : BOOLEAN,
   pull : BOOLEAN, deadline : BOOLEAN, dryRun : BOOLEAN,
   runtime : {"docker", "containerd"}]

ASSUME NetAssumption ==
  /\ Requests \subseteq Request
  /\ Filters \cap ({"root", "rule"} \cup Bands) = {}
  /\ BadFilters \subseteq Filters
  /\ MaxFaults \in Nat /\ MaxRounds \in Nat

VARIABLES
  req,        \* the request, never changed
  cancelled,  \* pumba was told to stop
  faults,     \* calls the runtime failed so far
  rounds,     \* runs begun so far
  pc,         \* where the closure of each container is
  op,         \* the operation the closure is in: "apply" or "revert"
  next,       \* the command of that operation to execute next
  bad,        \* the operation failed and is cleaning up its sidecar
  expired,    \* the Duration deadline of the closure's context passed
  rules,      \* what is installed in the container's network namespace
  sidecars,   \* how many sidecars of the container exist
  orphans,    \* how many of them pumba gave up on
  reported,   \* operations that returned an error, in any round
  lost,       \* the target was restarted since the run began
  detached    \* the sidecar is in a namespace the target has left

vars == <<req, cancelled, faults, rounds, pc, op, next, bad, expired, rules,
          sidecars, orphans, reported, lost, detached>>

globals == <<req, cancelled, faults, rounds>>

place == <<lost, detached>>

-----------------------------------------------------------------------------
(* The command sequences *)

Add(o) == [verb |-> "add", obj |-> o]

Del(o) == [verb |-> "del", obj |-> o]

\* One command per filter, in the order addresses, source and target ports.
PerFilter(v) == [i \in 1..Len(req.filters) |-> [verb |-> v, obj |-> req.filters[i]]]

(***************************************************************************)
(* startNetemContainer, startNetemContainerIPFilter and buildNetemCommands:*)
(* a netem qdisc at the root, or a prio root with two sfq bands, the netem *)
(* band and one filter per address and port.                               *)
(***************************************************************************)
NetemStart ==
  IF req.filters = <<>>
    THEN <<Add("root")>>
    ELSE <<Add("root"), Add("10:"), Add("20:"), Add("30:")>> \o PerFilter("add")

\* stopNetemContainer and buildStopNetemCommands.
NetemStop ==
  IF req.filters = <<>>
    THEN <<Del("root")>>
    ELSE <<Del("10:"), Del("20:"), Del("30:"), Del("root")>>

\* ipTablesContainer, ipTablesContainerWithIPFilter and buildIPTablesCommands.
IPTablesCommands(v) ==
  IF req.filters = <<>> THEN <<[verb |-> v, obj |-> "rule"]>> ELSE PerFilter(v)

Commands(o) ==
  CASE req.tool = "tc" /\ o = "apply"        -> NetemStart
    [] req.tool = "tc" /\ o = "revert"       -> NetemStop
    [] req.tool = "iptables" /\ o = "apply"  -> IPTablesCommands("add")
    [] req.tool = "iptables" /\ o = "revert" -> IPTablesCommands("del")

-----------------------------------------------------------------------------
(* The network namespace *)

Clean == [o \in Objects |-> 0]

(***************************************************************************)
(* What the kernel accepts: one root qdisc, bands and filters only below   *)
(* it and each band once, and no deletion of what is not there.  iptables  *)
(* inserts the same rule any number of times.  Neither takes a port that   *)
(* is no port.                                                             *)
(***************************************************************************)
Accepts(r, cmd) ==
  /\ cmd.obj \notin BadFilters
  /\ \/ cmd.verb = "del" /\ r[cmd.obj] > 0
     \/ cmd.verb = "add" /\ req.tool = "iptables"
     \/ cmd.verb = "add" /\ cmd.obj = "root" /\ r["root"] = 0
     \/ cmd.verb = "add" /\ cmd.obj \in Bands /\ r["root"] > 0 /\ r[cmd.obj] = 0
     \/ cmd.verb = "add" /\ cmd.obj \in Filters /\ r["root"] > 0

\* Deleting the root qdisc takes the whole tree with it.
Effect(r, cmd) ==
  IF cmd.verb = "add" THEN [r EXCEPT ![cmd.obj] = @ + 1]
  ELSE IF cmd.obj = "root" THEN Clean
  ELSE [r EXCEPT ![cmd.obj] = @ - 1]

-----------------------------------------------------------------------------
(* Contexts and faults *)

\* The revert runs under the closure's own context.
CtxDone_DefectSharedCtx(c) == cancelled \/ expired[c]

(***************************************************************************)
(* The context of the current operation is done.  Both branches of the     *)
(* select in runNetem and runIPTables give the revert a context of its own *)
(* that cancellation does not reach.                                       *)
(***************************************************************************)
CtxDone(c) == op[c] = "apply" /\ (cancelled \/ expired[c])

\* A call of c fails: its context is done, or the runtime is at fault.
CallFails(c) ==
  \/ CtxDone(c) /\ UNCHANGED faults
  \/ faults < MaxFaults /\ faults' = faults + 1

CallSucceeds(c) == ~CtxDone(c) /\ UNCHANGED faults

Goto(c, p) == pc' = [pc EXCEPT ![c] = p]

\* Where an operation begins.
Entry ==
  IF req.dryRun THEN "dry"
  ELSE IF ~req.image THEN "exec"
  ELSE IF req.pull THEN "pull" ELSE "create"

(***************************************************************************)
(* An operation ends.  After a successful apply runNetem waits; a failed   *)
(* apply makes it return at once, without any revert.  After the revert it *)
(* returns, a failure being logged.                                        *)
(***************************************************************************)
OpDone(c, failed) ==
  /\ reported' = IF failed THEN [reported EXCEPT ![c] = @ \cup {op[c]}] ELSE reported
  /\ Goto(c, IF op[c] = "apply" /\ ~failed THEN "wait" ELSE "idle")

-----------------------------------------------------------------------------
Init ==
  /\ req \in Requests
  /\ cancelled = FALSE
  /\ faults = 0 /\ rounds = 0
  /\ pc = [c \in Containers |-> "idle"]
  /\ op = [c \in Containers |-> "apply"]
  /\ next = [c \in Containers |-> 1]
  /\ bad = [c \in Containers |-> FALSE]
  /\ expired = [c \in Containers |-> FALSE]
  /\ rules = [c \in Containers |-> Clean]
  /\ sidecars = [c \in Containers |-> 0]
  /\ orphans = [c \in Containers |-> 0]
  /\ reported = [c \in Containers |-> {}]
  /\ lost = [c \in Containers |-> FALSE]
  /\ detached = [c \in Containers |-> FALSE]

\* The command runs: one closure per target, all in one errgroup.
RunCommand ==
  /\ \A c \in Containers : pc[c] = "idle"
  /\ rounds < MaxRounds /\ ~cancelled
  /\ rounds' = rounds + 1
  /\ pc' = [c \in Containers |-> Entry]
  /\ op' = [c \in Containers |-> "apply"]
  /\ next' = [c \in Containers |-> 1]
  /\ bad' = [c \in Containers |-> FALSE]
  /\ expired' = [c \in Containers |-> FALSE]
  /\ lost' = [c \in Containers |-> FALSE]
  /\ UNCHANGED <<req, cancelled, faults, rules, sidecars, orphans, reported, detached>>

\* A dry run returns before it reaches the runtime.
DryRun(c) ==
  /\ pc[c] = "dry"
  /\ OpDone(c, FALSE)
  /\ UNCHANGED <<globals, op, next, bad, expired, rules, sidecars, orphans, place>>

\* pullSidecarImage, containerd pullImage.
PullImage(c) ==
  /\ pc[c] = "pull"
  /\ \/ CallSucceeds(c) /\ Goto(c, "create") /\ UNCHANGED reported
     \/ CallFails(c) /\ OpDone(c, TRUE)
  /\ UNCHANGED <<req, cancelled, rounds, op, next, bad, expired, rules, sidecars,
                 orphans, place>>

\* A failed create falls through to the removal.
CreateSidecar_DefectFallThrough(c) ==
  /\ pc[c] = "create"
  /\ \/ /\ CallSucceeds(c)
        /\ Goto(c, "start")
        /\ sidecars' = [sidecars EXCEPT ![c] = @ + 1]
     \/ /\ CallFails(c)
        /\ Goto(c, "remove")
        /\ UNCHANGED sidecars
  /\ UNCHANGED <<req, cancelled, rounds, op, next, bad, expired, rules, orphans,
                 reported, place>>

(***************************************************************************)
(* ContainerCreate, or NewContainer with the task and image look-ups       *)
(* before it, which give containerd the pid whose namespace is joined.     *)
(* When it fails pumba has no identifier to remove, although the runtime   *)
(* may have created the container.                                         *)
(***************************************************************************)
CreateSidecar(c) ==
  /\ pc[c] = "create"
  /\ \/ /\ CallSucceeds(c)
        /\ Goto(c, "start")
        /\ sidecars' = [sidecars EXCEPT ![c] = @ + 1]
        /\ detached' = [detached EXCEPT ![c] = FALSE]
        /\ UNCHANGED <<orphans, reported>>
     \/ /\ CallFails(c)
        /\ OpDone(c, TRUE)
        /\ \E stray \in {0, 1} :
             /\ sidecars' = [sidecars EXCEPT ![c] = @ + stray]
             /\ orphans' = [orphans EXCEPT ![c] = @ + stray]
        /\ UNCHANGED detached
  /\ UNCHANGED <<req, cancelled, rounds, op, next, bad, expired, rules, lost>>

\* A failed start returns without removing the sidecar.
StartSidecar_DefectNoRemove(c) ==
  /\ pc[c] = "start"
  /\ \/ CallSucceeds(c) /\ Goto(c, "exec") /\ UNCHANGED reported
     \/ CallFails(c) /\ OpDone(c, TRUE)
  /\ UNCHANGED <<req, cancelled, rounds, op, next, bad, expired, rules, sidecars,
                 orphans, place>>

(***************************************************************************)
(* ContainerStart; NewTask and Start.  When the pid containerd read is     *)
(* gone the start fails, or joins the namespace of whoever has it now.     *)
(***************************************************************************)
StartSidecar(c) ==
  /\ pc[c] = "start"
  /\ \/ CallSucceeds(c) /\ Goto(c, "exec") /\ UNCHANGED bad
     \/ /\ CallFails(c) \/ (detached[c] /\ UNCHANGED faults)
        /\ Goto(c, "remove") /\ bad' = [bad EXCEPT ![c] = TRUE]
  /\ UNCHANGED <<req, cancelled, rounds, op, next, expired, rules, sidecars,
                 orphans, reported, place>>

\* The error of a command is swallowed.
ExecError_DefectSwallowed(c) ==
  /\ IF req.image THEN Goto(c, "remove") /\ UNCHANGED reported ELSE OpDone(c, FALSE)
  /\ UNCHANGED bad

\* An error of a command: the sidecar is removed first when there is one.
ExecError(c) ==
  IF req.image
    THEN Goto(c, "remove") /\ bad' = [bad EXCEPT ![c] = TRUE] /\ UNCHANGED reported
    ELSE OpDone(c, TRUE) /\ UNCHANGED bad

(***************************************************************************)
(* One command of the loop in tcCommands, runSidecar, sidecarExec and the  *)
(* like: create the exec, run it, read its exit code.  It is executed and  *)
(* succeeds, is rejected by the kernel, or one of the calls fails, before  *)
(* or after the command took effect.  In a namespace the target has left   *)
(* anything may become of it, and the target sees nothing.                 *)
(***************************************************************************)
ExecCommand(c) ==
  /\ pc[c] = "exec" /\ next[c] <= Len(Commands(op[c]))
  /\ LET cmd == Commands(op[c])[next[c]]
         after == [rules EXCEPT ![c] = Effect(@, cmd)]
     IN  \/ /\ CallSucceeds(c) /\ (detached[c] \/ Accepts(rules[c], cmd))
            /\ rules' = IF detached[c] THEN rules ELSE after
            /\ next' = [next EXCEPT ![c] = @ + 1]
            /\ UNCHANGED <<pc, bad, reported>>
         \/ /\ CallSucceeds(c) /\ (detached[c] \/ ~Accepts(rules[c], cmd))
            /\ ExecError(c)
            /\ UNCHANGED <<rules, next>>
         \/ /\ CallFails(c)
            /\ ExecError(c)
            /\ \/ rules' = rules
               \/ ~detached[c] /\ Accepts(rules[c], cmd) /\ rules' = after
            /\ UNCHANGED next
  /\ UNCHANGED <<req, cancelled, rounds, op, expired, sidecars, orphans, place>>

\* The loop over the commands ends.
CommandsDone(c) ==
  /\ pc[c] = "exec" /\ next[c] > Len(Commands(op[c]))
  /\ IF req.image THEN Goto(c, "remove") /\ UNCHANGED reported ELSE OpDone(c, FALSE)
  /\ UNCHANGED <<globals, op, next, bad, expired, rules, sidecars, orphans, place>>

(***************************************************************************)
(* removeSidecar and cleanupSidecar, under a context of their own that     *)
(* only a fault of the runtime ends.  A missing container, or one seen     *)
(* going away after a timeout, counts as removed (sidecarRemovalComplete). *)
(* Docker turns a failed removal into an error of the operation, even when *)
(* all commands succeeded; containerd logs it.                             *)
(***************************************************************************)
RemoveSidecar(c) ==
  /\ pc[c] = "remove"
  /\ \/ /\ sidecars' = [sidecars EXCEPT ![c] = @ - 1]
        /\ OpDone(c, bad[c])
        /\ UNCHANGED <<faults, orphans>>
     \/ /\ faults < MaxFaults /\ faults' = faults + 1
        /\ OpDone(c, bad[c] \/ req.runtime = "docker")
        /\ \/ /\ sidecars' = [sidecars EXCEPT ![c] = @ - 1]
              /\ UNCHANGED orphans
           \/ /\ orphans' = [orphans EXCEPT ![c] = @ + 1]
              /\ UNCHANGED sidecars
  /\ UNCHANGED <<req, cancelled, rounds, op, next, bad, expired, rules, place>>

\* On abort the closure just returns.
BeginRevert_DefectNoAbort(c) ==
  /\ pc[c] = "wait"
  /\ Goto(c, IF cancelled THEN "idle" ELSE Entry)
  /\ op' = [op EXCEPT ![c] = "revert"]
  /\ next' = [next EXCEPT ![c] = 1]
  /\ bad' = [bad EXCEPT ![c] = FALSE]
  /\ UNCHANGED <<globals, expired, rules, sidecars, orphans, reported, place>>

\* Only the closure's context ends the wait.
BeginRevert_DefectNoTimer(c) ==
  /\ pc[c] = "wait" /\ (cancelled \/ expired[c])
  /\ Goto(c, Entry)
  /\ op' = [op EXCEPT ![c] = "revert"]
  /\ next' = [next EXCEPT ![c] = 1]
  /\ bad' = [bad EXCEPT ![c] = FALSE]
  /\ UNCHANGED <<globals, expired, rules, sidecars, orphans, reported, place>>

\* The select of runNetem leaves the wait: ctx is done or --duration is over.
BeginRevert(c) ==
  /\ pc[c] = "wait"
  /\ Goto(c, Entry)
  /\ op' = [op EXCEPT ![c] = "revert"]
  /\ next' = [next EXCEPT ![c] = 1]
  /\ bad' = [bad EXCEPT ![c] = FALSE]
  /\ UNCHANGED <<globals, expired, rules, sidecars, orphans, reported, place>>

Closure(c) ==
  \/ DryRun(c) \/ PullImage(c) \/ CreateSidecar(c) \/ StartSidecar(c)
  \/ ExecCommand(c) \/ CommandsDone(c) \/ RemoveSidecar(c) \/ BeginRevert(c)

-----------------------------------------------------------------------------
(* The environment *)

Cancel ==
  /\ ~cancelled
  /\ cancelled' = TRUE
  /\ UNCHANGED <<req, faults, rounds, pc, op, next, bad, expired, rules,
                 sidecars, orphans, reported, place>>

\* The WithTimeout(Duration) context of the closure runs out.
Expire(c) ==
  /\ req.deadline /\ pc[c] # "idle" /\ ~expired[c]
  /\ expired' = [expired EXCEPT ![c] = TRUE]
  /\ UNCHANGED <<globals, pc, op, next, bad, rules, sidecars, orphans, reported, place>>

(***************************************************************************)
(* The target restarts, by its restart policy or another process: it has a *)
(* new, empty namespace.  A sidecar that joined the old one stays there;   *)
(* containerd's has its pid from before it is started.                     *)
(***************************************************************************)
Restart(c) ==
  /\ faults < MaxFaults /\ faults' = faults + 1
  /\ rules' = [rules EXCEPT ![c] = Clean]
  /\ lost' = [lost EXCEPT ![c] = TRUE]
  /\ detached' = [detached EXCEPT ![c] =
       req.image /\ pc[c] \in {"exec", "remove"}
                             \cup (IF req.runtime = "docker" THEN {} ELSE {"start"})]
  /\ UNCHANGED <<req, cancelled, rounds, pc, op, next, bad, expired, sidecars,
                 orphans, reported>>

Next ==
  \/ RunCommand \/ Cancel
  \/ \E c \in Containers : Closure(c) \/ Expire(c) \/ Restart(c)

Spec == Init /\ [][Next]_vars

\* Each closure is a goroutine that runs; each call returns, each timer fires;
\* no fault is forced.
FairSpec == Spec /\ \A c \in Containers : WF_vars(Closure(c) /\ UNCHANGED faults)

-----------------------------------------------------------------------------
(* Properties *)

(***************************************************************************)
(* Type invariant of the closures and of the namespaces they change.       *)
(***************************************************************************)
TypeOK ==
  /\ req \in Requests
  /\ cancelled \in BOOLEAN
  /\ faults \in 0..MaxFaults /\ rounds \in 0..MaxRounds
  /\ pc \in [Containers -> {"idle", "dry", "pull", "create", "start", "exec",
                            "remove", "wait"}]
  /\ op \in [Containers -> {"apply", "revert"}]
  /\ next \in [Containers -> Nat]
  /\ bad \in [Containers -> BOOLEAN]
  /\ expired \in [Containers -> BOOLEAN]
  /\ rules \in [Containers -> [Objects -> Nat]]
  /\ sidecars \in [Containers -> Nat]
  /\ orphans \in [Containers -> Nat]
  /\ reported \in [Containers -> SUBSET {"apply", "revert"}]
  /\ lost \in [Containers -> BOOLEAN] /\ detached \in [Containers -> BOOLEAN]

(***************************************************************************)
(* The sidecar ledger: at any moment the sidecars of a container are the   *)
(* one its closure is using plus those pumba gave up on, because a create  *)
(* failed without an identifier or a removal failed.  No early return, no  *)
(* cancellation and no expired deadline loses another (runSidecar and      *)
(* sidecarExec with their removal on every path).                          *)
(***************************************************************************)
SidecarLedger ==
  \A c \in Containers :
    sidecars[c] = orphans[c] + (IF pc[c] \in {"start", "remove"}
                                  \/ (pc[c] = "exec" /\ req.image) THEN 1 ELSE 0)

(***************************************************************************)
(* No silent leak: a namespace still holding rules when its closure has    *)
(* returned means that an apply or a revert on it reported an error, also  *)
(* when the target was restarted on the way or a filter was no filter.     *)
(***************************************************************************)
NoSilentLeak ==
  \A c \in Containers :
    pc[c] = "idle" /\ reported[c] = {} => rules[c] = Clean

(***************************************************************************)
(* The revert survives cancellation: unless an apply failed, and as long   *)
(* as the runtime itself does not fail, the namespace is clean again when  *)
(* the closure returns, at whatever moment the signal came or the deadline *)
(* passed (the two WithoutCancel contexts of runNetem and runIPTables).    *)
(***************************************************************************)
RevertSurvivesCancel ==
  \A c \in Containers :
    faults = 0 /\ pc[c] = "idle" /\ "apply" \notin reported[c] => rules[c] = Clean

(***************************************************************************)
(* Chaos is held only when all of it is installed: the closure waits for   *)
(* --duration only if every command of the apply sequence took effect on   *)
(* the target, unless that was restarted since.                            *)
(***************************************************************************)
AppliedInFull ==
  \A c \in Containers :
    pc[c] = "wait" /\ ~req.dryRun /\ ~lost[c] =>
      \A i \in 1..Len(Commands("apply")) : rules[c][Commands("apply")[i].obj] > 0

(***************************************************************************)
(* A dry run leaves the namespaces and the runtime's containers alone.     *)
(***************************************************************************)
DryRunIsDry ==
  [][req.dryRun => UNCHANGED <<rules, sidecars>>]_vars

(***************************************************************************)
(* Seen from outside: a closure acts while it applies, holds while it      *)
(* waits, and undoes while it reverts; a dry run does nothing.             *)
(***************************************************************************)
Phase ==
  [c \in Containers |->
     IF pc[c] = "idle" \/ req.dryRun THEN "idle"
     ELSE IF pc[c] = "wait" THEN "held"
     ELSE IF op[c] = "apply" THEN "acting" ELSE "undoing"]

Lease == INSTANCE ReversibleChaos
  WITH Targets <- Containers, phase <- Phase, replaced <- lost,
       dirty <- [c \in Containers |-> rules[c] # Clean],
       told <- [c \in Containers |-> reported[c] # {}]

(***************************************************************************)
(* netem and iptables implement the lease: chaos is held until it is       *)
(* lifted, is always lifted in the end, and is left behind only with an    *)
(* error reported.                                                         *)
(***************************************************************************)
KeepsLease == Lease!Spec

(***************************************************************************)
(* What docs/release-promo-1.1.0.md says of a SIGTERM during the tc-exec   *)
(* window: no qdisc stays on the target.  With a runtime that never fails, *)
(* the namespace is clean whenever the closure has returned.               *)
(***************************************************************************)
CancelLeavesNoRules ==
  \A c \in Containers :
    faults = 0 /\ pc[c] = "idle" => rules[c] = Clean
=============================================================================
