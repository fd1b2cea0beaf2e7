---------------------------- MODULE ChaosRunner ----------------------------
(***************************************************************************)
(* The chaos loop of pumba: chaos.RunChaosCommand (pkg/chaos/command.go)   *)
(* drives a command once or on every tick, and chaos.runOnContainers       *)
(* (pkg/chaos/runner.go) lists the targets, narrows them and calls the     *)
(* command's closure on each, one after the other (lifecycle commands) or  *)
(* in one errgroup (netem, iptables and stress).                           *)
(*                                                                         *)
(* The closures are opaque here: a closure starts, and later reports       *)
(* success or an error.  What the closures do to a container is the        *)
(* subject of NetChaos, LifecycleRevert and StressResult.                  *)
(*                                                                         *)
(* An operator X_Defect... is X with one plausible bug.  No specification  *)
(* uses it; it serves to show that a property can fail.                    *)
(***************************************************************************)
EXTENDS Integers, FiniteSets

CONSTANTS
  Containers,   \* the containers the runtime knows when pumba starts
  Labelled,     \* those with com.gaiaadm.pumba or com.gaiaadm.pumba.skip
  ParamSpace,   \* the command lines considered, a set of Params records
  NoError,      \* "no error yet"
  ListError,    \* the error of a failed listing
  MaxRuns       \* where the counter of runs saturates

(***************************************************************************)
(* GlobalParams and the arguments of runOnContainers.  names is the set of *)
(* containers a non-empty name list matches ("given" tells whether there   *)
(* is a list), pattern the set its regexp matches: everything when it is   *)
(* empty, nothing when it does not compile.  With --label (byLabel) labels *)
(* is the set of containers that carry them all.                           *)
(***************************************************************************)
Params ==
  [recurrent : BOOLEAN, skipErrors : BOOLEAN, random : BOOLEAN,
   parallel : BOOLEAN, all : BOOLEAN, limit : Int, given : BOOLEAN,
   names : SUBSET Containers, pattern : SUBSET Containers,
   byLabel : BOOLEAN, labels : SUBSET Containers,
   runtime : {"docker", "containerd"}]

ASSUME RunnerAssumption ==
  /\ IsFiniteSet(Containers)
  /\ Labelled \subseteq Containers
  /\ ParamSpace \subseteq Params
  /\ NoError \notin Containers /\ ListError \notin Containers
  /\ NoError # ListError
  /\ MaxRuns \in Nat /\ MaxRuns > 1

VARIABLES
  params,     \* the command line, never changed
  status,     \* what the runtime knows of each container
  cancelled,  \* topContext is done (SIGINT or SIGTERM)
  tick,       \* the timer channel: "idle", "ready" or, once received, "spent"
  pc,         \* where RunChaosCommand is
  seen,       \* containers the listing still has to inspect
  todo,       \* listed (and later selected) containers without a closure yet
  busy,       \* containers whose closure is running
  passed,     \* containers whose closure returned nil in this run
  failed,     \* containers whose closure returned an error in this run
  err,        \* what command.Run returns or will return
  everFailed, \* some run so far returned an error
  runs,       \* how many runs were begun, up to MaxRuns
  outcome     \* what RunChaosCommand returned

vars == <<params, status, cancelled, tick, pc, seen, todo, busy, passed,
          failed, err, everFailed, runs, outcome>>

env == <<params, status, cancelled, tick>>

targets == <<seen, todo, busy, passed, failed>>

-----------------------------------------------------------------------------
(* Selecting the targets *)

applyContainerFilter_DefectNoSkip(c) ==
  c \in IF params.given THEN params.names ELSE params.pattern

\* applyContainerFilter: labelled containers never match, names before pattern.
applyContainerFilter(c) ==
  /\ c \notin Labelled
  /\ c \in IF params.given THEN params.names ELSE params.pattern

\* The tail of ListNContainersAll: shuffle and keep limit containers.
Capped(S) ==
  IF params.limit > 0 /\ Cardinality(S) > params.limit
    THEN {T \in SUBSET S : Cardinality(T) = params.limit}
    ELSE {S}

\* RandomContainer, when --random is given and something was listed.
Picked(S) ==
  IF params.random /\ S # {} THEN {{c} : c \in S} ELSE {S}

\* The target sets runOnContainers may arrive at from the listed set S.
Selections(S) == UNION {Picked(T) : T \in Capped(S)}

-----------------------------------------------------------------------------
Init ==
  /\ params \in ParamSpace
  /\ status \in [Containers -> {"running", "stopped"}]
  /\ cancelled = FALSE
  /\ tick = "idle"
  /\ pc = "list"
  /\ seen = {} /\ todo = {} /\ busy = {} /\ passed = {} /\ failed = {}
  /\ err = NoError
  /\ everFailed = FALSE
  /\ runs = 1
  /\ outcome = "none"

\* Run returns e to RunChaosCommand.
Ran(e) ==
  /\ err' = e
  /\ everFailed' = (everFailed \/ e # NoError)
  /\ pc' = "ran"

(***************************************************************************)
(* ListContainers asks the runtime for its containers: the running ones,   *)
(* or every one for rm.  Docker filters by label itself; containerd        *)
(* refuses --label, lists every container and tells the stopped ones apart *)
(* later.  A call with a cancelled context fails.                          *)
(***************************************************************************)
ListContainers ==
  /\ pc = "list" /\ ~cancelled
  /\ params.runtime = "containerd" => ~params.byLabel
  /\ seen' = {c \in Containers :
                /\ \/ status[c] = "running"
                   \/ status[c] = "stopped" /\ (params.all \/ params.runtime = "containerd")
                /\ params.byLabel => c \in params.labels}
  /\ pc' = "inspect"
  /\ UNCHANGED <<env, todo, busy, passed, failed, err, everFailed, runs, outcome>>

\* The listing, or one of its docker inspections, fails.
ListFails ==
  /\ \/ pc = "list"
     \/ pc = "inspect" /\ seen # {} /\ params.runtime = "docker"
  /\ seen' = {} /\ todo' = {}
  /\ Ran(ListError)
  /\ UNCHANGED <<env, busy, passed, failed, runs, outcome>>

\* The containerd loop appends the nil container of a failed inspection.
InspectContainer_DefectNil(c) ==
  /\ pc = "inspect" /\ c \in seen
  /\ seen' = seen \ {c}
  /\ todo' = todo \cup {IF status[c] = "gone" THEN NoError ELSE c}
  /\ UNCHANGED <<env, pc, busy, passed, failed, err, everFailed, runs, outcome>>

\* The inspections are made with a context of their own.
InspectContainer_DefectCtx(c) ==
  /\ pc = "inspect" /\ c \in seen
  /\ seen' = seen \ {c}
  /\ status[c] # "gone"
  /\ todo' = IF applyContainerFilter(c) THEN todo \cup {c} ELSE todo
  /\ UNCHANGED <<env, pc, busy, passed, failed, err, everFailed, runs, outcome>>

(***************************************************************************)
(* The runtime answers the inspection of one listed container, which is    *)
(* then filtered.  An inspection fails when the container is gone, when    *)
(* the context is cancelled, or for any other reason: with docker so does  *)
(* the whole listing (ListFails); containerd logs it and goes on with the  *)
(* next one, and returns what it has.                                      *)
(***************************************************************************)
InspectContainer(c) ==
  /\ pc = "inspect" /\ c \in seen
  /\ seen' = seen \ {c}
  /\ \/ /\ status[c] # "gone" /\ ~cancelled
        /\ LET stopped == /\ params.runtime = "containerd"
                          /\ ~params.all
                          /\ status[c] = "stopped"
           IN  todo' = IF applyContainerFilter(c) /\ ~stopped THEN todo \cup {c} ELSE todo
     \/ /\ params.runtime = "containerd"
        /\ todo' = todo
  /\ UNCHANGED <<env, pc, busy, passed, failed, err, everFailed, runs, outcome>>

\* runOnContainers narrows what was listed, or returns nil for an empty list.
SelectTargets ==
  /\ pc = "inspect" /\ seen = {}
  /\ \E T \in Selections(todo) : todo' = T
  /\ IF todo = {} THEN Ran(NoError) ELSE pc' = "run" /\ UNCHANGED <<err, everFailed>>
  /\ UNCHANGED <<env, seen, busy, passed, failed, runs, outcome>>

(***************************************************************************)
(* A closure starts: any of them in the errgroup, the next one in the      *)
(* serial loop once the one before returned nil.                           *)
(***************************************************************************)
StartClosure(c) ==
  /\ pc = "run" /\ c \in todo
  /\ ~params.parallel => busy = {} /\ err = NoError
  /\ todo' = todo \ {c}
  /\ busy' = busy \cup {c}
  /\ UNCHANGED <<env, pc, seen, passed, failed, err, everFailed, runs, outcome>>

ClosurePasses(c) ==
  /\ pc = "run" /\ c \in busy
  /\ busy' = busy \ {c}
  /\ passed' = passed \cup {c}
  /\ UNCHANGED <<env, pc, seen, todo, failed, err, everFailed, runs, outcome>>

\* errgroup keeps the first error; the serial loop meets only one.
ClosureFails(c) ==
  /\ pc = "run" /\ c \in busy
  /\ busy' = busy \ {c}
  /\ failed' = failed \cup {c}
  /\ err' = IF err = NoError THEN c ELSE err
  /\ UNCHANGED <<env, pc, seen, todo, passed, everFailed, runs, outcome>>

\* The group returns at the first error without joining the others.
RunReturns_DefectNoJoin ==
  /\ pc = "run"
  /\ (todo = {} /\ busy = {}) \/ err # NoError
  /\ Ran(err)
  /\ UNCHANGED <<env, targets, runs, outcome>>

\* The result of Wait is dropped.
RunReturns_DefectLosesError ==
  /\ pc = "run" /\ busy = {}
  /\ todo = {} \/ (~params.parallel /\ err # NoError)
  /\ Ran(NoError)
  /\ UNCHANGED <<env, targets, runs, outcome>>

\* The serial loop ends at its end or at an error; errgroup.Wait joins all.
RunReturns ==
  /\ pc = "run" /\ busy = {}
  /\ todo = {} \/ (~params.parallel /\ err # NoError)
  /\ Ran(err)
  /\ UNCHANGED <<env, targets, runs, outcome>>

-----------------------------------------------------------------------------
(* RunChaosCommand around command.Run *)

Return(o) == pc' = "returned" /\ outcome' = o

\* Only a failed listing is treated as an error.
HandleResult_DefectListOnly ==
  /\ pc = "ran"
  /\ IF err = ListError /\ ~params.skipErrors
       THEN Return("error")
       ELSE pc' = "select" /\ UNCHANGED outcome
  /\ UNCHANGED <<env, targets, err, everFailed, runs>>

\* --skip-error does not cover the listing.
HandleResult_DefectListFatal ==
  /\ pc = "ran"
  /\ IF err # NoError /\ (~params.skipErrors \/ err = ListError)
       THEN Return("error")
       ELSE pc' = "select" /\ UNCHANGED outcome
  /\ UNCHANGED <<env, targets, err, everFailed, runs>>

\* An error ends the loop unless --skip-error.
HandleResult ==
  /\ pc = "ran"
  /\ IF err # NoError /\ ~params.skipErrors
       THEN Return("error")
       ELSE pc' = "select" /\ UNCHANGED outcome
  /\ UNCHANGED <<env, targets, err, everFailed, runs>>

\* Done is looked at only when no tick is waiting.
SelectDone_DefectTickFirst ==
  /\ pc = "select" /\ cancelled /\ tick # "ready"
  /\ Return("nil")
  /\ UNCHANGED <<env, targets, err, everFailed, runs>>

SelectDone ==
  /\ pc = "select" /\ cancelled
  /\ Return("nil")
  /\ UNCHANGED <<env, targets, err, everFailed, runs>>

\* The tick is received: a one-shot command is over, another runs again.
SelectTick ==
  /\ pc = "select" /\ tick = "ready"
  /\ IF params.recurrent
       THEN /\ tick' = "idle"
            /\ pc' = "list"
            /\ runs' = IF runs < MaxRuns THEN runs + 1 ELSE runs
            /\ seen' = {} /\ todo' = {} /\ busy' = {} /\ passed' = {} /\ failed' = {}
            /\ err' = NoError
            /\ UNCHANGED outcome
       ELSE /\ tick' = "spent"
            /\ Return("nil")
            /\ UNCHANGED <<targets, err, runs>>
  /\ UNCHANGED <<params, status, cancelled, everFailed>>

-----------------------------------------------------------------------------
(* The environment *)

\* The timer or ticker fires; a tick nobody received yet is not doubled.
Tick ==
  /\ tick = "idle" /\ pc # "returned"
  /\ tick' = "ready"
  /\ UNCHANGED <<params, status, cancelled, pc, targets, err, everFailed, runs, outcome>>

\* handleSignals cancels the top context.
Cancel ==
  /\ ~cancelled /\ pc # "returned"
  /\ cancelled' = TRUE
  /\ UNCHANGED <<params, status, tick, pc, targets, err, everFailed, runs, outcome>>

\* A container exits or is removed, by chaos or by anyone.
Churn(c) ==
  /\ pc # "returned"
  /\ \/ status[c] = "running" /\ status' = [status EXCEPT ![c] = "stopped"]
     \/ status[c] # "gone" /\ status' = [status EXCEPT ![c] = "gone"]
  /\ UNCHANGED <<params, cancelled, tick, pc, targets, err, everFailed, runs, outcome>>

RunnerStep ==
  \/ ListContainers \/ ListFails \/ SelectTargets \/ RunReturns
  \/ HandleResult \/ SelectDone \/ SelectTick
  \/ \E c \in Containers :
       \/ InspectContainer(c) \/ StartClosure(c)
       \/ ClosurePasses(c) \/ ClosureFails(c)

Next ==
  \/ RunnerStep \/ Tick \/ Cancel
  \/ \E c \in Containers : Churn(c)

(***************************************************************************)
(* Fairness.  The goroutines run and every closure returns (each has its   *)
(* own deadline or is bounded by its context), the timer fires, and select *)
(* picks among ready cases at random, so it does not ignore Done for ever. *)
(***************************************************************************)
Fairness ==
  /\ WF_vars(RunnerStep)
  /\ WF_vars(Tick)
  /\ SF_vars(SelectDone)

Spec == Init /\ [][Next]_vars

FairSpec == Spec /\ Fairness

-----------------------------------------------------------------------------
(* Properties *)

Started == busy \cup passed \cup failed

(***************************************************************************)
(* Type invariant of the loop's state.                                     *)
(***************************************************************************)
TypeOK ==
  /\ params \in ParamSpace
  /\ status \in [Containers -> {"running", "stopped", "gone"}]
  /\ cancelled \in BOOLEAN /\ everFailed \in BOOLEAN
  /\ tick \in {"idle", "ready", "spent"}
  /\ pc \in {"list", "inspect", "run", "ran", "select", "returned"}
  /\ seen \subseteq Containers /\ todo \subseteq Containers
  /\ busy \subseteq Containers /\ passed \subseteq Containers
  /\ failed \subseteq Containers
  /\ err \in Containers \cup {NoError, ListError}
  /\ runs \in 1..MaxRuns
  /\ outcome \in {"none", "nil", "error"}

(***************************************************************************)
(* Blast radius: however the world changes between listing and acting, no  *)
(* closure is ever begun on a container that carries a pumba label, on one *)
(* the names or pattern do not match or that lacks a --label, on more than *)
(* --limit containers, or on more than one with --random (ListContainers,  *)
(* applyContainerFilter, ListNContainersAll and runOnContainers together). *)
(***************************************************************************)
BlastRadius ==
  /\ Started \cap Labelled = {}
  /\ \A c \in Started : c \in IF params.given THEN params.names ELSE params.pattern
  /\ params.byLabel => Started \subseteq params.labels
  /\ params.limit > 0 => Cardinality(Started) <= params.limit
  /\ params.random => Cardinality(Started) <= 1

(***************************************************************************)
(* The promise of ContainerAction (runner.go): a serial run stops at its   *)
(* first error and never overlaps two closures; a parallel run is over     *)
(* only when every selected closure ran and returned, errors or not.       *)
(***************************************************************************)
RunIsJoined ==
  /\ pc # "run" => busy = {}
  /\ ~params.parallel =>
       /\ Cardinality(busy) <= 1
       /\ Cardinality(failed) <= 1
       /\ failed # {} => busy = {}
  /\ params.parallel /\ pc \in {"ran", "select"} /\ err # ListError => todo = {}

(***************************************************************************)
(* The result of RunChaosCommand is honest: it returns an error exactly    *)
(* when a run failed and --skip-error is off, and nil otherwise.           *)
(***************************************************************************)
HonestOutcome ==
  pc = "returned" =>
    (outcome = "error") = (everFailed /\ ~params.skipErrors)

(***************************************************************************)
(* A run reports an error exactly when its listing or one of its closures  *)
(* failed, and the error is one that really happened in this run.          *)
(***************************************************************************)
RunErrorIsReal ==
  pc \in {"ran", "select"} =>
    /\ (err \in failed \cup {ListError}) = (err # NoError)
    /\ failed # {} => err # NoError

(***************************************************************************)
(* Without --interval the command runs once.                               *)
(***************************************************************************)
OneShot == ~params.recurrent => runs = 1

(***************************************************************************)
(* Once the top context is done no container joins those to be attacked,   *)
(* and a run that select still begins starts no closure.  (A run that was  *)
(* listing when the signal came may go on: containerd's listing passes     *)
(* over what it can no longer inspect and returns the containers it had    *)
(* inspected before, without an error.)                                    *)
(***************************************************************************)
NoNewTargetsAfterCancel ==
  /\ [][cancelled => todo' \subseteq todo]_vars
  /\ [](cancelled /\ pc = "list" => [](pc # "run"))

(***************************************************************************)
(* The error of a run is the first one reported: later failures of the     *)
(* same errgroup do not replace it.                                        *)
(***************************************************************************)
FirstErrorWins == [][pc = "run" /\ err # NoError => err' = err]_vars

(***************************************************************************)
(* A signal ends the loop, even when a tick is ready in every select.      *)
(***************************************************************************)
CancelEndsLoop == cancelled ~> pc = "returned"

(***************************************************************************)
(* A recurrent command with --skip-error that is never cancelled runs for  *)
(* ever, whatever fails; a one-shot command returns.                       *)
(***************************************************************************)
SkipErrorKeepsRunning ==
  IF params.recurrent
    THEN params.skipErrors /\ []~cancelled => []<>(pc = "list")
    ELSE <>(pc = "returned")
=============================================================================
