------------------------- MODULE ChaosRunnerProofs -------------------------
(***************************************************************************)
(* Proofs about ChaosRunner, for every set of containers, every set of     *)
(* command lines and every bound on the runs.                              *)
(***************************************************************************)
EXTENDS ChaosRunner, FiniteSetTheorems, TLAPS

(***************************************************************************)
(* The inductive invariant.  Beside the type it has four parts, one per    *)
(* concern of the loop.                                                    *)
(***************************************************************************)

\* What was listed or started passed the filter; once narrowed, it is small.
InvTargets ==
  /\ pc \in {"list", "inspect"} => Started = {}
  /\ \A c \in todo \cup Started : applyContainerFilter(c)
  /\ params.byLabel => seen \cup todo \cup Started \subseteq params.labels
  /\ pc \notin {"list", "inspect"} =>
       /\ params.limit > 0 => Cardinality(todo \cup Started) <= params.limit
       /\ params.random => Cardinality(todo \cup Started) <= 1

\* Closures run only inside a run, one at a time when the run is serial.
InvJoin ==
  /\ pc # "run" => busy = {}
  /\ ~params.parallel =>
       /\ \A x, y \in busy : x = y
       /\ \A x, y \in failed : x = y
       /\ failed # {} => busy = {} /\ err # NoError
  /\ params.parallel /\ pc \in {"ran", "select"} /\ err # ListError => todo = {}

\* The error of the current run is one of its own.
InvError ==
  /\ pc \in {"list", "inspect"} => err = NoError
  /\ pc = "run" => err \in failed \cup {NoError}
  /\ pc \in {"ran", "select"} => err \in failed \cup {NoError, ListError}
  /\ pc # "returned" /\ failed # {} => err # NoError

\* Without --skip-error the first failed run is the last.
InvOutcome ==
  /\ pc # "returned" => outcome = "none"
  /\ ~params.skipErrors =>
       /\ pc \notin {"ran", "returned"} => ~everFailed
       /\ pc = "ran" => everFailed = (err # NoError)
       /\ pc = "select" => err = NoError
  /\ HonestOutcome

IInv == TypeOK /\ InvTargets /\ InvJoin /\ InvError /\ InvOutcome /\ OneShot

-----------------------------------------------------------------------------
(* Finite sets *)

\* A set all of whose elements are equal has at most one.
LEMMA AtMostOne ==
  ASSUME NEW S, \A x, y \in S : x = y
  PROVE  Cardinality(S) \in Nat /\ Cardinality(S) <= 1
<1>1. CASE S = {}
  BY <1>1, FS_EmptySet
<1>2. CASE S # {}
  <2>1. PICK a : a \in S
    BY <1>2
  <2>2. S = {a}
    BY <2>1
  <2> QED
    BY <2>2, FS_Singleton
<1> QED
  BY <1>1, <1>2

\* The set of targets and its parts are finite.
LEMMA FiniteTargets ==
  ASSUME NEW S, S \subseteq Containers
  PROVE  IsFiniteSet(S) /\ Cardinality(S) \in Nat
BY RunnerAssumption, FS_Subset, FS_CardinalityType

(***************************************************************************)
(* What the narrowing of runOnContainers (limit, then random) returns is a *)
(* part of what was listed and within both bounds.                         *)
(***************************************************************************)
LEMMA SelectionsNarrow ==
  ASSUME TypeOK, NEW S, S \subseteq Containers, NEW T \in Selections(S)
  PROVE  /\ T \subseteq S
         /\ params.limit > 0 => Cardinality(T) <= params.limit
         /\ params.random => Cardinality(T) <= 1
<1>1. PICK U \in Capped(S) : T \in Picked(U)
  BY DEF Selections
<1>2. /\ U \subseteq S
      /\ params.limit > 0 => Cardinality(U) <= params.limit
  <2>1. params.limit \in Int /\ Cardinality(S) \in Nat
    BY FiniteTargets, RunnerAssumption DEF TypeOK, Params
  <2>2. CASE params.limit > 0 /\ Cardinality(S) > params.limit
    BY <1>1, <2>1, <2>2 DEF Capped
  <2>3. CASE ~(params.limit > 0 /\ Cardinality(S) > params.limit)
    BY <1>1, <2>1, <2>3 DEF Capped
  <2> QED
    BY <2>2, <2>3
<1>3. CASE params.random /\ U # {}
  <2>1. PICK c \in U : T = {c}
    BY <1>1, <1>3 DEF Picked
  <2>2. Cardinality(T) = 1
    BY <2>1, FS_Singleton
  <2>3. params.limit \in Int
    BY RunnerAssumption DEF TypeOK, Params
  <2> QED
    BY <1>2, <2>1, <2>2, <2>3
<1>4. CASE ~(params.random /\ U # {})
  <2>1. T = U
    BY <1>1, <1>4 DEF Picked
  <2>2. params.random => Cardinality(T) = 0
    BY <1>4, <2>1, FS_EmptySet
  <2> QED
    BY <1>2, <2>1, <2>2
<1> QED
  BY <1>3, <1>4
-----------------------------------------------------------------------------
(* The inductive invariant holds *)

\* The inductive invariant holds before the first run.
LEMMA InitIInv == Init => IInv
<1> SUFFICES ASSUME Init
             PROVE  IInv
  OBVIOUS
<1> USE DEF Init
<1>1. TypeOK
  <2>1. status \in [Containers -> {"running", "stopped", "gone"}]
    OBVIOUS
  <2>2. runs \in 1..MaxRuns
    BY RunnerAssumption
  <2> QED
    BY <2>1, <2>2 DEF TypeOK
<1>2. InvTargets
  BY DEF InvTargets, Started
<1>3. InvJoin
  BY DEF InvJoin
<1>4. InvError
  BY DEF InvError
<1>5. InvOutcome
  BY DEF InvOutcome, HonestOutcome
<1>6. OneShot
  BY DEF OneShot
<1> QED
  BY <1>1, <1>2, <1>3, <1>4, <1>5, <1>6 DEF IInv

\* The type invariant alone, one step per action.
LEMMA TypePreserved ==
  ASSUME TypeOK, [Next]_vars
  PROVE  TypeOK'
<1> USE RunnerAssumption DEF TypeOK, env, targets
<1>1. CASE ListContainers
  BY <1>1 DEF ListContainers
<1>2. CASE ListFails
  BY <1>2 DEF ListFails, Ran
<1>3. CASE SelectTargets
  <2>1. PICK T \in Selections(todo) : todo' = T
    BY <1>3 DEF SelectTargets
  <2>2. todo' \subseteq Containers
    BY <2>1, SelectionsNarrow
  <2>3. /\ UNCHANGED <<env, seen, busy, passed, failed, runs, outcome>>
        /\ pc' \in {"ran", "run"}
        /\ err' \in {err, NoError}
        /\ everFailed' \in BOOLEAN
    BY <1>3 DEF SelectTargets, Ran
  <2> QED
    BY <2>2, <2>3
<1>4. CASE RunReturns
  BY <1>4 DEF RunReturns, Ran
<1>5. CASE HandleResult
  BY <1>5 DEF HandleResult, Return
<1>6. CASE SelectDone
  BY <1>6 DEF SelectDone, Return
<1>7. CASE SelectTick
  BY <1>7 DEF SelectTick, Return
<1>8. ASSUME NEW c \in Containers, InspectContainer(c)
      PROVE  TypeOK'
  BY <1>8 DEF InspectContainer
<1>9. ASSUME NEW c \in Containers, StartClosure(c)
      PROVE  TypeOK'
  BY <1>9 DEF StartClosure
<1>10. ASSUME NEW c \in Containers, ClosurePasses(c)
       PROVE  TypeOK'
  BY <1>10 DEF ClosurePasses
<1>11. ASSUME NEW c \in Containers, ClosureFails(c)
       PROVE  TypeOK'
  BY <1>11 DEF ClosureFails
<1>12. CASE Tick
  BY <1>12 DEF Tick
<1>13. CASE Cancel
  BY <1>13 DEF Cancel
<1>14. ASSUME NEW c \in Containers, Churn(c)
       PROVE  TypeOK'
  BY <1>14 DEF Churn
<1>15. CASE UNCHANGED vars
  BY <1>15 DEF vars
<1> QED
  BY <1>1, <1>2, <1>3, <1>4, <1>5, <1>6, <1>7, <1>8, <1>9, <1>10, <1>11,
     <1>12, <1>13, <1>14, <1>15 DEF Next, RunnerStep

(***************************************************************************)
(* Type correctness of the chaos loop (RunChaosCommand, runOnContainers).  *)
(***************************************************************************)
THEOREM TypeCorrect == Spec => []TypeOK
<1>1. Init => TypeOK
  BY InitIInv DEF IInv
<1>2. TypeOK /\ [Next]_vars => TypeOK'
  BY TypePreserved
<1> QED
  BY <1>1, <1>2, PTL DEF Spec

-----------------------------------------------------------------------------
(* The parts of the invariant, one lemma each *)

\* Listing filters, selecting narrows, and starting only moves containers.
LEMMA TargetsPreserved ==
  ASSUME IInv, [Next]_vars
  PROVE  InvTargets'
<1> USE DEF IInv, InvTargets, Started, env, targets
<1>0. /\ params' = params
      /\ \A c : applyContainerFilter(c)' = applyContainerFilter(c)
  <2>1. params' = params
    BY DEF Next, RunnerStep, ListContainers, ListFails, SelectTargets,
       RunReturns, HandleResult, SelectDone, SelectTick, InspectContainer,
       StartClosure, ClosurePasses, ClosureFails, Tick, Cancel, Churn, vars
  <2> QED
    BY <2>1 DEF applyContainerFilter
<1>1. CASE ListContainers
  BY <1>0, <1>1 DEF ListContainers
<1>2. CASE ListFails
  <2>1. todo' \cup Started' = {} /\ pc' = "ran" /\ params' = params /\ seen' = {}
    BY <1>2 DEF ListFails, Ran
  <2>2. Cardinality(todo' \cup Started') = 0
    BY <2>1, FS_EmptySet
  <2>3. params.limit \in Int
    BY RunnerAssumption DEF TypeOK, Params
  <2> QED
    BY <2>1, <2>2, <2>3
<1>3. CASE SelectTargets
  <2>1. PICK T \in Selections(todo) : todo' = T
    BY <1>3 DEF SelectTargets
  <2>2. /\ todo' \subseteq todo
        /\ params.limit > 0 => Cardinality(todo') <= params.limit
        /\ params.random => Cardinality(todo') <= 1
    BY <2>1, SelectionsNarrow DEF TypeOK
  <2>3. /\ todo' \cup Started' = todo'
        /\ pc' \in {"ran", "run"} /\ params' = params /\ seen' = seen
    BY <1>3 DEF SelectTargets, Ran
  <2> QED
    BY <1>0, <2>2, <2>3
<1>4. CASE RunReturns
  BY <1>0, <1>4 DEF RunReturns, Ran
<1>5. CASE HandleResult
  BY <1>0, <1>5 DEF HandleResult, Return
<1>6. CASE SelectDone
  BY <1>0, <1>6 DEF SelectDone, Return
<1>7. CASE SelectTick
  BY <1>0, <1>7 DEF SelectTick, Return
<1>8. ASSUME NEW c \in Containers, InspectContainer(c)
      PROVE  InvTargets'
  BY <1>0, <1>8 DEF InspectContainer
<1>9. ASSUME NEW c \in Containers,
             StartClosure(c) \/ ClosurePasses(c) \/ ClosureFails(c)
      PROVE  InvTargets'
  <2>1. todo' \cup Started' = todo \cup Started /\ seen' = seen
    BY <1>9 DEF StartClosure, ClosurePasses, ClosureFails
  <2>2. pc = "run" /\ pc' = "run"
    BY <1>9 DEF StartClosure, ClosurePasses, ClosureFails
  <2> QED
    BY <1>0, <2>1, <2>2
<1>10. CASE Tick \/ Cancel \/ (\E c \in Containers : Churn(c)) \/ UNCHANGED vars
  BY <1>0, <1>10 DEF Tick, Cancel, Churn, vars
<1> QED
  BY <1>1, <1>2, <1>3, <1>4, <1>5, <1>6, <1>7, <1>8, <1>9, <1>10
  DEF Next, RunnerStep

\* A run ends when all it started has returned.
LEMMA JoinPreserved ==
  ASSUME IInv, [Next]_vars
  PROVE  InvJoin'
<1> USE RunnerAssumption DEF IInv, InvJoin, env, targets
<1>1. CASE ListContainers \/ HandleResult \/ SelectDone \/ SelectTick
  BY <1>1 DEF ListContainers, HandleResult, SelectDone, SelectTick, Return
<1>2. CASE ListFails
  BY <1>2 DEF ListFails, Ran
<1>3. CASE SelectTargets
  <2>1. PICK T \in Selections(todo) : todo' = T
    BY <1>3 DEF SelectTargets
  <2>2. todo = {} => todo' = {}
    BY <2>1, SelectionsNarrow DEF TypeOK
  <2> QED
    BY <1>3, <2>2 DEF SelectTargets, Ran, InvTargets, Started
<1>4. CASE RunReturns
  BY <1>4 DEF RunReturns, Ran
<1>5. ASSUME NEW c \in Containers, InspectContainer(c)
      PROVE  InvJoin'
  BY <1>5 DEF InspectContainer
<1>6. ASSUME NEW c \in Containers, StartClosure(c)
      PROVE  InvJoin'
  BY <1>6 DEF StartClosure
<1>7. ASSUME NEW c \in Containers, ClosurePasses(c)
      PROVE  InvJoin'
  BY <1>7 DEF ClosurePasses
<1>8. ASSUME NEW c \in Containers, ClosureFails(c)
      PROVE  InvJoin'
  BY <1>8 DEF ClosureFails, TypeOK
<1>9. CASE Tick \/ Cancel \/ (\E c \in Containers : Churn(c)) \/ UNCHANGED vars
  BY <1>9 DEF Tick, Cancel, Churn, vars
<1> QED
  BY <1>1, <1>2, <1>3, <1>4, <1>5, <1>6, <1>7, <1>8, <1>9
  DEF Next, RunnerStep

\* The error of a run is the first of its own failures.
LEMMA ErrorPreserved ==
  ASSUME IInv, [Next]_vars
  PROVE  InvError'
<1> USE RunnerAssumption DEF IInv, InvError, env, targets
<1>1. CASE ListContainers \/ HandleResult \/ SelectDone \/ SelectTick
  BY <1>1 DEF ListContainers, HandleResult, SelectDone, SelectTick, Return
<1>2. CASE ListFails
  BY <1>2 DEF ListFails, Ran
<1>3. CASE SelectTargets
  BY <1>3 DEF SelectTargets, Ran, InvTargets, Started
<1>4. CASE RunReturns
  BY <1>4 DEF RunReturns, Ran
<1>5. ASSUME NEW c \in Containers,
             InspectContainer(c) \/ StartClosure(c) \/ ClosurePasses(c)
      PROVE  InvError'
  BY <1>5 DEF InspectContainer, StartClosure, ClosurePasses
<1>6. ASSUME NEW c \in Containers, ClosureFails(c)
      PROVE  InvError'
  BY <1>6 DEF ClosureFails
<1>7. CASE Tick \/ Cancel \/ (\E c \in Containers : Churn(c)) \/ UNCHANGED vars
  BY <1>7 DEF Tick, Cancel, Churn, vars
<1> QED
  BY <1>1, <1>2, <1>3, <1>4, <1>5, <1>6, <1>7 DEF Next, RunnerStep

\* The loop remembers a failure exactly as long as it matters.
LEMMA OutcomePreserved ==
  ASSUME IInv, [Next]_vars
  PROVE  InvOutcome'
<1> USE RunnerAssumption DEF IInv, InvOutcome, HonestOutcome, env, targets
<1>0. everFailed \in BOOLEAN
  BY DEF TypeOK
<1>1. CASE ListContainers \/ SelectDone \/ SelectTick
  BY <1>0, <1>1 DEF ListContainers, SelectDone, SelectTick, Return
<1>2. CASE ListFails
  BY <1>0, <1>2 DEF ListFails, Ran
<1>3. CASE SelectTargets
  BY <1>0, <1>3 DEF SelectTargets, Ran
<1>4. CASE RunReturns
  BY <1>0, <1>4 DEF RunReturns, Ran
<1>5. CASE HandleResult
  BY <1>0, <1>5 DEF HandleResult, Return
<1>6. ASSUME NEW c \in Containers,
             InspectContainer(c) \/ StartClosure(c) \/ ClosurePasses(c) \/ ClosureFails(c)
      PROVE  InvOutcome'
  BY <1>6 DEF InspectContainer, StartClosure, ClosurePasses, ClosureFails
<1>7. CASE Tick \/ Cancel \/ (\E c \in Containers : Churn(c)) \/ UNCHANGED vars
  BY <1>7 DEF Tick, Cancel, Churn, vars
<1> QED
  BY <1>1, <1>2, <1>3, <1>4, <1>5, <1>6, <1>7 DEF Next, RunnerStep

\* Without an interval nothing begins a second run.
LEMMA OneShotPreserved ==
  ASSUME IInv, [Next]_vars
  PROVE  OneShot'
BY DEF IInv, OneShot, env, Next, RunnerStep, ListContainers, ListFails,
   SelectTargets, RunReturns, HandleResult, SelectDone, SelectTick,
   InspectContainer, StartClosure, ClosurePasses, ClosureFails, Tick, Cancel,
   Churn, vars

\* The inductive invariant is an invariant of the specification.
THEOREM Inductive == Spec => []IInv
<1>1. IInv /\ [Next]_vars => IInv'
  BY TypePreserved, TargetsPreserved, JoinPreserved, ErrorPreserved,
     OutcomePreserved, OneShotPreserved DEF IInv
<1> QED
  BY InitIInv, <1>1, PTL DEF Spec

-----------------------------------------------------------------------------
(* The properties of the chaos loop *)

(***************************************************************************)
(* No closure is ever begun on a labelled or unmatched container, on more  *)
(* than --limit containers or on more than one with --random, for any      *)
(* number of containers and any change of the world between listing and    *)
(* acting (applyContainerFilter, ListNContainersAll, runOnContainers).     *)
(***************************************************************************)
THEOREM BlastRadiusHolds == Spec => []BlastRadius
<1>1. IInv => BlastRadius
  <2> SUFFICES ASSUME IInv
               PROVE  BlastRadius
    OBVIOUS
  <2>1. /\ Started \cap Labelled = {}
        /\ \A c \in Started : c \in IF params.given THEN params.names ELSE params.pattern
        /\ params.byLabel => Started \subseteq params.labels
    BY DEF IInv, InvTargets, applyContainerFilter
  <2>2. /\ IsFiniteSet(todo \cup Started)
        /\ Cardinality(todo \cup Started) \in Nat
        /\ Started \subseteq todo \cup Started
    BY FiniteTargets DEF IInv, TypeOK, Started
  <2>3. Cardinality(Started) \in Nat /\ Cardinality(Started) <= Cardinality(todo \cup Started)
    BY <2>2, FS_Subset, FS_CardinalityType
  <2>4. params.limit \in Int
    BY RunnerAssumption DEF IInv, TypeOK, Params
  <2>5. CASE pc \in {"list", "inspect"}
    <3>1. Cardinality(Started) = 0
      BY <2>5, FS_EmptySet DEF IInv, InvTargets
    <3> QED
      BY <2>1, <2>4, <3>1 DEF BlastRadius
  <2>6. CASE pc \notin {"list", "inspect"}
    <3>1. /\ params.limit > 0 => Cardinality(todo \cup Started) <= params.limit
          /\ params.random => Cardinality(todo \cup Started) <= 1
      BY <2>6 DEF IInv, InvTargets
    <3> QED
      BY <2>1, <2>2, <2>3, <2>4, <3>1 DEF BlastRadius
  <2> QED
    BY <2>5, <2>6
<1> QED
  BY Inductive, <1>1, PTL

(***************************************************************************)
(* A serial run never overlaps two closures and stops at its first error;  *)
(* a parallel run is over only when everything it selected has returned    *)
(* (the errgroup of runOnContainers).                                      *)
(***************************************************************************)
THEOREM RunIsJoinedHolds == Spec => []RunIsJoined
<1>1. IInv => RunIsJoined
  <2> SUFFICES ASSUME IInv
               PROVE  RunIsJoined
    OBVIOUS
  <2>1. ~params.parallel => Cardinality(busy) <= 1 /\ Cardinality(failed) <= 1
    BY AtMostOne DEF IInv, InvJoin
  <2> QED
    BY <2>1 DEF IInv, InvJoin, RunIsJoined
<1> QED
  BY Inductive, <1>1, PTL

(***************************************************************************)
(* RunChaosCommand returns an error exactly when a run failed and          *)
(* --skip-error is off.                                                    *)
(***************************************************************************)
THEOREM HonestOutcomeHolds == Spec => []HonestOutcome
<1>1. IInv => HonestOutcome
  BY DEF IInv, InvOutcome
<1> QED
  BY Inductive, <1>1, PTL

(***************************************************************************)
(* What command.Run returns is an error of this run exactly when its       *)
(* listing or one of its closures failed.                                  *)
(***************************************************************************)
THEOREM RunErrorIsRealHolds == Spec => []RunErrorIsReal
<1>1. IInv => RunErrorIsReal
  BY RunnerAssumption DEF IInv, InvError, RunErrorIsReal, TypeOK
<1> QED
  BY Inductive, <1>1, PTL

\* Without --interval RunChaosCommand runs the command once.
THEOREM OneShotHolds == Spec => []OneShot
<1>1. IInv => OneShot
  BY DEF IInv
<1> QED
  BY Inductive, <1>1, PTL

(***************************************************************************)
(* After the signal no container is added to those about to be attacked,   *)
(* although containerd's listing goes on, and the run that select may      *)
(* still begin starts no closure: from its listing on, the loop is barred. *)
(***************************************************************************)
THEOREM NoNewTargetsAfterCancelHolds == Spec => NoNewTargetsAfterCancel
<1> DEFINE barred == cancelled /\ pc \notin {"inspect", "run"}
<1>1. IInv /\ [Next]_vars => [cancelled => todo' \subseteq todo]_vars
  <2> SUFFICES ASSUME IInv, Next, cancelled
               PROVE  todo' \subseteq todo
    BY DEF vars
  <2>1. CASE SelectTargets
    <3>1. PICK T \in Selections(todo) : todo' = T
      BY <2>1 DEF SelectTargets
    <3> QED
      BY <3>1, SelectionsNarrow DEF IInv, TypeOK
  <2>2. CASE ~SelectTargets
    BY <2>2 DEF Next, RunnerStep, ListContainers, ListFails, RunReturns,
       HandleResult, SelectDone, SelectTick, InspectContainer, StartClosure,
       ClosurePasses, ClosureFails, Tick, Cancel, Churn, targets
  <2> QED
    BY <2>1, <2>2
<1>2. cancelled /\ pc = "list" => barred
  OBVIOUS
<1>3. barred => pc # "run"
  OBVIOUS
<1>4. barred /\ [Next]_vars => barred'
  BY DEF Next, RunnerStep, ListContainers, ListFails, SelectTargets, RunReturns, Ran,
     HandleResult, SelectDone, SelectTick, Return, InspectContainer, StartClosure,
     ClosurePasses, ClosureFails, Tick, Cancel, Churn, env, vars
<1> HIDE DEF barred
<1> QED
  BY Inductive, <1>1, <1>2, <1>3, <1>4, PTL DEF Spec, NoNewTargetsAfterCancel

(***************************************************************************)
(* The error of a run is the first one reported: what errgroup.Wait        *)
(* returns is not replaced by a later failure.                             *)
(***************************************************************************)
THEOREM FirstErrorWinsHolds == Spec => FirstErrorWins
<1>1. [Next]_vars => [pc = "run" /\ err # NoError => err' = err]_vars
  BY DEF Next, RunnerStep, ListContainers, ListFails, SelectTargets,
     RunReturns, Ran, HandleResult, SelectDone, SelectTick, InspectContainer,
     StartClosure, ClosurePasses, ClosureFails, Tick, Cancel, Churn, vars
<1> QED
  BY <1>1, PTL DEF Spec, FirstErrorWins
=============================================================================
