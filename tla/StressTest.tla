----------------------------- MODULE StressTest -----------------------------
(***************************************************************************)
(* One stress test from the look-ups to the verdict: StressPlacement finds *)
(* the cgroup of the target and places the sidecar that StressResult       *)
(* creates, starts and waits for.                                          *)
(***************************************************************************)
EXTENDS StressResult

CONSTANT Setups

VARIABLES setup, look, driver, lines, path, parent, alive, sub, excuse, place

P == INSTANCE StressPlacement

ASSUME SetupAssumption == \A s \in Setups : P!WellFormed(s)

placement == <<setup, look, driver, lines, path, parent, alive, sub, excuse, place>>

testVars == <<vars, placement>>

TestInit == Init /\ P!Init /\ mode = setup.mode

\* A look-up; if it fails StressContainer returns its error.
LookUp ==
  /\ pc = "create" /\ P!LookUp
  /\ IF look' = "failed" THEN Return("failed", "call") ELSE UNCHANGED <<pc, verdict, via>>
  /\ UNCHANGED <<mode, fired, gor, msg, channels, work, task, exists, target,
                 parked, orphan>>

Create == CreateSidecar /\ look = "ready" /\ UNCHANGED placement

\* A sidecar that starts is where the runtime and cg-inject put it.
Start ==
  /\ StartSidecar
  /\ IF work' = "running" THEN P!PlaceSidecar ELSE UNCHANGED placement

TestCaller ==
  \/ LookUp \/ Create \/ Start
  \/ /\ DryRun \/ AttachSidecar \/ StartReturns \/ LaunchGoroutine \/ Select
        \/ StopContainerWithID
     /\ UNCHANGED placement

\* stress-ng exits, and does not succeed where cg-inject could not start it.
Exits ==
  /\ WorkExits
  /\ look = "placed" /\ place = P!NoPath => work' = "bad"
  /\ UNCHANGED placement

\* A stranger's life is no business of the stress test.
Around ==
  \/ P!Environment /\ pc \in {"create", "attach", "start"}
       /\ UNCHANGED <<mode, fired, pc, gor, msg, channels, work, task, exists,
                      target, verdict, via, parked, orphan>>
  \/ (Cancel \/ AutoRemove \/ ProcessExits) /\ UNCHANGED placement

TestGoroutine == Goroutine /\ UNCHANGED placement

TestTimer == TimerFires /\ UNCHANGED placement

TestNext == TestCaller \/ TestGoroutine \/ TestTimer \/ Exits \/ Around

\* As for StressResult: goroutines run, calls return, no fault is forced.
TestSpec ==
  /\ TestInit /\ [][TestNext]_testVars
  /\ WF_testVars(TestCaller /\ UNCHANGED faults)
  /\ WF_testVars(TestGoroutine /\ UNCHANGED faults)
  /\ WF_testVars(TestTimer)

-----------------------------------------------------------------------------
(* Properties *)

\* Both parts keep their type.
TestTypeOK == TypeOK /\ P!TypeOK

(***************************************************************************)
(* The sidecar of a stress test runs in, below or next to the cgroup of    *)
(* the target, however the client looked it up (see StressPlacement).      *)
(***************************************************************************)
StressHitsTarget == P!StressHitsTarget

(***************************************************************************)
(* cg-inject is given a cgroup that exists unless the target went away, a  *)
(* look-up failed, or docker's client did not look (see StressPlacement).  *)
(***************************************************************************)
InjectionFailsForAReason == P!InjectionFailsForAReason

=============================================================================
