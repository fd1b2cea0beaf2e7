# A verification project for pumba

Pumba is a chaos tool for containers: it picks containers, does something bad
to them (kills, stops, pauses, removes them, disturbs their network, loads
their CPU) and, for most commands, undoes it after a while. What makes it hard
is the undoing: it has to happen after errors half way, after a SIGTERM at any
moment, under contexts that are or are not cancelled, through a container
runtime that fails, and next to containers that exit by themselves.

This directory holds TLA+ models of that logic, TLC configurations that check
them on small instances, and TLAPS proofs for all instances. Paths below are
relative to `src/`.

## Inventory

| Component | State it keeps | Operations | What makes it correct |
|---|---|---|---|
| Chaos loop (`pkg/chaos/command.go`, `runner.go`) | timer channel, current targets, first error | run, select on `Done`/tick, list, narrow, start and join closures | only eligible containers are touched; errors are neither lost nor invented; a signal ends the loop |
| Target selection (`pkg/container/filter.go`, `util.go`, `ListContainers` of the clients) | none | label, name and regexp filter, skip labels, limit, random | part of the above |
| Network chaos (`pkg/chaos/netem`, `pkg/chaos/iptables`, `runtime/*/netem.go`, `iptables.go`, `sidecar.go`) | per target: phase, sidecar, installed rules | pull, create, start, exec each command, remove, wait, revert | no rule and no sidecar stays behind without an error |
| Pause and stop (`pkg/chaos/lifecycle`, `docker/lifecycle.go`, `containerd/task.go`) | the containers already acted on | pause, stop signal, wait, SIGKILL, unpause, start | nothing stays paused or stopped without an error |
| Stress (`pkg/chaos/stress`, `runtime/*/stress.go`) | sidecar, goroutine, two channels | create, attach, start, drain, inspect, send, close, stop | the verdict is that of stress-ng; nobody blocks; the sidecar goes away |
| kill, exec, restart, rm (`pkg/chaos/lifecycle`, `docker/lifecycle.go`, `docker/exec.go`, `containerd/client.go`, `task.go`) | none; the runtime's containers, tasks and execs | signal; stop, delete and start a task; force-kill and remove; exec, drain, exit code | success is real, failure leaves nothing unaccounted for, a run ends |
| Cgroup resolution (`runtime/*/cgroup.go`) | what was learned so far: driver, `/proc` lines, path, parent | ask the driver, inspect, read `/proc`, stat, place | stress-ng runs with the target and not with a stranger |
| Parameters (`pkg/util`, `netem/parse.go`, `iptables/parse.go`, the constructors and `buildNetemCmd`) | none | split, check, format | no wider scope than asked; tc reads what was asked |
| Podman client (`runtime/podman/client.go`, `socket.go`, `rootless.go`) | chosen socket, api client, rootless or not | search candidates, probe, open, wrap, ask `/info`, close | the promised socket is used, nothing stays open, rootless is never injected |
| One invocation (`cmd/main.go`, `cmd/runtime.go`, `pkg/chaos/cmd/builder.go`) | runtime client, connections | before, action, after, signal | it ends, and closes what it opened |

How the parts interact: `cmd/main.go` turns SIGINT and SIGTERM into the
cancellation of one context. `RunChaosCommand` runs a command under it, once or
per tick. The command's `Run` calls `runOnContainers` with a closure; lifecycle
commands run it serially, netem, iptables and stress in one errgroup. A closure
calls the client of the runtime. The podman client embeds the docker client and
replaces stress and some guards, so "docker" below covers podman unless said
otherwise. The only goroutines besides the errgroup are the signal handler and
the one each stress test starts.

The hazards, each at its line with the properties aimed at it, are listed in
`PROJECT.json`.

## Modules

### ChaosRunner

`RunChaosCommand` and `runOnContainers` with the listings of both clients; the
closures are opaque, they start and later pass or fail.

| Variable | Code |
|---|---|
| `params` | `GlobalParams` and the arguments of `runOnContainers`; names, regexps and labels are the sets of containers they match |
| `tick`, `cancelled` | the timer or ticker channel; `topContext` |
| `pc` | where the loop is: listing, inspecting, running, deciding on the error, in the `select`, returned |
| `seen`, `todo`, `busy`, `passed`, `failed` | the containers still to inspect, listed or selected, with a running closure, with a result |
| `err`, `everFailed`, `outcome` | the error of this run, whether any run failed, what `RunChaosCommand` returned |
| `status` | what the runtime knows (environment) |

Docker inspects every listed container and fails the whole listing when one is
gone; containerd skips it. Both are actions (`ListFails`, `InspectContainer`),
with the world changing in between (`Churn`). Under a cancelled context docker's
listing fails, while containerd's passes over what it can no longer inspect and
returns what it had, without an error: closures may start after the signal.

### ReversibleChaos

The abstract specification of chaos that undoes itself: a target is idle, acted
upon, held, undone and idle again; chaos that is held stays in force; a target
let go is clean or an error was reported for it; and every target is let go in
the end (`LetsGo`). `NetChaos` and `LifecycleRevert` implement it under the
mappings `Lease` at their ends (`Phase` from the place in the code, `dirty` from
the rules or the paused and stopped containers, `told` from the errors, and in
`NetChaos` `replaced` from a restart of the target). `KeepsLease` is the
abstract specification as a property of the detailed one.

### NetChaos

`runNetem` and `runIPTables` per target, down to the individual runtime calls.
`pc[c]` is the call the closure makes next, `op[c]` whether it applies or
reverts, `next[c]` the command of the sequence. The sequences are those of
`startNetemContainer`, `startNetemContainerIPFilter`, `stopNetemContainer`, the
iptables variants and containerd's builders, with each command reduced to the
object it adds or deletes (the root qdisc, a band, a filter, a rule). `rules`
is the target's network namespace. What the kernel accepts (`Accepts`,
`Effect`) is external: one root qdisc, bands and filters below it, no deletion
of what is absent, iptables rules any number of times. Any call may fail, or
take effect and report an error; a call under a finished context fails. Which
context a call has follows the code: the apply runs under the closure's, for
all commands but `netem delay` with a `--duration` deadline; sidecar removal and
revert run under `WithoutCancel` contexts. A target may be restarted at any
moment (`Restart`) and then has a new, empty namespace; a containerd sidecar
that joined the old one works on a namespace nobody uses. A filter in
`BadFilters` is one the kernel refuses, as that of a port list with an empty
element, which `GetPorts` lets through.

### LifecycleRevert

`pauseCommand.Run` and `stopCommand.Run` with docker's `StopContainer`
(signal, poll, SIGKILL, poll) and containerd's `stopTask` and `startTask`.
`undo` is `pausedContainers` or `stoppedContainers`. After an abort the revert
has a context of its own that lasts `--duration`; after the timer it has the
context of `Run`. For containerd, `stale` records a task that was not deleted
after a stop.

### LifecycleOps

kill, restart, rm and exec. `pc`, `todo`, `cur`, `ok` and `blame` are the
serial loop of `runOnContainers`; `stage` is the call the client makes next.
Docker needs one engine call for kill, restart and rm. containerd loads the
task, signals, waits, deletes and starts (`GetTask` to `StartTask`), or loads,
force-kills and deletes the container (`LoadContainer` to `RemoveContainer`),
and the container may exit (`Exit`) or vanish (`Vanish`) between any two calls.
`exists`, `task`, `gen`, `got` and `ran` are the runtime's containers, their
processes, how often they were started, the signals they got and the exec'd
command. A command string is the sequence of its words, because the two clients
split it differently (`Argv`). The signal tables of `kill.go` and `task.go` are
reduced to one signal each kind: known to both, only to one, only to the other.

### StressResult

`stressContainer` and the goroutine of the client (docker, podman, containerd
with a sidecar, containerd exec in the target). The channels are Go's: one
slot, a parked `select` is woken by the first event, a late one picks any ready
case, a closed channel is always ready. `parked` remembers which happened.

### StressPlacement and StressTest

`StressPlacement` is what comes before: the look-ups of the target's cgroup,
each a call of its own (`look`), with the target exiting, its pid changing hands
or libpod's sub-cgroup going away in between. A cgroup path is the sequence of
its segments; `/proc/<pid>/cgroup` has the shapes of a v2, v1, hybrid, private
and unreadable host. docker's client asks for the driver and the CgroupParent
and computes the rest; podman's and containerd's read `/proc`. With systemd a
CgroupParent is the bare name of a slice, whose own place (`SlicePath`) may be
inside another slice. `place` is where
the runtime and `cg-inject` (external) then put stress-ng. `StressTest` composes
it with `StressResult`: the look-ups happen at its creation of the sidecar, the
two share the context and the faults, and a failed injection cannot succeed.

### Parameters, PodmanClient and Startup

`Parameters` are pure operators, one per function: names, patterns, labels (a
set, since the runtime is asked for all of them) and ports; the checks of
`parse.go` and of each constructor; and the numbers that `buildNetemCmd` and the
iptables builder put into the command, in order. A float is an integer number of
thousandths or NaN, `FormatFloat` rounds it to hundredths. `Asked` and `Reads`
say, from tc's grammar, what each place means.

`PodmanClient` is `NewClient`: `resolveSocket` with one step per candidate, then
the api client, the docker delegate and `/info`. `files` are the sockets that
exist, `serving` the endpoints where podman answers; they differ because the
probe of a unix socket only looks for the file.

`Startup` is one invocation: Before makes the client of the runtime, the action
parses, builds and runs, After closes. The loop of `ChaosRunner` is reduced to
the containers the listing returns (`Targets`: filtered by label, except by
containerd, which refuses `--label`, then by names or pattern) and the number of
runs that reached the engine. A container is what can be asked of it: the texts
that name it, the expressions that match it, the labels it meets. urfave/cli runs After in a defer,
so a panic passes through it as well.

### Proof modules and MC modules

`ChaosRunnerProofs`, `NetChaosProofs`, `NetChaosLeaseProofs`,
`LifecycleRevertProofs`, `LifecycleOpsProofs`, `StressTestProofs`,
`StressPlacementProofs` and `StartupProofs` are described below. Each `MC`
module only defines constants.

Operators named `X_Defect...` are copies of an action with one plausible bug
(a dropped guard, a shared context, a lost error). No specification uses them;
substituting one for `X` must break the property it stands for, which shows
that the property can fail.

## Runs

| Run | Shows |
|---|---|
| `runner` | 3 containers, one labelled; all switches, limit, random, names, labels, both runtimes. Whom the loop touches (`BlastRadius`, `NoNewTargetsAfterCancel`: after a signal no container joins the targets, and a listing that begins then leads to no closure), what it reports (`HonestOutcome`, `RunErrorIsReal`), joining (`RunIsJoined`), and liveness (`CancelEndsLoop`, `SkipErrorKeepsRunning`). |
| `net` | One target, 2 filters and one the kernel refuses, 2 faults, 2 rounds, 36 requests, a restart of the target. `SidecarLedger`, `NoSilentLeak`, `RevertSurvivesCancel`, `AppliedInFull`, and the refinement `KeepsLease`. |
| `lifecycle` | 2 containers, 1 fault, 2 rounds, pause and stop on both runtimes. `NoSilentFreeze`, `RecordedIsDone`, `AbortReverts`, and the refinement `KeepsLease`. |
| `ops` | 2 containers, 2 faults, 2 rounds, every command on both runtimes. `NilMeansDone`, `TouchedIsAccountedFor`, `RunEnds`, `CancelEndsRun`. |
| `stress` | Every client in every layout of cgroups it distinguishes, 2 faults. Where stress-ng runs (`StressHitsTarget`, `InjectionFailsForAReason`), the verdict (`ParkedVerdict`, `SuccessMeansOver`), the sidecar (`NeverStartedIsRemoved`, `SidecarReaped`), and liveness (`GoroutineEnds`, `StressReturns`). |
| `startup` | Some 900 command lines at the edges of every check and almost 200 situations of podman's sockets, 5 containers, 1 fault, 1 socket that comes or goes. Which podman (`SocketAsPromised`, that is `FirstReachable` and `ShadowedOnlyByStaleFile`; `RootlessNeverInjects`), `ConnectionsClosed`, whom and with what (`ScopeNeverWidens`; `CommandAsAsked`, that is `ReadInPlace` and `WordsAreLegal`), and `StartupEnds`. |

Six runs refute a statement of the repository about itself; `PROJECT.json`
quotes it.

| Run | Counterexample |
|---|---|
| `net_cancel_leak` | SIGTERM between two tc commands: `NetemContainer` fails, `runNetem` returns without a revert, the qdiscs stay although the sidecar is removed. |
| `pause_timer_cancel` | The duration timer ends the wait, then SIGTERM: the unpause uses the cancelled context and the containers stay paused. `stop --restart` has the same branch. |
| `stop_kill_race` | The container exits just as the grace period ends: SIGKILL is refused, the stop counts as failed, the container is never restarted. |
| `stress_verdict` | stress-ng succeeds, AutoRemove wins against `ContainerInspect`: the test is reported as failed. |
| `stress_target` | containerd exec mode: the identifier to stop is the target's, so the timer or a signal stops the target. |
| `netem_args` | `netem delay --time 100 --jitter 0`: the jitter is left out, the correlation (20 by default) is not, and tc reads it as the jitter. `rate` without packet overhead shifts the cell size likewise. |

Some passing properties carry a condition because the code does not keep the
stronger form, which TLC refutes:

* `AbortReverts` leaves out `stop` on containerd: `stopTask` may return nil
  with the task still there when its context is cancelled, and `startTask`
  then fails on the old task.
* `ParkedVerdict` is about a `select` that had to wait. One that begins after
  the goroutine has finished finds both channels ready and may take the close
  of the wrong one.
* `SidecarReaped` is about a goroutine that ends without a signal. After one,
  the wait channel fires before the task is gone, and pumba may exit before the
  goroutine does.
* `StressHitsTarget` leaves out a pid that changed hands, docker's
  `inspectCgroupParent`, which answers "default" when it fails, a podman
  container that lies directly in a slice, which `truncateToContainerScope`
  takes for the slice, and a misread view (`Misread`): seen from a private
  namespace `/proc` shows only the sub-cgroup, and podman's client knows the
  root and `/container` for what they are, but not `/init.scope`; containerd's
  knows only the root.
* `InjectionFailsForAReason` leaves out the misread view as well, and a podman
  container whose sub-cgroup is removed while its path has no scope to fall back
  to (`NoWayBack`), as with the cgroupfs manager: the path that was read is gone
  and the truncated one is the same. The proof of the two properties found these
  two exceptions; TLC then confirmed that each is needed.
* Docker's client meets a target in a nested slice (`NestedSlice`), as a pod of
  Kubernetes is: dockerd reports the slice's bare name, and
  `docker/cgroup.go:72,83` joins it with `docker-<id>.scope` as if the slice
  were at the root. `cg-inject` is sent to a cgroup that does not exist, and the
  injection fails with nothing wrong. `docs/stress-testing.md:172-192` promises
  that it works, and `docker/stress_test.go:175,395` tests such a parent. So
  `InjectionFailsForAReason` names it as a reason. Without `--inject-cgroup` the
  bare name is what dockerd wants, and the sidecar lands next to the target.
* `StressHitsTarget` is therefore no protection against the failed inspection
  and the reused pid, which are two of its exceptions: it guards the guess from
  the shape of the path. The model shows where the sidecar lands in those cases.
* `SocketAsPromised` (`FirstReachable`, `ShadowedOnlyByStaleFile`) speaks of
  sockets that stay as they are while they are searched: a socket that goes away
  after its probe makes `NewClient` or a later call fail. `ShadowedOnlyByStaleFile`
  names the one way a working podman is missed: the file of a socket nobody
  serves comes before it.
* `ScopeNeverWidens` compares the containers a run reaches with those the
  command line asks for (`AskedFor`, read off the arguments and labels as they
  were typed). Blank labels ask for nothing, `re2:` alone asks for every
  container, and no argument does so too, except for kill, stop and rm. Its
  ports are those given, but a list that begins with a blank element is lost.
* `ReadInPlace` and `WordsAreLegal` leave out NaN, which every range check lets
  pass.
* `RunEnds` leaves out a forced removal on containerd whose SIGKILL was
  refused: `forceKillTask` logs the refusal and then waits without a timer.
* `CancelEndsRun` leaves out docker's exec, which reads the command's output
  from a connection that no context closes. It says nothing of that hazard; the
  model shows that the signal does not interrupt it.

Two more disagreements need no run, one step shows them. `pumba exec web` on
docker passes the default `kill 1` as one argument, which names no program
(`docker/exec.go:30`; containerd splits it; `docs/guide.md:256` promises it):
`Argv` and `Runnable` in `LifecycleOps`. And `docs/guide.md:283` says of
`--interval` that "the duration must be shorter than the interval", also for
`pause`; only netem and iptables check it: `durationOK` in `Parameters`.

### Bounds

`MaxRuns`, `MaxRounds`, `MaxFaults`, `MaxFlips`, `MaxCalls` and the sets of
containers, requests, situations and command lines are the only bounds. Two
rounds are enough for the second to meet the leftovers of the first; two faults
for a failing clean-up after a failing apply; two filters for a partial sequence
of filters; three containers for one labelled, one selected and one left out.
The targets of `NetChaos` share nothing but the faults and the signal, so one is
enough for its properties of a target; the proofs are for any number. One socket
that comes or goes falls between any two steps of `NewClient`. The command lines
of `startup` vary one group of options at a time, as the checks do: no check of
the code relates options of two groups but duration and interval, whose product
is there. Values lie on both sides of each comparison.
`runs` saturates instead of stopping the loop, so liveness is not cut off by a
bound. In `net`, `lifecycle` and `ops` the rounds do stop; their liveness
properties speak of what was begun. In `startup` a loop that made `MaxCalls`
calls only waits for its signal. Runs end in states
without a step (the command is over), so deadlock is not checked.

### Fairness

Goroutines run and calls return: weak fairness of each one's steps that use up
no fault, so that a fault is never what ends a wait. The timer
fires: weak fairness. Go's `select` picks at random among ready cases, so
`Done` is not passed over for ever although a tick can be ready each time:
strong fairness of `SelectDone`, and only there. Nothing is assumed of faults,
signals, containers that exit, podman's services, stress-ng or AutoRemove, but that a process
obeys SIGKILL (`LifecycleOps`). That every closure
returns rests on its own deadlines, which the other modules show
(`KeepsLease`, `RunEnds`, `StressReturns`); a call to the runtime
that never returns is outside the models.

## Proofs

`ChaosRunnerProofs` proves, for any finite set of containers, any command lines
and any `MaxRuns`, every safety property of the `runner` run, `TypeOK`,
`BlastRadius`, `RunIsJoined`, `HonestOutcome`, `RunErrorIsReal` and
`NoNewTargetsAfterCancel`, and two more: `OneShot` (without an interval there is
one run) and `FirstErrorWins`. It assumes `RunnerAssumption`.
The properties are not inductive as they stand; `IInv` adds

* `InvTargets`: what is listed passed the filter and carries the labels, and
  once narrowed, what is selected *or* started is within limit and random.
  Starting a closure moves a container from one set to the other, so only the
  union is preserved. `SelectionsNarrow` is the lemma about limit and random;
* `InvJoin`: the elements of `busy` and of `failed` are equal in a serial run,
  which `AtMostOne` turns into cardinalities;
* `InvError`: the error is one of this run's failures at every stage;
* `InvOutcome`: without `--skip-error` a failed run is the last one.

`NetChaosProofs` proves, for any targets, any lists of filters and any number
of faults and rounds, `TypeOK`, `SidecarLedger` and `DryRunIsDry`, from
`NetAssumption`. Type correctness and the ledger need each other: a count of
sidecars stays natural only because a closure that removes one holds one. The
third part, `InvPlace`, ties a closure's place to the request. `CommandsType`
and `EffectType` are the lemmas about the command sequences and the kernel.

`NetChaosLeaseProofs` goes on to the rules in the namespaces, for sequences of
commands of any length, filters named more than once included: `NoSilentLeak`,
`RevertSurvivesCancel`, `AppliedInFull`, and `ImplementsLease`, which is
`Spec => Lease!Safe`: every step of network chaos is a step of `ReversibleChaos`
or a stutter. The strengthening `InvTracked` follows the sequence command by
command. It has, per target,

* `InvNext`: how far the loop over the commands is, and the trace a failure or a
  restart of the target leaves;
* `InvUpper`: if nothing was reported, a namespace has no more of an object than
  was applied so far, or than the revert has still to delete;
* `InvLower`: if the target was not restarted, it has no less. The upper bound
  gives the absence of leaks; the lower one that the kernel accepts each command
  of the revert, without which the upper one would not come down to nothing.

Because iptables takes the same rule twice, the bounds are cardinalities of sets
of positions in the sequence; the lemmas about `Applied` and `Left` say what one
command does to them.

`LifecycleRevertProofs` proves, for any containers, command lines, faults and
rounds, `TypeOK`, `NoSilentFreeze`, `RecordedIsDone`, `AbortReverts`, the same
refinement `Lease!Safe`, and from it `NoSilentChaos`, the abstract
specification's own promise. `IInv` adds `InvCovered`: a container that is
frozen, *or has a signal that may still kill it*, is the one in hand, recorded,
awaiting its revert, or reported. `InvKind` (what each command can do at all),
`InvRecorded` and `InvAborted` (the two properties as the revert goes along)
complete it.

`LifecycleOpsProofs` proves `TypeOK`, `NilMeansDone` and
`TouchedIsAccountedFor`, again for any instance. `InvTouched` is the heart: at
any moment only the container in hand may be touched and not yet accounted for.

`StressTestProofs` proves `ParkedVerdict`, `NeverStartedIsRemoved`,
`SuccessMeansOver` and `SidecarReaped` for `StressResult` alone and for
`StressTest`, whose steps are steps of `StressResult` or look-ups. `IInv` ties
the place of the caller to that of the goroutine (`InvPlace`), and the content
of the channels to the goroutine's report (`InvChannels`); `InvOver` says what a
goroutine past its wait knows.

`StressPlacementProofs` proves `TestTypeOK`, `StressHitsTarget` and
`InjectionFailsForAReason` of `StressTest` for every cgroup path, sub-cgroup and
shape of `/proc`, from `SetupAssumption`: a container has a cgroup of its own,
docker's has the name its driver gives it and lies in the default parent unless
another was asked for, and a parent tells the same driver as the whole path
(systemd's parents are slices, at their place in the tree). `DockerAims` says
where docker's client aims, and `AstrayShut` that nothing is where it looks for a
nested slice. `Truncated` is the
lemma on `truncateToContainerScope`: whatever lies below the container's scope,
the cut is at the scope or below, and its parent is the scope's slice or is
inside the target. `Shapes`, `PodmanReads` and `ContainerdReads` say what can be
read from each shape of `/proc`. The invariant `PInv` carries the two properties
from the look-ups to the placement: `InvStat` (what was read was the target's
path then), `InvAim` (what was found leads to the target), `InvReach` (and can be
injected into as long as nothing happens).

`StartupProofs` proves, for any command lines, any configuration of podman and
any number of faults, flips and calls, every safety property of the `startup`
run, `TypeOK`, `ConnectionsClosed`, `RootlessNeverInjects`, `SocketAsPromised`,
`ScopeNeverWidens`, `CommandAsAsked`, and `PanicTouchesNothing`. `IInv` has

* `Owned`: an open connection has an owner at every step, `NewClient` while it
  runs and the runtime client afterwards, which is the one After closes. The
  property itself speaks only of the end;
* `Recorded`: once `NewClient` is ready, what it recorded about rootless is true
  of the socket it chose, because neither changes any more;
* `Quiescent`: no call and no result before the loop.

`PodInv` follows `resolveSocket` through its candidates: none before the current
one is there. `InvParsed` says that whatever reached the engine was parsed from
this command line and passed every check. From it `CommandAsAsked` follows for
every value of every option and not only for those at the edges, through lemmas
on the rounding to hundredths (`Rounding`, `RoundedZero`) and one per command
(`PercentAsAsked`, `ModelAsAsked`, `DelayAsAsked`, `RateAsAsked`,
`IPTablesAsAsked`). `ScopeHolds` rests on it and on `InvListed`: what calls is a
client that was able to list what was asked for, so on containerd no label was
given. `NamedIsAsked` takes names and pattern back to the arguments.
`StartupAssumption` says that numeric flags hold numbers, that an argument is a
name or an expression and the empty expression matches every container,
that podman serves only where a socket can be found, and that no endpoint has an
empty name. One integer (999999) stands for the float NaN, so the theorem says
nothing about an option with exactly that value.

All inductive invariants were checked by TLC on the instances of the runs before
they were proved.

Only model-checked, because liveness under fairness is out of the prover's
reach: `CancelEndsLoop`, `SkipErrorKeepsRunning`, `RunEnds`, `CancelEndsRun`,
`GoroutineEnds`, `StressReturns`, `StartupEnds`, and of `KeepsLease` the part
`LetsGo` (its safety part is proved twice, see above). Every other property of a
passing run has a theorem.

## Not modelled

* Flag declarations, usage texts, log formatters, the HTTP transport: no state
  that changes. Of the TLS options only whether they load.
* The non-numeric words of tc, iptables and stress-ng commands, image pulls
  beyond success or failure, the character-level parsing of addresses, regular
  expressions, interface names and rates.
* Durations as numbers: a deadline may pass at any moment at which it is armed.
  Only where two are compared (`Parameters`) they are integers.
* Several pumba processes, the identifiers containerd sidecars get from a
  per-process counter, and containerd's network sidecar, which has no skip
  label, as a target of another run.
* A crash of pumba itself (SIGKILL): it has no persistent state and no recovery.
* Generated mocks and test helpers.

## Plan

1. The composition of `ChaosRunner` with sidecars as containers of the listing,
   two processes and their identifiers.
2. Proofs: the state predicates on which the liveness properties rest, such as
   that a closure not idle has a step that uses up no fault, stated without
   `ENABLED`; action properties of `NetChaos` (a revert never adds a rule) and of
   `StressTest` (a sidecar is placed once, and only after its look-ups).
