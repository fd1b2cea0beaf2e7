--------------------------- MODULE StressPlacement ---------------------------
(***************************************************************************)
(* Where stress-ng runs: the look-ups with which the docker, podman and    *)
(* containerd clients find the cgroup of the target before they create the *)
(* stress sidecar, and where the sidecar ends up.                          *)
(*                                                                         *)
(* The look-ups are separate calls.  Between any two of them the target    *)
(* may exit and restart, its pid may be given to another process, and      *)
(* podman's init may leave its sub-cgroup.  StressTest composes this       *)
(* module with StressResult, which owns cancelled and faults.              *)
(*                                                                         *)
(* A cgroup path is the sequence of its segments, the root the empty one.  *)
(* An operator X_Defect... is X with one plausible bug.                    *)
(***************************************************************************)
EXTENDS Naturals, SequencesExt

CONSTANTS
  Setups,      \* the situations considered, a set of Setup records
  MaxFaults    \* how many calls the runtime may fail

\* Segments of cgroup paths: "T" and "T.scope" are the target's own, "S" and
\* "S.scope" the sidecar's, "X.scope" a stranger's.
Slices == {"system.slice", "machine.slice", "custom.slice", "kube.slice", "kube-pod.slice"}

\* systemd puts a slice into the slices that the parts of its name stand for.
SlicePath ==
  [s \in Slices |-> IF s = "kube-pod.slice" THEN <<"kube.slice", s>> ELSE <<s>>]

Scopes == {"T.scope", "X.scope", "S.scope", "init.scope"}

Segments == Slices \cup Scopes \cup {"T", "S", "docker", "libpod", "custom", "container"}

\* Not a path: a look-up that found nothing, an injection that failed.
NoPath == <<"none">>

(***************************************************************************)
(* A situation: the client, --inject-cgroup and --pull-image, the target's *)
(* cgroup, the sub-cgroup its first process is in, whether that process    *)
(* leaves it soon (libpod init), whether docker was given a CgroupParent,  *)
(* and the shape of /proc/<pid>/cgroup on this host.                       *)
(***************************************************************************)
Setup ==
  [mode : {"docker", "podman", "sidecar", "direct", "dry"}, inject : BOOLEAN,
   pull : BOOLEAN, own : Seq(Segments), sub : Seq(Segments), settles : BOOLEAN,
   custom : BOOLEAN, view : {"v2", "v1", "hybrid", "private", "junk"}]

VARIABLES
  cancelled,  \* the context of the stress test is done
  faults,     \* calls the runtime failed so far
  setup,      \* the situation, never changed
  look,       \* the look-up to come, "ready", "failed" or "placed"
  driver,     \* what docker info said: a driver or "unknown"
  lines,      \* what was read from /proc/<pid>/cgroup
  path,       \* the target's cgroup as the client sees it, or NoPath
  parent,     \* the cgroup parent the client will ask for, or NoPath
  alive,      \* the process whose pid is used is the target's first
  sub,        \* the sub-cgroup of the target that process is in
  excuse,     \* what went wrong behind the client's back
  place       \* the cgroup stress-ng runs in, or NoPath

found == <<driver, lines, path, parent>>

target == <<alive, sub>>

CallFails ==
  \/ cancelled /\ UNCHANGED faults
  \/ faults < MaxFaults /\ faults' = faults + 1

CallSucceeds == ~cancelled /\ UNCHANGED faults

-----------------------------------------------------------------------------
(* docker: pkg/runtime/docker/cgroup.go *)

Systemd(p) == \E i \in DOMAIN p : p[i] \in Slices \cup Scopes

containerLeafCgroup(d) == IF d = "systemd" THEN "T.scope" ELSE "T"

defaultCgroupParent(d) ==
  IF d = "systemd" THEN <<"system.slice">> ELSE <<"docker", "T">>

\* HostConfig.CgroupParent as docker was given it: with systemd the bare name of a slice,
\* wherever that slice is, otherwise a path.
CgroupParent(own) ==
  IF Systemd(own) THEN <<Last(Front(own))>> ELSE Front(own)

\* The path the client makes of the CgroupParent p of the target.
resolvePath(d, p) == Append(p, containerLeafCgroup(d))

(***************************************************************************)
(* The CgroupParent of the sidecar.  systemd takes only a slice, so the    *)
(* sidecar becomes a sibling of the target; otherwise it is its child.     *)
(***************************************************************************)
sidecarParent(d, p) ==
  IF p = NoPath THEN defaultCgroupParent(d)
  ELSE IF d = "systemd" THEN Front(p) ELSE p

-----------------------------------------------------------------------------
(* podman and containerd: /proc/<pid>/cgroup *)

Line(k, p) == [kind |-> k, path |-> p]

\* The file for a process in cgroup p, in the order the kernel lists it; seen
\* from the target's own cgroup namespace it shows only the sub-cgroup.
ProcCgroup(p) ==
  CASE setup.view = "v2"      -> <<Line("v2", p)>>
    [] setup.view = "v1"      -> <<Line("memory", p), Line("systemd", p)>>
    [] setup.view = "hybrid"  -> <<Line("memory", p), Line("systemd", p), Line("v2", <<>>)>>
    [] setup.view = "private" -> <<Line("v2", sub)>>
    [] setup.view = "junk"    -> <<Line("junk", <<>>)>>

\* The path of the first line of kind k that is not passed over.
FirstOf(ls, k, over) ==
  LET i == SelectInSeq(ls, LAMBDA l : l.kind = k /\ l.path \notin over)
  IN  IF i = 0 THEN NoPath ELSE ls[i].path

(***************************************************************************)
(* podman's selectCgroupPath with the checks of RawCgroupPath: the unified *)
(* line, else the systemd hierarchy; the views of a private namespace are  *)
(* rejected.                                                               *)
(***************************************************************************)
RawCgroupPath(ls) ==
  LET v2  == FirstOf(ls, "v2", {})
      raw == IF v2 # NoPath THEN v2 ELSE FirstOf(ls, "systemd", {})
  IN  IF raw \in {<<>>, <<"container">>} THEN NoPath ELSE raw

lastIndexIn(p, S) == SelectLastInSeq(p, LAMBDA seg : seg \in S)

\* Slices are looked for first.
truncateToContainerScope_DefectSliceFirst(p) ==
  LET slice == lastIndexIn(p, Slices)
  IN  IF slice > 0 THEN SubSeq(p, 1, slice) ELSE p

(***************************************************************************)
(* Up to the rightmost scope that is not the init.scope of a systemd in    *)
(* the container, else up to the rightmost slice, else all of the path.    *)
(***************************************************************************)
truncateToContainerScope(p) ==
  LET scope == lastIndexIn(p, Scopes \ {"init.scope"})
      slice == lastIndexIn(p, Slices)
  IN  IF scope > 0 THEN SubSeq(p, 1, scope)
      ELSE IF slice > 0 THEN SubSeq(p, 1, slice)
      ELSE p

driverForPath(p) == IF Systemd(p) THEN "systemd" ELSE "cgroupfs"

\* buildStressConfig: the CgroupParent for the truncated path p.
podmanParent(p) == IF driverForPath(p) = "cgroupfs" THEN p ELSE Front(p)

(***************************************************************************)
(* containerd's resolveCgroupPath: the unified line, else the memory       *)
(* controller; lines that show the root are passed over.                   *)
(***************************************************************************)
resolveCgroupPath(ls) ==
  LET v2 == FirstOf(ls, "v2", {<<>>})
  IN  IF v2 # NoPath THEN v2 ELSE FirstOf(ls, "memory", {<<>>})

\* cgroupChildPath: a scope in a slice, or a directory below any other parent.
cgroupChildPath(p) ==
  Append(p, IF p # <<>> /\ Last(p) \in Slices THEN "S.scope" ELSE "S")

(***************************************************************************)
(* The cgroup of a sidecar that is created with parent q.  dockerd leaves  *)
(* it to systemd to find the slice that q names.                           *)
(***************************************************************************)
sidecarCgroup(mode, d, q) ==
  IF mode = "sidecar" THEN cgroupChildPath(q)
  ELSE Append(IF mode = "docker" /\ d = "systemd" THEN SlicePath[Last(q)] ELSE q, "S")

(***************************************************************************)
(* The situations a runtime brings about: a container has a cgroup of its  *)
(* own.  Docker's is the scope or directory its driver makes of the        *)
(* identifier, in the default parent unless one was asked for; systemd's   *)
(* parents are slices.                                                     *)
(***************************************************************************)
WellFormed(s) ==
  /\ s \in Setup
  /\ s.own # <<>> /\ Last(s.own) \in {"T", "T.scope"}
  /\ s.mode = "docker" =>
       /\ Last(s.own) = containerLeafCgroup(driverForPath(s.own))
       /\ driverForPath(Front(s.own)) = driverForPath(s.own)
       /\ Systemd(s.own) => \E x \in Slices : Front(s.own) = SlicePath[x]
       /\ ~s.custom =>
            Front(s.own) = IF Systemd(s.own) THEN <<"system.slice">> ELSE <<"docker">>

-----------------------------------------------------------------------------
Init ==
  /\ setup \in Setups
  /\ look = CASE setup.mode = "docker" -> "driver"
              [] setup.mode \in {"podman", "sidecar"} -> "pid"
              [] OTHER -> "ready"
  /\ driver = "unknown" /\ lines = <<>> /\ path = NoPath /\ parent = NoPath
  /\ alive = TRUE /\ sub = setup.sub
  /\ excuse = {} /\ place = NoPath

\* The client gives up.
Abandon == look' = "failed" /\ UNCHANGED found

Resolved(p, q) ==
  /\ path' = p /\ parent' = q
  /\ look' = IF setup.pull THEN "pull" ELSE "ready"

\* cgroupDriver: GET /info.  A failure is kept until the inspection.
CgroupDriver ==
  /\ look = "driver"
  /\ look' = "inspect"
  /\ \/ CallSucceeds /\ driver' = driverForPath(setup.own)
     \/ CallFails /\ driver' = "unknown"
  /\ UNCHANGED <<lines, path, parent, excuse>>

(***************************************************************************)
(* inspectCgroupParent and the rest of stressResolveDriver.  A failed      *)
(* inspection reads like a target without CgroupParent, unless the driver  *)
(* is unknown as well.                                                     *)
(***************************************************************************)
InspectCgroupParent ==
  /\ look = "inspect"
  /\ \E ok \in BOOLEAN :
       /\ IF ok THEN CallSucceeds ELSE CallFails
       /\ LET p    == IF ok /\ setup.custom THEN CgroupParent(setup.own) ELSE NoPath
              d    == IF driver = "unknown" THEN driverForPath(p) ELSE driver
              full == IF p = NoPath THEN NoPath ELSE resolvePath(d, p)
          IN  IF driver = "unknown" /\ p = NoPath
                THEN Abandon
                ELSE /\ driver' = d
                     /\ Resolved(full, sidecarParent(d, full))
                     /\ UNCHANGED lines
       /\ excuse' = IF ~ok /\ setup.custom THEN excuse \cup {"inspect"} ELSE excuse

\* ContainerInspect or getTask for the pid of a running target.
TargetPid ==
  /\ look = "pid"
  /\ \/ CallSucceeds /\ alive /\ look' = "proc" /\ UNCHANGED found
     \/ (CallFails \/ (~alive /\ UNCHANGED faults)) /\ Abandon
  /\ UNCHANGED excuse

(***************************************************************************)
(* The file of the pid is read and parsed.  If the target's process is     *)
(* gone it is missing, or that of the process which has the pid now.       *)
(***************************************************************************)
ReadCgroup ==
  /\ look = "proc"
  /\ \E p \in IF alive THEN {setup.own \o sub} ELSE {NoPath, <<"system.slice", "X.scope">>} :
       LET read == IF p = NoPath THEN <<>> ELSE ProcCgroup(p)
           raw  == IF setup.mode = "podman" THEN RawCgroupPath(read)
                                            ELSE resolveCgroupPath(read)
       IN  /\ excuse' = IF alive THEN excuse ELSE excuse \cup {"pid"}
           /\ IF raw = NoPath
                THEN Abandon
                ELSE /\ lines' = read
                     /\ IF setup.mode = "podman"
                          THEN look' = "stat" /\ UNCHANGED <<path, parent>>
                          ELSE Resolved(raw, Front(raw))
                     /\ UNCHANGED driver
  /\ UNCHANGED faults

\* The cgroup p is there: its processes are the target's, or it is a stranger's.
Exists(p) ==
  IF "X.scope" \in ToSet(p) THEN TRUE ELSE alive /\ IsPrefix(p, setup.own \o sub)

\* The path that was read is used without another look.
StatCgroup_DefectNoStat ==
  /\ look = "stat"
  /\ LET raw == RawCgroupPath(lines)
     IN  Resolved(raw, podmanParent(truncateToContainerScope(raw)))
  /\ UNCHANGED <<faults, driver, lines, excuse>>

(***************************************************************************)
(* The end of podman's resolveCgroup: the path that accepts processes is   *)
(* the one that was read, or the container's scope if that one is gone.    *)
(***************************************************************************)
StatCgroup ==
  /\ look = "stat"
  /\ LET raw  == RawCgroupPath(lines)
         full == truncateToContainerScope(raw)
     IN  Resolved(IF Exists(raw) THEN raw ELSE full, podmanParent(full))
  /\ UNCHANGED <<faults, driver, lines, excuse>>

\* pullImage and pullStressImage.
PullImage ==
  /\ look = "pull"
  /\ \/ CallSucceeds /\ look' = "ready" /\ UNCHANGED found
     \/ CallFails /\ Abandon
  /\ UNCHANGED excuse

LookUp ==
  /\ \/ CgroupDriver \/ InspectCgroupParent \/ TargetPid \/ ReadCgroup
     \/ StatCgroup \/ PullImage
  /\ UNCHANGED <<cancelled, setup, target, place>>

-----------------------------------------------------------------------------
(***************************************************************************)
(* stressContainerConfig, buildStressConfig and buildStressSpecOpts, and   *)
(* what the runtime and /cg-inject make of them.  cg-inject writes its pid *)
(* to the given path, or to the one it derives from driver and identifier, *)
(* and is refused if there is no such cgroup or processes live below it.   *)
(***************************************************************************)
InjectPath ==
  IF path # NoPath THEN path
  ELSE IF driver = "systemd" THEN <<"system.slice", "T.scope">> ELSE <<"docker", "T">>

Landing ==
  IF setup.inject
    THEN LET busy == alive /\ sub # <<>> /\ InjectPath = setup.own
         IN  IF Exists(InjectPath) /\ ~busy THEN InjectPath ELSE NoPath
    ELSE sidecarCgroup(setup.mode, driver, parent)

\* The sidecar is started.
PlaceSidecar ==
  /\ look = "ready"
  /\ look' = "placed"
  /\ place' = Landing
  /\ UNCHANGED <<setup, found, target, excuse>>

-----------------------------------------------------------------------------
(* The environment, as long as it can matter *)

\* The target exits, and may come back with another pid.
TargetExits ==
  /\ look \notin {"failed", "placed"} /\ alive
  /\ alive' = FALSE /\ sub' = <<>>
  /\ excuse' = excuse \cup {"exit"}
  /\ UNCHANGED <<cancelled, faults, setup, look, found, place>>

\* podman 4: the target's process moves up and the sub-cgroup is removed.
SubCgroupGoes ==
  /\ setup.settles /\ sub # <<>> /\ look \notin {"failed", "placed"}
  /\ sub' = <<>>
  /\ excuse' = IF look \in {"pull", "ready"} THEN excuse \cup {"settled"} ELSE excuse
  /\ UNCHANGED <<cancelled, faults, setup, look, found, alive, place>>

Environment == TargetExits \/ SubCgroupGoes

-----------------------------------------------------------------------------
(* Properties *)

\* The state of the look-ups.
TypeOK ==
  /\ setup \in Setups
  /\ look \in {"driver", "inspect", "pid", "proc", "stat", "pull", "ready",
               "failed", "placed"}
  /\ driver \in {"systemd", "cgroupfs", "unknown"}
  /\ path \in Seq(Segments) \cup {NoPath}
  /\ parent \in Seq(Segments) \cup {NoPath}
  /\ place \in Seq(Segments) \cup {NoPath}
  /\ alive \in BOOLEAN
  /\ excuse \subseteq {"inspect", "pid", "exit", "settled"}

\* podman takes a container that lies bare in a slice for the slice.
BareInSlice == setup.mode = "podman" /\ Last(setup.own) = "T" /\ Systemd(setup.own)

(***************************************************************************)
(* /proc shows the sub-cgroup of a private namespace as if it were the     *)
(* path.  podman's client knows libpod's own one, containerd's none.       *)
(***************************************************************************)
Misread ==
  /\ setup.mode # "docker" /\ setup.view = "private"
  /\ setup.sub \notin IF setup.mode = "podman" THEN {<<>>, <<"container">>} ELSE {<<>>}

\* Without a scope of the container in the path, podman's client has nothing to fall
\* back to when the sub-cgroup it read is gone.
NoWayBack ==
  /\ setup.mode = "podman" /\ setup.settles
  /\ truncateToContainerScope(setup.own \o setup.sub) # setup.own

\* docker's client takes the name of a nested slice for its path: there is no such cgroup.
NestedSlice ==
  /\ setup.mode = "docker" /\ setup.custom
  /\ Systemd(setup.own) /\ Len(setup.own) > 2

(***************************************************************************)
(* Where stress-ng should run: in the target's cgroup or below it; in the  *)
(* same slice next to it where the driver is systemd, or the client        *)
(* containerd.                                                             *)
(***************************************************************************)
WithTarget(p) ==
  \/ IsPrefix(setup.own, p)
  \/ /\ ~setup.inject /\ Front(p) = Front(setup.own)
     /\ setup.mode = "sidecar" \/ Systemd(setup.own)

(***************************************************************************)
(* Stress hits the target: whatever the driver, the layout of cgroups and  *)
(* the order of events, stress-ng runs in, below or next to the target's   *)
(* cgroup.  The exceptions are a pid that changed hands, an inspection     *)
(* whose failure docker's client takes for an answer, a podman container   *)
(* that lies bare in a slice, and a namespace whose view is misread.       *)
(***************************************************************************)
StressHitsTarget ==
  place # NoPath =>
    \/ WithTarget(place)
    \/ excuse \cap {"pid", "inspect"} # {}
    \/ BareInSlice \/ Misread

(***************************************************************************)
(* An injection fails for a reason: the target or its sub-cgroup went away *)
(* after the last look, its pid or parent was not learned, docker's        *)
(* client, which never looks, meets a target with sub-cgroups of its own   *)
(* or in a nested slice, as a pod of Kubernetes is, a view is misread or   *)
(* there is no way back from a sub-cgroup.                                 *)
(***************************************************************************)
InjectionFailsForAReason ==
  look = "placed" /\ place = NoPath =>
    \/ excuse # {}
    \/ setup.mode = "docker" /\ setup.sub # <<>>
    \/ NestedSlice \/ Misread \/ NoWayBack
=============================================================================
