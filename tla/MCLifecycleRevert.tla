-------------------------- MODULE MCLifecycleRevert --------------------------
(* Small instances of LifecycleRevert for TLC. *)
EXTENDS LifecycleRevert

CONSTANTS c1, c2

Base == [kind |-> "stop", restart |-> TRUE, dryRun |-> FALSE, runtime |-> "docker"]

\* Pause and stop on both runtimes, stop without --restart, and a dry run.
MCCommands ==
  {[Base EXCEPT !.kind = k, !.runtime = r] :
     k \in {"pause", "stop"}, r \in {"docker", "containerd"}}
  \cup {[Base EXCEPT !.restart = FALSE], [Base EXCEPT !.dryRun = TRUE]}

MCPause == {[Base EXCEPT !.kind = "pause"]}

MCDockerStop == {Base}
=============================================================================
