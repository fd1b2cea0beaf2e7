----------------------------- MODULE MCNetChaos -----------------------------
(* Small instances of NetChaos for TLC. *)
EXTENDS NetChaos

CONSTANTS c1, f1, f2, noPort

MCFilters == {f1, f2, noPort}

Base == [tool |-> "tc", filters |-> <<>>, image |-> TRUE, pull |-> TRUE,
         deadline |-> TRUE, dryRun |-> FALSE, runtime |-> "docker"]

\* Both tools on both runtimes, with and without filters, sidecar and dry run,
\* and a port list with an empty element after a good one.
MCRequests ==
  {[Base EXCEPT !.tool = t, !.filters = f, !.image = i, !.runtime = r, !.deadline = d] :
     t \in {"tc", "iptables"}, f \in {<<>>, <<f1, f2>>}, i, d \in BOOLEAN,
     r \in {"docker", "containerd"}}
  \cup {[Base EXCEPT !.tool = t, !.filters = <<f1, noPort>>, !.image = FALSE] :
          t \in {"tc", "iptables"}}
  \cup {[Base EXCEPT !.pull = FALSE], [Base EXCEPT !.dryRun = TRUE]}

\* The docker sidecar path with filters, the one the release notes speak of.
MCDockerSidecar == {[Base EXCEPT !.filters = <<f1, f2>>, !.deadline = FALSE]}
=============================================================================
