--------------------------- MODULE MCChaosRunner ---------------------------
(* Small instances of ChaosRunner for TLC. *)
EXTENDS ChaosRunner

CONSTANTS c1, c2, c3

MCContainers == {c1, c2, c3}
MCLabelled == {c3}

Base == [recurrent |-> TRUE, skipErrors |-> TRUE, random |-> FALSE,
         parallel |-> TRUE, all |-> FALSE, limit |-> 0, given |-> FALSE,
         names |-> {}, pattern |-> MCContainers,
         byLabel |-> FALSE, labels |-> {}, runtime |-> "docker"]

\* Every combination of the switches, on all containers of either runtime.
MCParamSpace ==
  {[Base EXCEPT !.recurrent = r, !.skipErrors = s, !.parallel = p, !.limit = l] :
     r, s, p \in BOOLEAN, l \in {0, 1}}
  \cup {[Base EXCEPT !.random = TRUE, !.limit = l, !.runtime = "containerd"] : l \in {0, 1}}
  \cup {[Base EXCEPT !.parallel = FALSE, !.all = TRUE, !.runtime = "containerd",
                     !.given = TRUE, !.names = {c1, c3}]}
  \cup {[Base EXCEPT !.byLabel = TRUE, !.labels = {c2, c3}, !.runtime = r] :
          r \in {"docker", "containerd"}}
=============================================================================
