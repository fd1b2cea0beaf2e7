---------------------------- MODULE MCStressTest ----------------------------
(* Small instances of StressTest for TLC. *)
EXTENDS StressTest

Base == [mode |-> "docker", inject |-> FALSE, pull |-> TRUE, own |-> <<"docker", "T">>,
         sub |-> <<>>, settles |-> FALSE, custom |-> FALSE, view |-> "v2"]

\* docker: both drivers, default and custom parents, a slice in a slice, a systemd in
\* the target.
MCDocker ==
  {[Base EXCEPT !.own = o[1], !.custom = o[2], !.inject = i] :
     o \in {<<<<"docker", "T">>, FALSE>>, <<<<"system.slice", "T.scope">>, FALSE>>,
            <<<<"custom", "T">>, TRUE>>, <<<<"custom.slice", "T.scope">>, TRUE>>,
            <<<<"kube.slice", "kube-pod.slice", "T.scope">>, TRUE>>},
     i \in BOOLEAN}
  \cup {[Base EXCEPT !.inject = TRUE, !.sub = <<"init.scope">>,
                     !.own = <<"system.slice", "T.scope">>]}

\* podman: scopes, plain and bare paths, libpod's sub-cgroup that stays or goes.
MCPodman ==
  {[Base EXCEPT !.mode = "podman", !.own = <<"machine.slice", "T.scope">>, !.inject = i,
                !.sub = s[1], !.settles = s[2], !.pull = ~i] :
     s \in {<<<<>>, FALSE>>, <<<<"container">>, FALSE>>, <<<<"container">>, TRUE>>,
            <<<<"init.scope">>, FALSE>>}, i \in BOOLEAN}
  \cup {[Base EXCEPT !.mode = "podman", !.own = o, !.pull = FALSE] :
          o \in {<<"libpod", "T">>, <<"machine.slice", "T">>,
                 <<"machine.slice", "custom.slice", "T.scope">>}}
  \cup {[Base EXCEPT !.mode = "podman", !.own = <<"machine.slice", "T.scope">>, !.view = v] :
          v \in {"v1", "hybrid", "private", "junk"}}
  \cup {[Base EXCEPT !.mode = "podman", !.own = <<"machine.slice", "T.scope">>,
                     !.view = "private", !.sub = s] : s \in {<<"container">>, <<"init.scope">>}}
  \cup {[Base EXCEPT !.mode = "podman", !.own = <<"libpod", "T">>, !.sub = <<"container">>,
                     !.settles = TRUE, !.inject = i] : i \in BOOLEAN}

\* containerd: the same shapes.
MCContainerd ==
  {[Base EXCEPT !.mode = "sidecar", !.own = o, !.inject = i, !.pull = i, !.view = v] :
     o \in {<<"custom", "T">>, <<"custom.slice", "T.scope">>}, i \in BOOLEAN,
     v \in {"v2", "hybrid"}}
  \cup {[Base EXCEPT !.mode = "sidecar", !.own = <<"custom.slice", "T.scope">>,
                     !.sub = <<"init.scope">>, !.inject = TRUE, !.view = v] :
          v \in {"v2", "private"}}
  \cup {[Base EXCEPT !.mode = "sidecar", !.view = v] : v \in {"v1", "private", "junk"}}

MCSetups ==
  MCDocker \cup MCPodman \cup MCContainerd
  \cup {[Base EXCEPT !.mode = m] : m \in {"direct", "dry"}}
=============================================================================
