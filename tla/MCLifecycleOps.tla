--------------------------- MODULE MCLifecycleOps ---------------------------
(* Small instances of LifecycleOps for TLC. *)
EXTENDS LifecycleOps

CONSTANTS c1, c2

Line(kind, runtime, dry, force, signal, command, args) ==
  [kind |-> kind, runtime |-> runtime, dryRun |-> dry, force |-> force,
   signal |-> signal, command |-> command, args |-> args]

\* Every command on both runtimes; kill with a signal both tables have, one
\* only kill.go and one only task.go has; rm with and without --force; exec
\* with arguments and with its default.
MCCommands ==
  UNION {
    {Line("kill", r, FALSE, FALSE, s, <<>>, <<>>) : s \in {"SIGKILL", "SIGCHLD", "SIGABRT"}}
    \cup {Line("restart", r, FALSE, FALSE, "SIGTERM", <<>>, <<>>)}
    \cup {Line("rm", r, FALSE, f, "SIGTERM", <<>>, <<>>) : f \in BOOLEAN}
    \cup {Line("exec", r, FALSE, FALSE, "SIGTERM", <<"touch">>, <<"file">>),
          Line("exec", r, FALSE, FALSE, "SIGTERM", <<>>, <<>>)}
    \cup {Line("rm", r, TRUE, TRUE, "SIGTERM", <<>>, <<>>)}
    : r \in {"docker", "containerd"}}
=============================================================================
