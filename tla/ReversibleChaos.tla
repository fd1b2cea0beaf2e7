--------------------------- MODULE ReversibleChaos ---------------------------
(***************************************************************************)
(* What every chaos that undoes itself promises to each of its targets,    *)
(* whatever the command and the runtime: chaos is put in force, held, and  *)
(* lifted again, and a target that is left in chaos is one an error was    *)
(* reported for.  netem, iptables, pause and stop --restart are shown to   *)
(* implement it (NetChaos, LifecycleRevert).                               *)
(***************************************************************************)
CONSTANT Targets

VARIABLES
  phase,     \* "idle", "acting", "held" or "undoing"
  dirty,     \* chaos is in force on the target
  told,      \* an error was reported for the target, in any run
  replaced   \* the target was restarted under the chaos since the run began

lease == <<phase, dirty, told, replaced>>

Phases == {"idle", "acting", "held", "undoing"}

Init ==
  /\ phase = [c \in Targets |-> "idle"]
  /\ dirty = [c \in Targets |-> FALSE]
  /\ told = [c \in Targets |-> FALSE]
  /\ replaced = [c \in Targets |-> FALSE]

\* A run begins with the target, ends acting on it, begins and ends undoing.
Moves(c) ==
  \/ phase[c] = "idle" /\ phase'[c] = "acting"
  \/ phase[c] = "acting" /\ phase'[c] \in {"held", "idle"}
  \/ phase[c] = "held" /\ phase'[c] = "undoing"
  \/ phase[c] = "undoing" /\ phase'[c] = "idle"
  \/ phase'[c] = phase[c]

\* Chaos that is held stays in force, unless the target itself was replaced.
Holds(c) ==
  (phase[c] = "held" /\ phase'[c] = "held" /\ dirty[c]) => (dirty'[c] \/ replaced'[c])

\* Whoever is let go is clean or has been reported, and a report is final.
Honest(c) ==
  /\ (phase'[c] = "idle" /\ dirty'[c]) => told'[c]
  /\ told[c] => told'[c]

\* A step may concern several targets: one signal ends the wait of them all.
Next ==
  /\ phase' \in [Targets -> Phases]
  /\ dirty' \in [Targets -> BOOLEAN]
  /\ told' \in [Targets -> BOOLEAN]
  /\ replaced' \in [Targets -> BOOLEAN]
  /\ \A c \in Targets : Moves(c) /\ Holds(c) /\ Honest(c)

\* Nobody is kept in chaos for ever.
LetsGo == \A c \in Targets : phase[c] # "idle" ~> phase[c] = "idle"

Safe == Init /\ [][Next]_lease

Spec == Safe /\ LetsGo

-----------------------------------------------------------------------------
(* What follows for the user *)

(***************************************************************************)
(* A target no run is busy with, and for which nothing was reported, is    *)
(* free of chaos.                                                          *)
(***************************************************************************)
NoSilentChaos == \A c \in Targets : phase[c] = "idle" /\ ~told[c] => ~dirty[c]
=============================================================================
