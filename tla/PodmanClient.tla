---------------------------- MODULE PodmanClient ----------------------------
(***************************************************************************)
(* How pumba finds podman (pkg/runtime/podman: socket.go, client.go,       *)
(* rootless.go): the candidates for its socket in order, the probe of each *)
(* one, and NewClient with the api client it opens and has to close when a *)
(* later step fails.  Sockets come and go while pumba looks at them.       *)
(*                                                                         *)
(* A value of a flag or variable is a record: form says how it is written, *)
(* at which endpoint it names.                                             *)
(***************************************************************************)
EXTENDS Naturals, Sequences, FiniteSets, SequencesExt

CONSTANTS
  MaxFaults,  \* how many calls may fail although their endpoint serves
  MaxFlips    \* how often an endpoint comes or goes

ASSUME BoundsAssumption == MaxFaults \in Nat /\ MaxFlips \in Nat

VARIABLES
  world,    \* what is configured: flag, variables, podman machine, rootless endpoints
  files,    \* the unix sockets that exist, whether or not somebody serves them
  serving,  \* the endpoints where podman answers
  flips, faults,
  step,     \* where NewClient is
  cand,     \* the candidate to probe next
  uri,      \* the socket resolveSocket chose
  api,      \* the api client: none, open, closed
  rootless  \* what podmanClient recorded of the endpoint

podVars == <<world, files, serving, flips, faults, step, cand, uri, api, rootless>>

NoRaw == [form |-> "blank", at |-> ""]

-----------------------------------------------------------------------------
(* Candidates *)

\* A variable that is unset or blank is skipped.
envCandidate(v) == IF v.form = "blank" THEN NoRaw ELSE v

\* Joined to the directory, the socket is as absolute as the directory is.
xdgRuntimeCandidate(dir) == IF dir.form = "blank" THEN NoRaw ELSE dir

staticCandidate == [form |-> "path", at |-> "system"]

\* The first line of the output that is not blank, if podman is there and answers.
machineInspectCandidate(m) ==
  LET lines == SelectSeq(m.lines, LAMBDA l : l.form # "blank")
  IN  IF m.answers /\ lines # <<>> THEN Head(lines) ELSE NoRaw

\* The rootless socket is tried before the system's.
candidateFuncs_DefectXDGFirst(w) ==
  <<envCandidate(w.host), envCandidate(w.sock), machineInspectCandidate(w.machine),
    xdgRuntimeCandidate(w.xdg), staticCandidate>>

candidateFuncs(w) ==
  <<envCandidate(w.host), envCandidate(w.sock), machineInspectCandidate(w.machine),
    staticCandidate, xdgRuntimeCandidate(w.xdg)>>

-----------------------------------------------------------------------------
(* Probing *)

\* A path becomes a unix URI if it is absolute; what has a scheme is left alone.
normalise(raw) ==
  CASE raw.form = "path" -> [form |-> "unix", at |-> raw.at]
    [] raw.form = "relative" -> NoRaw
    [] OTHER -> raw

\* The scheme net/url finds; a URI it cannot parse has none.
splitScheme(u) == IF u.form \in {"malformed", "blank"} THEN "" ELSE u.form

\* A unix socket is only looked for, tcp is dialled, anything else is refused.
probeCandidate(raw) ==
  LET u == normalise(raw)
  IN  \/ splitScheme(u) = "unix" /\ u.at \in files
      \/ splitScheme(u) = "tcp" /\ u.at # "" /\ u.at \in serving

-----------------------------------------------------------------------------
(* NewClient *)

PodInit(w) ==
  /\ world = w
  /\ files = world.files /\ serving = world.serving
  /\ flips = 0 /\ faults = 0
  /\ step = "idle" /\ cand = 1 /\ uri = NoRaw /\ api = "none" /\ rootless = FALSE

CallFails == faults < MaxFaults /\ faults' = faults + 1

\* NewClient is called.
BeginResolve ==
  /\ step = "idle" /\ step' = "resolve"
  /\ UNCHANGED <<world, files, serving, flips, faults, cand, uri, api, rootless>>

Found(raw) == uri' = normalise(raw) /\ step' = "open"

\* --podman-socket wins outright; without it the candidates are searched.
ResolveExplicit ==
  /\ step = "resolve"
  /\ CASE world.explicit = NoRaw -> step' = "search" /\ UNCHANGED uri
       [] world.explicit # NoRaw /\ probeCandidate(world.explicit) -> Found(world.explicit)
       [] OTHER -> step' = "failed" /\ UNCHANGED uri
  /\ UNCHANGED <<world, files, serving, flips, faults, cand, api, rootless>>

\* One round of resolveSocket's loop over the candidates.
ResolveCandidate ==
  /\ step = "search"
  /\ IF cand > Len(candidateFuncs(world))
     THEN step' = "failed" /\ UNCHANGED <<uri, cand>>
     ELSE LET raw == candidateFuncs(world)[cand]
          IN  IF raw # NoRaw /\ probeCandidate(raw)
              THEN Found(raw) /\ UNCHANGED cand
              ELSE cand' = cand + 1 /\ UNCHANGED <<step, uri>>
  /\ UNCHANGED <<world, files, serving, flips, faults, api, rootless>>

\* newAPIClient; it does not connect yet.
OpenAPI ==
  /\ step = "open"
  /\ \/ api' = "open" /\ step' = "delegate" /\ UNCHANGED faults
     \/ CallFails /\ step' = "failed" /\ UNCHANGED api
  /\ UNCHANGED <<world, files, serving, flips, cand, uri, rootless>>

\* newDelegate, and the close if it fails.
WrapDelegate ==
  /\ step = "delegate"
  /\ \/ step' = "info" /\ UNCHANGED <<api, faults>>
     \/ CallFails /\ api' = "closed" /\ step' = "failed"
  /\ UNCHANGED <<world, files, serving, flips, cand, uri, rootless>>

\* /info of a rootless endpoint carries the marker.
detectRootless(w, u) == u.at \in w.rootless

\* The error path of /info forgets the api client.
FetchInfo_DefectNoClose ==
  /\ step = "info"
  /\ \/ /\ uri.at \in serving
        /\ rootless' = detectRootless(world, uri) /\ step' = "ready" /\ UNCHANGED <<api, faults>>
     \/ /\ IF uri.at \in serving THEN CallFails ELSE UNCHANGED faults
        /\ step' = "failed" /\ UNCHANGED <<rootless, api>>
  /\ UNCHANGED <<world, files, serving, flips, cand, uri>>

\* Nothing ends the wait for an answer.
FetchInfo_DefectNoTimeout ==
  /\ step = "info"
  /\ uri.at \in serving
  /\ \/ rootless' = detectRootless(world, uri) /\ step' = "ready" /\ UNCHANGED <<api, faults>>
     \/ CallFails /\ api' = "closed" /\ step' = "failed" /\ UNCHANGED rootless
  /\ UNCHANGED <<world, files, serving, flips, cand, uri>>

\* fetchInfo within bootstrapTimeout: it fails where nobody serves the socket.
FetchInfo ==
  /\ step = "info"
  /\ \/ /\ uri.at \in serving
        /\ rootless' = detectRootless(world, uri) /\ step' = "ready" /\ UNCHANGED <<api, faults>>
     \/ /\ IF uri.at \in serving THEN CallFails ELSE UNCHANGED faults
        /\ api' = "closed" /\ step' = "failed" /\ UNCHANGED rootless
  /\ UNCHANGED <<world, files, serving, flips, cand, uri>>

NewClient ==
  BeginResolve \/ ResolveExplicit \/ ResolveCandidate \/ OpenAPI \/ WrapDelegate \/ FetchInfo

\* podmanClient.Close releases the transport.
ClosePodman ==
  /\ api' = IF api = "open" THEN "closed" ELSE api
  /\ UNCHANGED <<world, files, serving, flips, faults, step, cand, uri, rootless>>

\* podman starts or stops at an endpoint; a service that dies may leave its file.
SocketFlips ==
  /\ flips < MaxFlips /\ flips' = flips + 1
  /\ \E e \in world.endpoints :
       \/ e \in serving /\ serving' = serving \ {e} /\ (files' = files \/ files' = files \ {e})
       \/ e \notin serving /\ serving' = serving \cup {e} /\ files' = files \cup {e}
  /\ UNCHANGED <<world, faults, step, cand, uri, api, rootless>>

-----------------------------------------------------------------------------
(* Properties *)

\* The type of PodmanClient's state.
PodTypeOK ==
  /\ files \subseteq world.endpoints /\ serving \subseteq world.endpoints
  /\ flips \in 0..MaxFlips /\ faults \in 0..MaxFaults
  /\ step \in {"idle", "resolve", "search", "open", "delegate", "info", "ready", "failed"}
  /\ cand \in 1..6 /\ uri.form \in {"blank", "unix", "tcp"}
  /\ api \in {"none", "open", "closed"} /\ rootless \in BOOLEAN

(***************************************************************************)
(* While no socket comes or goes, NewClient talks to what resolveSocket    *)
(* promises: the explicit socket or nothing, else the first candidate      *)
(* whose socket is there.                                                  *)
(***************************************************************************)
FirstReachable ==
  flips = 0 /\ uri # NoRaw =>
    IF world.explicit # NoRaw THEN uri = normalise(world.explicit)
    ELSE LET raws == <<world.host, world.sock, machineInspectCandidate(world.machine),
                       staticCandidate, world.xdg>>
             there == {i \in DOMAIN raws : raws[i].form # "blank" /\ probeCandidate(raws[i])}
         IN  \E i \in there : uri = normalise(raws[i]) /\ \A j \in there : i <= j

(***************************************************************************)
(* A working podman is passed over only for a reason: if NewClient failed  *)
(* by itself, with no call refused and nothing coming or going, although a *)
(* candidate serves, then a unix socket nobody serves shadows it (the      *)
(* probe only looks for the file), or an explicit socket was asked for.    *)
(***************************************************************************)
ShadowedOnlyByStaleFile ==
  LET raws == {r \in Range(candidateFuncs(world)) : r # NoRaw}
      live == {r \in raws : splitScheme(normalise(r)) \in {"unix", "tcp"} /\ r.at \in serving}
  IN  step = "failed" /\ flips = 0 /\ faults = 0 /\ world.explicit = NoRaw /\ live # {} =>
        uri.form = "unix" /\ uri.at \in files \ serving

(***************************************************************************)
(* resolveSocket keeps its promise: it picks the first candidate that is   *)
(* there, and nothing but a stale file hides a podman that works.          *)
(***************************************************************************)
SocketAsPromised == FirstReachable /\ ShadowedOnlyByStaleFile
=============================================================================
