--------------------------- MODULE StartupProofs ---------------------------
(***************************************************************************)
(* Theorems about Startup, for any command lines, any worlds of podman and *)
(* any number of faults, flips and calls.                                  *)
(***************************************************************************)
EXTENDS Startup, SequenceTheorems, TLAPS

\* The states of podman's NewClient in which no api client may be open.
Shut == {"idle", "resolve", "search", "open", "failed"}

(***************************************************************************)
(* Who owns an open connection: NewClient while it runs, afterwards the    *)
(* runtime client that After closes.                                       *)
(***************************************************************************)
Owned ==
  /\ pc = "before" => client = "none" /\ conn # "open"
  /\ step \in Shut => api # "open"
  /\ inv.runtime # "podman" => step = "idle"
  /\ api = "open" /\ pc \in {"action", "ticker", "run", "after"} => client = "podman"
  /\ conn = "open" => client = "containerd"
  /\ pc \in {"before", "action", "ticker", "run", "after", "exit"}
  /\ ConnectionsClosed

\* What the podman client recorded is what its endpoint is.
Recorded ==
  /\ rootless \in BOOLEAN
  /\ client = "podman" => step = "ready"
  /\ step = "ready" => (rootless <=> uri.at \in world.rootless)

\* Nothing has been called before the loop runs.
Quiescent ==
  /\ pc \in {"before", "action", "ticker"} => calls = 0 /\ result = "none"
  /\ pc = "run" => result = "none"
  /\ pc = "before" => client = "none"

IInv == Owned /\ Recorded /\ Quiescent /\ RootlessNeverInjects /\ PanicTouchesNothing

-----------------------------------------------------------------------------

\* Pumba starts with nothing open and nothing called.
LEMMA InitInv == Init => IInv
BY DEF Init, PodInit, IInv, Owned, Shut, ConnectionsClosed, Recorded, Quiescent,
       RootlessNeverInjects, PanicTouchesNothing

\* The api client is opened and closed only inside NewClient and by After.
LEMMA OwnedInv == IInv /\ [Next]_vars => Owned'
<1> SUFFICES ASSUME IInv, [Next]_vars PROVE Owned'
  OBVIOUS
<1> USE DEF IInv, Owned, Shut, ConnectionsClosed, Quiescent, Recorded
<1>1. CASE CreateDocker
  BY <1>1 DEF CreateDocker, Ends, CallFails
<1>2. CASE CreateContainerd
  BY <1>2 DEF CreateContainerd, Ends, CallFails
<1>3. CASE CreatePodman
  <2>1. CASE NewClient
    <3> pc = "before" /\ UNCHANGED <<pc, client, conn, inv>> /\ inv.runtime = "podman"
      BY <1>3, <2>1 DEF CreatePodman, NewClient, BeginResolve, ResolveExplicit,
         ResolveCandidate,
                        OpenAPI, WrapDelegate, FetchInfo, Found, Ends
    <3>1. CASE BeginResolve
      BY <3>1 DEF BeginResolve
    <3>2. CASE ResolveExplicit
      BY <3>2 DEF ResolveExplicit, Found
    <3>3. CASE ResolveCandidate
      BY <3>3 DEF ResolveCandidate, Found
    <3>4. CASE OpenAPI
      BY <3>4 DEF OpenAPI, CallFails
    <3>5. CASE WrapDelegate
      BY <3>5 DEF WrapDelegate, CallFails
    <3>6. CASE FetchInfo
      BY <3>6 DEF FetchInfo, CallFails
    <3> QED
      BY <2>1, <3>1, <3>2, <3>3, <3>4, <3>5, <3>6 DEF NewClient
  <2>2. CASE ~NewClient
    BY <1>3, <2>2 DEF CreatePodman, Ends, podVars
  <2> QED
    BY <2>1, <2>2
<1>4. CASE UnsupportedRuntime
  BY <1>4 DEF UnsupportedRuntime, Ends, podVars
<1>5. CASE Action
  BY <1>5 DEF Action, Ends, podVars
<1>6. CASE Ticker
  BY <1>6 DEF Ticker, Ends, podVars
<1>7. CASE RunOnce
  BY <1>7 DEF RunOnce, Ends, CallFails
<1>8. CASE Interrupted
  BY <1>8 DEF Interrupted, Ends, podVars
<1>9. CASE After
  BY <1>9 DEF After, ClosePodman, podVars
<1>10. CASE Signal
  BY <1>10 DEF Signal, podVars
<1>11. CASE Flip
  BY <1>11 DEF Flip, SocketFlips, own
<1>12. CASE UNCHANGED vars
  BY <1>12 DEF vars, podVars, own
<1> QED
  BY <1>1, <1>2, <1>3, <1>4, <1>5, <1>6, <1>7, <1>8, <1>9, <1>10, <1>11, <1>12 DEF Next,
     Step

\* /info is read once, at the endpoint that was chosen, and never again.
LEMMA RecordedInv == IInv /\ [Next]_vars => Recorded'
<1> SUFFICES ASSUME IInv, [Next]_vars PROVE Recorded'
  OBVIOUS
<1> USE DEF IInv, Recorded, Quiescent
<1>1. CASE CreateDocker \/ CreateContainerd
  BY <1>1 DEF CreateDocker, CreateContainerd, Ends, CallFails
<1>2. CASE CreatePodman
  <2>1. CASE NewClient
    <3> client = "none" /\ UNCHANGED client
      BY <1>2, <2>1 DEF CreatePodman, NewClient, BeginResolve, ResolveExplicit,
         ResolveCandidate,
                        OpenAPI, WrapDelegate, FetchInfo, Found, Ends
    <3>1. CASE BeginResolve
      BY <3>1 DEF BeginResolve
    <3>2. CASE ResolveExplicit
      BY <3>2 DEF ResolveExplicit, Found
    <3>3. CASE ResolveCandidate
      BY <3>3 DEF ResolveCandidate, Found
    <3>4. CASE OpenAPI
      BY <3>4 DEF OpenAPI, CallFails
    <3>5. CASE WrapDelegate
      BY <3>5 DEF WrapDelegate, CallFails
    <3>6. CASE FetchInfo
      <4>1. CASE step' = "ready" /\ rootless' = detectRootless(world, uri)
        <5> DEFINE marked == uri.at \in world.rootless
        <5>1. rootless' = marked
          BY <4>1, Zenon DEF detectRootless
        <5>2. uri' = uri /\ world' = world
          BY <3>6 DEF FetchInfo
        <5>3. marked' <=> marked
          BY <5>2
        <5> HIDE DEF marked
        <5>4. CASE marked
          <6>1. rootless' = TRUE
            BY <5>1, <5>4
          <6> QED
            BY <5>3, <5>4, <6>1 DEF marked
        <5>5. CASE ~marked
          <6>1. rootless' = FALSE
            BY <5>1, <5>5
          <6> QED
            BY <5>3, <5>5, <6>1 DEF marked
        <5> QED
          BY <5>4, <5>5
      <4>2. CASE step' = "failed" /\ UNCHANGED rootless
        BY <4>2
      <4> QED
        BY <3>6, <4>1, <4>2 DEF FetchInfo
    <3> QED
      BY <2>1, <3>1, <3>2, <3>3, <3>4, <3>5, <3>6 DEF NewClient
  <2>2. CASE ~NewClient
    BY <1>2, <2>2 DEF CreatePodman, Ends, podVars
  <2> QED
    BY <2>1, <2>2
<1>3. CASE UnsupportedRuntime \/ Action \/ Ticker \/ Interrupted \/ Signal
  BY <1>3 DEF UnsupportedRuntime, Action, Ticker, Interrupted, Signal, Ends, podVars
<1>4. CASE RunOnce
  BY <1>4 DEF RunOnce, Ends, CallFails
<1>5. CASE After
  BY <1>5 DEF After, ClosePodman, podVars
<1>6. CASE Flip
  BY <1>6 DEF Flip, SocketFlips, own
<1>7. CASE UNCHANGED vars
  BY <1>7 DEF vars, podVars, own
<1> QED
  BY <1>1, <1>2, <1>3, <1>4, <1>5, <1>6, <1>7 DEF Next, Step

\* Only RunOnce calls, and it asks the guards first.
LEMMA CallsInv ==
  IInv /\ [Next]_vars => Quiescent' /\ RootlessNeverInjects' /\ PanicTouchesNothing'
<1> SUFFICES ASSUME IInv, [Next]_vars
             PROVE Quiescent' /\ RootlessNeverInjects' /\ PanicTouchesNothing'
  OBVIOUS
<1> USE DEF IInv, Quiescent, RootlessNeverInjects, PanicTouchesNothing
<1>1. CASE CreateDocker \/ CreateContainerd \/ UnsupportedRuntime
  BY <1>1 DEF CreateDocker, CreateContainerd, UnsupportedRuntime, Ends, CallFails, podVars
<1>2. CASE CreatePodman
  <2>1. calls = 0 /\ result = "none" /\ UNCHANGED <<calls, inv>>
    BY <1>2 DEF CreatePodman
  <2>2. result' # "panic" /\ pc' \in {"before", "action", "after"}
        /\ (pc' \in {"before", "action"} => result' = "none") /\ (pc' = "before" => client' = "none")
    BY <1>2, <2>1 DEF CreatePodman, Ends
  <2> QED
    BY <2>1, <2>2
<1>3. CASE Action \/ Ticker \/ Interrupted \/ Signal
  BY <1>3 DEF Action, Ticker, Interrupted, Signal, Ends, podVars
<1>4. CASE RunOnce
  <2>1. pc = "run" /\ result = "none" /\ UNCHANGED <<world, uri, inv, client, rootless>>
    BY <1>4 DEF RunOnce
  <2>2. pc' \in {"run", "after"} /\ result' \in {"none", "ok", "error"}
        /\ (pc' = "run" => result' = "none")
    BY <1>4, <2>1 DEF RunOnce, Ends
  <2>3. RootlessNeverInjects'
    BY <1>4, <2>1 DEF RunOnce, Refuses, Recorded
  <2> QED
    BY <2>2, <2>3
<1>5. CASE After
  BY <1>5 DEF After, ClosePodman, podVars
<1>6. CASE Flip
  BY <1>6 DEF Flip, SocketFlips, own
<1>7. CASE UNCHANGED vars
  BY <1>7 DEF vars, podVars, own
<1> QED
  BY <1>1, <1>2, <1>3, <1>4, <1>5, <1>6, <1>7 DEF Next, Step

\* IInv is an invariant of Startup.
THEOREM Inductive == Spec => []IInv
<1>1. IInv /\ [Next]_vars => IInv'
  BY OwnedInv, RecordedInv, CallsInv DEF IInv
<1> QED
  BY InitInv, <1>1, PTL DEF Spec

\* However pumba ends, nothing it opened is left open.
THEOREM ConnectionsClosedHolds == Spec => []ConnectionsClosed
<1>1. IInv => ConnectionsClosed
  BY DEF IInv, Owned
<1> QED
  BY Inductive, <1>1, PTL

\* No privileged chaos reaches a rootless podman.
THEOREM RootlessNeverInjectsHolds == Spec => []RootlessNeverInjects
<1>1. IInv => RootlessNeverInjects
  BY DEF IInv
<1> QED
  BY Inductive, <1>1, PTL

\* A panic comes before any chaos, and only from a negative interval.
THEOREM PanicTouchesNothingHolds == Spec => []PanicTouchesNothing
<1>1. IInv => PanicTouchesNothing
  BY DEF IInv
<1> QED
  BY Inductive, <1>1, PTL
-----------------------------------------------------------------------------
(* The socket of podman *)

(***************************************************************************)
(* The second inductive invariant follows resolveSocket through its loop.  *)
(* The sockets it saw are those that are there as long as none came or     *)
(* went, so what was probed remains true.                                  *)
(***************************************************************************)

\* probeCandidate, with the files and the endpoints it looks at.
There(raw, fs, sv) ==
  LET u == normalise(raw)
  IN  \/ splitScheme(u) = "unix" /\ u.at \in fs
      \/ splitScheme(u) = "tcp" /\ u.at # "" /\ u.at \in sv

\* No candidate before the n-th is there.
NoneBefore(w, n, fs, sv) == \A j \in 1..5 : j < n => ~There(candidateFuncs(w)[j], fs, sv)

\* u is the first candidate that is there.
First(w, u, fs, sv) ==
  \E i \in 1..5 : /\ u = normalise(candidateFuncs(w)[i])
                  /\ There(candidateFuncs(w)[i], fs, sv)
                  /\ NoneBefore(w, i, fs, sv)

InvWorld == serving \subseteq files /\ files \subseteq world.endpoints /\ "" \notin world.endpoints

InvFound ==
  /\ step \in {"idle", "resolve", "search"} => uri = NoRaw
  /\ step \in {"idle", "resolve"} => cand = 1
  /\ flips = 0 =>
       /\ step = "search" => world.explicit = NoRaw /\ NoneBefore(world, cand, files, serving)
       /\ uri # NoRaw => IF world.explicit # NoRaw THEN uri = normalise(world.explicit)
                         ELSE First(world, uri, files, serving)
       /\ step \in {"open", "delegate", "info"} =>
            \/ uri.form = "unix" /\ uri.at \in files
            \/ uri.form = "tcp" /\ uri.at \in serving
       /\ step = "failed" /\ faults = 0 /\ world.explicit = NoRaw =>
            \/ uri = NoRaw /\ NoneBefore(world, 6, files, serving)
            \/ uri.form = "unix" /\ uri.at \in files \ serving

PodInv == PodTypeOK /\ InvWorld /\ InvFound

\* What probeCandidate finds is a unix or a tcp socket.
LEMMA ThereForm ==
  ASSUME NEW raw, NEW fs, NEW sv, There(raw, fs, sv)
  PROVE  /\ \/ normalise(raw).form = "unix" /\ normalise(raw).at \in fs
            \/ normalise(raw).form = "tcp" /\ normalise(raw).at \in sv
         /\ raw.form # "blank" /\ normalise(raw) # NoRaw
<1>1. \/ normalise(raw).form = "unix" /\ normalise(raw).at \in fs
      \/ normalise(raw).form = "tcp" /\ normalise(raw).at \in sv
  BY DEF There, splitScheme
<1>2. normalise(raw) # NoRaw
  <2>1. NoRaw.form = "blank"
    BY DEF NoRaw
  <2> QED
    BY <1>1, <2>1
<1>3. raw.form # "blank"
  BY <1>1 DEF normalise
<1> QED
  BY <1>1, <1>2, <1>3
\* Pumba starts without a socket.
LEMMA InitPod == Init => PodInv
<1> SUFFICES ASSUME Init
             PROVE  PodInv
  OBVIOUS
<1>1. PICK s \in Scenarios : PodInit(s.world)
  BY DEF Init
<1>2. /\ serving \subseteq files /\ files \subseteq world.endpoints /\ "" \notin world.endpoints
  BY <1>1, StartupAssumption DEF PodInit
<1>3. NoRaw.form = "blank"
  BY DEF NoRaw
<1>4. PodTypeOK
  <2>1. /\ flips \in 0..MaxFlips /\ faults \in 0..MaxFaults /\ cand \in 1..6
    BY <1>1, BoundsAssumption DEF PodInit
  <2>2. rootless \in BOOLEAN
    BY <1>1 DEF PodInit
  <2>3. serving \subseteq world.endpoints
    BY <1>2
  <2> QED
    BY <1>1, <1>2, <1>3, <2>1, <2>2, <2>3 DEF PodInit, PodTypeOK
<1>5. InvFound
  BY <1>1 DEF PodInit, InvFound
<1> QED
  BY <1>2, <1>4, <1>5 DEF PodInv, InvWorld

\* The probe of the code is There.
LEMMA ProbeIsThere ==
  ASSUME NEW raw
  PROVE  probeCandidate(raw) <=> There(raw, files, serving)
BY DEF probeCandidate, There

\* resolveSocket, the api client and /info.
LEMMA NewClientPod ==
  ASSUME PodInv, NewClient
  PROVE  PodInv'
<1>0. /\ faults \in 0..MaxFaults /\ MaxFaults \in Nat /\ cand \in 1..6
      /\ Len(candidateFuncs(world)) = 5
  BY BoundsAssumption DEF PodInv, PodTypeOK, candidateFuncs
<1>1. CASE BeginResolve
  BY <1>1 DEF BeginResolve, PodInv, PodTypeOK, InvWorld, InvFound
<1>2. CASE ResolveExplicit
  <2>0. /\ step = "resolve" /\ uri = NoRaw /\ cand = 1
        /\ UNCHANGED <<world, files, serving, flips, faults, cand, api, rootless>>
    BY <1>2 DEF ResolveExplicit, PodInv, InvFound
  <2>1. CASE world.explicit = NoRaw /\ step' = "search" /\ UNCHANGED uri
    <3>1. NoneBefore(world, 1, files, serving)
      BY DEF NoneBefore
    <3>2. InvFound'
      BY <2>0, <2>1, <3>1 DEF InvFound
    <3> QED
      BY <2>0, <2>1, <3>2 DEF PodInv, PodTypeOK, InvWorld
  <2>2. CASE world.explicit # NoRaw /\ probeCandidate(world.explicit) /\ Found(world.explicit)
    <3> PICK x : x = world.explicit
      OBVIOUS
    <3>1. There(x, files, serving) /\ uri' = normalise(x) /\ step' = "open"
      BY <2>2, ProbeIsThere DEF Found
    <3>2. /\ \/ uri'.form = "unix" /\ uri'.at \in files
             \/ uri'.form = "tcp" /\ uri'.at \in serving
          /\ uri' # NoRaw
      BY <3>1, ThereForm
    <3>3. InvFound'
      BY <2>0, <2>2, <3>1, <3>2 DEF InvFound
    <3>4. PodTypeOK'
      BY <2>0, <3>1, <3>2 DEF PodInv, PodTypeOK
    <3> QED
      BY <2>0, <3>3, <3>4 DEF PodInv, InvWorld
  <2>3. CASE world.explicit # NoRaw /\ step' = "failed" /\ UNCHANGED uri
    <3>1. InvFound'
      BY <2>0, <2>3 DEF InvFound
    <3> QED
      BY <2>0, <2>3, <3>1 DEF PodInv, PodTypeOK, InvWorld
  <2> QED
    BY <1>2, <2>1, <2>2, <2>3 DEF ResolveExplicit
<1>3. CASE ResolveCandidate
  <2>0. /\ step = "search" /\ uri = NoRaw
        /\ UNCHANGED <<world, files, serving, flips, faults, api, rootless>>
    BY <1>3 DEF ResolveCandidate, PodInv, InvFound
  <2>1. CASE cand > 5 /\ step' = "failed" /\ UNCHANGED <<uri, cand>>
    <3>1. cand = 6
      BY <1>0, <2>1
    <3>2. InvFound'
      BY <2>0, <2>1, <3>1 DEF PodInv, InvFound
    <3> QED
      BY <2>0, <2>1, <3>2 DEF PodInv, PodTypeOK, InvWorld
  <2> DEFINE raw == candidateFuncs(world)[cand]
  <2>2. CASE cand \in 1..5 /\ probeCandidate(raw) /\ Found(raw) /\ UNCHANGED cand
    <3> PICK x : x = raw
      OBVIOUS
    <3>1. There(x, files, serving) /\ uri' = normalise(x) /\ step' = "open"
      BY <2>2, ProbeIsThere DEF Found
    <3>2. /\ \/ uri'.form = "unix" /\ uri'.at \in files
             \/ uri'.form = "tcp" /\ uri'.at \in serving
          /\ uri' # NoRaw
      BY <3>1, ThereForm
    <3>3. flips = 0 => world.explicit = NoRaw /\ First(world, uri', files, serving)
      BY <2>0, <2>2, <3>1 DEF PodInv, InvFound, First
    <3>4. InvFound'
      BY <2>0, <3>1, <3>2, <3>3 DEF InvFound
    <3>5. PodTypeOK'
      BY <2>0, <2>2, <3>1, <3>2 DEF PodInv, PodTypeOK
    <3> QED
      BY <2>0, <3>4, <3>5 DEF PodInv, InvWorld
  <2>3. CASE cand \in 1..5 /\ ~(raw # NoRaw /\ probeCandidate(raw))
               /\ cand' = cand + 1 /\ UNCHANGED <<step, uri>>
    <3> PICK x : x = raw
      OBVIOUS
    <3>1. ~There(x, files, serving)
      <4>1. ASSUME There(x, files, serving)
            PROVE  x # NoRaw
        <5>1. NoRaw.form = "blank"
          BY DEF NoRaw
        <5> QED
          BY <4>1, <5>1, ThereForm
      <4> QED
        BY <2>3, <4>1, ProbeIsThere
    <3>2. NoneBefore(world, cand, files, serving) => NoneBefore(world, cand + 1, files, serving)
      <4> SUFFICES ASSUME NoneBefore(world, cand, files, serving), NEW j \in 1..5, j < cand + 1
                   PROVE  ~There(candidateFuncs(world)[j], files, serving)
        BY DEF NoneBefore
      <4>1. j < cand \/ j = cand
        BY <2>3
      <4> QED
        BY <3>1, <4>1 DEF NoneBefore
    <3>3. InvFound'
      BY <2>0, <2>3, <3>2 DEF PodInv, InvFound
    <3>4. cand' \in 1..6
      BY <2>3
    <3>5. PodTypeOK'
      BY <2>0, <2>3, <3>4 DEF PodInv, PodTypeOK
    <3> QED
      BY <2>0, <3>3, <3>5 DEF PodInv, InvWorld
  <2> QED
    BY <1>0, <1>3, <2>1, <2>2, <2>3 DEF ResolveCandidate
<1>4. CASE OpenAPI
  <2>1. PodTypeOK'
    BY <1>0, <1>4 DEF OpenAPI, CallFails, PodInv, PodTypeOK
  <2>2. InvFound'
    BY <1>0, <1>4 DEF OpenAPI, CallFails, PodInv, InvFound
  <2> QED
    BY <1>4, <2>1, <2>2 DEF OpenAPI, PodInv, InvWorld
<1>5. CASE WrapDelegate
  <2>1. PodTypeOK'
    BY <1>0, <1>5 DEF WrapDelegate, CallFails, PodInv, PodTypeOK
  <2>2. InvFound'
    BY <1>0, <1>5 DEF WrapDelegate, CallFails, PodInv, InvFound
  <2> QED
    BY <1>5, <2>1, <2>2 DEF WrapDelegate, PodInv, InvWorld
<1>6. CASE FetchInfo
  <2>0. rootless' \in BOOLEAN
    <3>1. (uri.at \in world.rootless) \in BOOLEAN
      OBVIOUS
    <3>2. rootless' = (uri.at \in world.rootless) \/ rootless' = rootless
      BY <1>6, Zenon DEF FetchInfo, detectRootless
    <3> QED
      BY <3>1, <3>2 DEF PodInv, PodTypeOK
  <2>1. PodTypeOK'
    BY <1>0, <1>6, <2>0 DEF FetchInfo, CallFails, PodInv, PodTypeOK
  <2>2. InvFound'
    BY <1>0, <1>6 DEF FetchInfo, CallFails, PodInv, InvFound
  <2> QED
    BY <1>6, <2>1, <2>2 DEF FetchInfo, PodInv, InvWorld
<1> QED
  BY <1>1, <1>2, <1>3, <1>4, <1>5, <1>6 DEF NewClient
\* A step of pumba, or a socket that comes or goes.
LEMMA PodInvPreserved ==
  ASSUME PodInv, [Next]_vars
  PROVE  PodInv'
<1>1. CASE CreatePodman /\ NewClient
  BY <1>1, NewClientPod
<1>2. CASE Flip
  <2>1. /\ flips < MaxFlips /\ flips' = flips + 1
        /\ UNCHANGED <<world, faults, step, cand, uri, api, rootless>>
        /\ \E e \in world.endpoints :
             \/ /\ e \in serving /\ serving' = serving \ {e}
                /\ files' = files \/ files' = files \ {e}
             \/ e \notin serving /\ serving' = serving \cup {e} /\ files' = files \cup {e}
    BY <1>2 DEF Flip, SocketFlips
  <2>2. flips' \in 0..MaxFlips /\ flips' # 0
    BY <2>1, BoundsAssumption DEF PodInv, PodTypeOK
  <2>3. serving' \subseteq files' /\ files' \subseteq world.endpoints
    BY <2>1 DEF PodInv, InvWorld
  <2>4. PodTypeOK'
    BY <2>1, <2>2, <2>3 DEF PodInv, PodTypeOK
  <2>5. InvFound'
    BY <2>1, <2>2 DEF PodInv, InvFound
  <2> QED
    BY <2>1, <2>3, <2>4, <2>5 DEF PodInv, InvWorld
<1>3. ASSUME faults' = faults \/ CallFails,
             UNCHANGED <<world, files, serving, flips, step, cand, uri, rootless>>,
             api' \in {api, "closed"}
      PROVE  PodInv'
  <2>1. faults' \in 0..MaxFaults /\ (faults' = 0 => faults = 0)
    BY <1>3, BoundsAssumption DEF CallFails, PodInv, PodTypeOK
  <2>2. PodTypeOK'
    BY <1>3, <2>1 DEF PodInv, PodTypeOK
  <2>3. InvFound'
    BY <1>3, <2>1 DEF PodInv, InvFound
  <2> QED
    BY <1>3, <2>2, <2>3 DEF PodInv, InvWorld
<1>4. CASE CreateDocker \/ CreateContainerd \/ RunOnce
  BY <1>3, <1>4 DEF CreateDocker, CreateContainerd, RunOnce
<1>5. CASE UNCHANGED podVars
  BY <1>3, <1>5 DEF podVars
<1>6. CASE After
  BY <1>3, <1>5, <1>6 DEF After, ClosePodman
<1>7. CASE \/ CreatePodman /\ ~NewClient
           \/ UnsupportedRuntime \/ Action \/ Ticker \/ Interrupted \/ Signal \/ UNCHANGED vars
  BY <1>5, <1>7 DEF CreatePodman, UnsupportedRuntime, Action, Ticker, Interrupted, Signal,
     vars
<1> QED
  BY <1>1, <1>2, <1>4, <1>6, <1>7 DEF Next, Step

\* PodInv is an invariant of Startup.
THEOREM PodInductive == Spec => []PodInv
<1>1. PodInv /\ [Next]_vars => PodInv'
  BY PodInvPreserved
<1> QED
  BY InitPod, <1>1, PTL DEF Spec

\* A candidate in the list of the property, and the one the code tries.
LEMMA SameCandidate ==
  ASSUME NEW w, NEW i \in 1..5, NEW fs, NEW sv,
         NEW raws, raws = <<w.host, w.sock, machineInspectCandidate(w.machine), staticCandidate, w.xdg>>
  PROVE  /\ There(candidateFuncs(w)[i], fs, sv) => candidateFuncs(w)[i] = raws[i]
         /\ raws[i].form # "blank" => candidateFuncs(w)[i] = raws[i]
<1> PICK m : m = machineInspectCandidate(w.machine)
  OBVIOUS
<1>1. \/ candidateFuncs(w)[i] = raws[i]
      \/ raws[i].form = "blank" /\ candidateFuncs(w)[i] = NoRaw
  BY DEF candidateFuncs, envCandidate, xdgRuntimeCandidate
<1>2. ~There(NoRaw, fs, sv)
  <2>1. NoRaw.form = "blank"
    BY DEF NoRaw
  <2> QED
    BY <2>1, ThereForm
<1> QED
  BY <1>1, <1>2

(***************************************************************************)
(* resolveSocket keeps its promise for every configuration: as long as no  *)
(* socket comes or goes the socket in use is the explicit one or the first *)
(* candidate that is there, and a podman that works is passed over only    *)
(* for the file of one that does not.                                      *)
(***************************************************************************)
THEOREM SocketAsPromisedHolds == Spec => []SocketAsPromised
<1>1. PodInv => FirstReachable
  <2> SUFFICES ASSUME PodInv, flips = 0, uri # NoRaw, world.explicit = NoRaw,
                      NEW raws,
                      raws = <<world.host, world.sock, machineInspectCandidate(world.machine),
                               staticCandidate, world.xdg>>,
                      NEW there,
                      there = {i \in DOMAIN raws : raws[i].form # "blank" /\ probeCandidate(raws[i])}
               PROVE  \E i \in there : uri = normalise(raws[i]) /\ \A j \in there : i <= j
    BY DEF FirstReachable, PodInv, InvFound
  <2>0. DOMAIN raws = 1..5
    OBVIOUS
  <2>1. PICK i \in 1..5 : /\ uri = normalise(candidateFuncs(world)[i])
                          /\ There(candidateFuncs(world)[i], files, serving)
                          /\ NoneBefore(world, i, files, serving)
    BY DEF PodInv, InvFound, First
  <2>2. \A j \in 1..5 : j \in there <=> There(candidateFuncs(world)[j], files, serving)
    <3> SUFFICES ASSUME NEW j \in 1..5
                 PROVE  j \in there <=> There(candidateFuncs(world)[j], files, serving)
      OBVIOUS
    <3>1. /\ There(candidateFuncs(world)[j], files, serving) => candidateFuncs(world)[j] = raws[j]
          /\ raws[j].form # "blank" => candidateFuncs(world)[j] = raws[j]
      BY SameCandidate
    <3>2. probeCandidate(raws[j]) <=> There(raws[j], files, serving)
      BY ProbeIsThere
    <3>3. There(raws[j], files, serving) => raws[j].form # "blank"
      BY ThereForm
    <3> QED
      BY <2>0, <3>1, <3>2, <3>3
  <2>3. i \in there /\ uri = normalise(raws[i])
    BY <2>1, <2>2, SameCandidate
  <2>4. ASSUME NEW j \in there
        PROVE  i <= j
    <3>1. j \in 1..5
      BY <2>0
    <3> QED
      BY <2>1, <2>2, <3>1 DEF NoneBefore
  <2> QED
    BY <2>3, <2>4
<1>2. PodInv => ShadowedOnlyByStaleFile
  <2> SUFFICES ASSUME PodInv, step = "failed", flips = 0, faults = 0, world.explicit = NoRaw,
                      NEW r \in Range(candidateFuncs(world)),
                      splitScheme(normalise(r)) \in {"unix", "tcp"}, r.at \in serving
               PROVE  uri.form = "unix" /\ uri.at \in files \ serving
    BY DEF ShadowedOnlyByStaleFile
  <2>1. PICK j \in 1..5 : r = candidateFuncs(world)[j]
    BY DEF Range, candidateFuncs
  <2>2. normalise(r).at = r.at
    BY DEF normalise, splitScheme, NoRaw
  <2>3. There(r, files, serving)
    BY <2>2 DEF There, PodInv, InvWorld
  <2>4. ~NoneBefore(world, 6, files, serving)
    BY <2>1, <2>3 DEF NoneBefore
  <2> QED
    BY <2>4 DEF PodInv, InvFound
<1> QED
  BY PodInductive, <1>1, <1>2, PTL DEF SocketAsPromised
-----------------------------------------------------------------------------
(* The command that runs *)

(***************************************************************************)
(* The third inductive invariant: what runs is what the action parsed from *)
(* the command line and what the constructor let pass.                     *)
(***************************************************************************)
InvParsed ==
  /\ \E s \in Scenarios : inv = s.inv
  /\ calls \in 0..MaxCalls /\ conn \in {"none", "open", "closed"} /\ cancelled \in BOOLEAN
  /\ client \in {"none", "docker", "containerd", "podman"}
  /\ result \in {"none", "ok", "error", "panic"}
  /\ (pc \in {"after", "exit"}) <=> (result # "none")
  /\ req = NoReq \/ req = Request(inv)
  /\ pc \in {"ticker", "run"} \/ calls > 0 =>
       /\ req = Request(inv) /\ Parse(inv) /\ Build(inv)
       /\ inv.cmd \in RequireArgs => inv.args # <<>>

\* The bound on the calls is a number.
LEMMA CallsBound == MaxCalls \in Nat
BY StartupAssumption

\* Nothing is parsed at first.
LEMMA InitParsed == Init => InvParsed
<1> SUFFICES ASSUME Init
             PROVE  InvParsed
  OBVIOUS
<1>1. \E s \in Scenarios : inv = s.inv
  BY DEF Init
<1>2. calls \in 0..MaxCalls /\ ~(calls > 0)
  BY CallsBound DEF Init
<1>3. cancelled \in BOOLEAN
  BY DEF Init
<1>4. (pc \in {"after", "exit"}) <=> (result # "none")
  BY DEF Init
<1>5. ~(pc \in {"ticker", "run"} \/ calls > 0)
  BY <1>2 DEF Init
<1> QED
  BY <1>1, <1>2, <1>3, <1>4, <1>5 DEF Init, InvParsed

\* Only the action parses, and nothing changes the command line.
LEMMA ParsedPreserved ==
  ASSUME IInv, InvParsed, [Next]_vars
  PROVE  InvParsed'
<1> USE DEF InvParsed
<1>0. calls \in Nat /\ MaxCalls \in Nat
  BY CallsBound
<1>1. CASE CreateDocker \/ UnsupportedRuntime
  <2>1. /\ pc = "before" /\ UNCHANGED <<inv, conn, req, calls, cancelled>>
        /\ \/ pc' = "action" /\ result' = result /\ client' = "docker"
           \/ pc' = "after" /\ result' = "error" /\ client' = client
    BY <1>1 DEF CreateDocker, UnsupportedRuntime, Ends
  <2> QED
    BY <2>1
<1>2. CASE CreateContainerd
  BY <1>2 DEF CreateContainerd, Ends
<1>8. CASE CreatePodman
  BY <1>8 DEF CreatePodman, Ends
<1>3. CASE Action
  BY <1>3 DEF Action, Ends
<1>4. CASE Ticker \/ Interrupted \/ Signal
  BY <1>4 DEF Ticker, Interrupted, Signal, Ends
<1>5. CASE RunOnce
  BY <1>0, <1>5 DEF RunOnce, Ends
<1>6. CASE After
  BY <1>6 DEF After
<1>7. CASE Flip \/ UNCHANGED vars
  BY <1>7 DEF Flip, own, vars
<1> QED
  BY <1>1, <1>2, <1>3, <1>4, <1>5, <1>6, <1>7, <1>8 DEF Next, Step

\* All three are invariants of Startup.
THEOREM ParsedInductive == Spec => []InvParsed
<1>1. InvParsed /\ IInv /\ [Next]_vars => InvParsed'
  BY ParsedPreserved
<1> QED
  BY InitParsed, Inductive, <1>1, PTL DEF Spec

\* Type correctness of an invocation and of podman's NewClient.
THEOREM TypeCorrect == Spec => []TypeOK
<1>1. IInv /\ PodInv /\ InvParsed => TypeOK
  <2> SUFFICES ASSUME IInv, PodInv, InvParsed
               PROVE  TypeOK
    OBVIOUS
  <2>1. DOMAIN req = DOMAIN NoReq
    BY DEF InvParsed, NoReq, Request
  <2> QED
    BY <2>1 DEF TypeOK, IInv, Owned, PodInv, InvParsed
<1> QED
  BY Inductive, PodInductive, ParsedInductive, <1>1, PTL
-----------------------------------------------------------------------------
(* What tc and iptables are told *)

\* The percentages of tc, in hundredths.
Hundredths == 0..10000

\* What rounding to hundredths makes of a number of thousandths.
LEMMA Rounding ==
  ASSUME NEW x \in Int, x >= 0, x <= 100000
  PROVE  (x + 5) \div 10 \in Hundredths /\ (x = 0 => (x + 5) \div 10 = 0)
BY DEF Hundredths

\* A percentage that passed the constructor's check is one after rounding too.
LEMMA RoundedPercent ==
  ASSUME NEW x \in Int, Percent(x), FormatFloat(x) # NaN
  PROVE  FormatFloat(x) \in Hundredths
<1>1. x # NaN /\ x >= 0 /\ x <= 100000
  BY DEF Percent, Below, Above, FormatFloat
<1> QED
  BY <1>1, Rounding DEF FormatFloat

\* One that is not above zero is zero.
LEMMA RoundedZero ==
  ASSUME NEW x \in Int, Percent(x), FormatFloat(x) # NaN, ~Above(x, 0)
  PROVE  FormatFloat(x) = 0
<1>1. x # NaN /\ x = 0
  BY DEF Percent, Below, Above, FormatFloat
<1> QED
  BY <1>1 DEF FormatFloat

\* Two words put together by the builders.
LEMMA Joined2 ==
  ASSUME NEW a, NEW b
  PROVE  <<a>> \o <<b>> = <<a, b>>
<1> DEFINE S == {a, b}  s == <<a>> \o <<b>>  t == <<a, b>>
<1>1. s \in Seq(S) /\ t \in Seq(S) /\ Len(s) = 2 /\ Len(t) = 2
  OBVIOUS
<1>2. s[1] = t[1] /\ s[2] = t[2] /\ \A i \in 1..2 : i = 1 \/ i = 2
  OBVIOUS
<1> HIDE DEF s, t, S
<1>3. s = t
  BY <1>1, <1>2, SeqEqual
<1> QED
  BY <1>3 DEF s, t

\* Three.
LEMMA Joined3 ==
  ASSUME NEW a, NEW b, NEW c
  PROVE  <<a, b>> \o <<c>> = <<a, b, c>>
<1> DEFINE S == {a, b, c}  s == <<a, b>> \o <<c>>  t == <<a, b, c>>
<1>1. s \in Seq(S) /\ t \in Seq(S) /\ Len(s) = 3 /\ Len(t) = 3
  OBVIOUS
<1>2. s[1] = t[1] /\ s[2] = t[2] /\ s[3] = t[3] /\ \A i \in 1..3 : i = 1 \/ i = 2 \/ i = 3
  OBVIOUS
<1> HIDE DEF s, t, S
<1>3. s = t
  BY <1>1, <1>2, SeqEqual
<1> QED
  BY <1>3 DEF s, t

\* Four.
LEMMA Joined4 ==
  ASSUME NEW a, NEW b, NEW c, NEW d
  PROVE  <<a, b, c>> \o <<d>> = <<a, b, c, d>>
<1> DEFINE S == {a, b, c, d}  s == <<a, b, c>> \o <<d>>  t == <<a, b, c, d>>
<1>1. s \in Seq(S) /\ t \in Seq(S) /\ Len(s) = 4 /\ Len(t) = 4
  OBVIOUS
<1>2. /\ s[1] = t[1] /\ s[2] = t[2] /\ s[3] = t[3] /\ s[4] = t[4]
      /\ \A i \in 1..4 : i = 1 \/ i = 2 \/ i = 3 \/ i = 4
  OBVIOUS
<1> HIDE DEF s, t, S
<1>3. s = t
  BY <1>1, <1>2, SeqEqual
<1> QED
  BY <1>3 DEF s, t

\* The elements of one word.
LEMMA Elements1 == ASSUME NEW a PROVE ToSet(<<a>>) = {a}
BY DEF ToSet

\* Two words.
LEMMA Elements2 == ASSUME NEW a, NEW b PROVE ToSet(<<a, b>>) = {a, b}
BY DEF ToSet

\* loss, duplicate and corrupt: a correlation that is left out is zero.
LEMMA PercentAsAsked ==
  ASSUME NEW i, Typed(i), Build(i), i.cmd \in {"loss", "duplicate", "corrupt"},
         NaN \notin ToSet(Asked(i))
  PROVE  /\ ToSet(buildCmd(i)) \subseteq Hundredths
         /\ \A k \in DOMAIN Asked(i) : Reads(buildCmd(i), k) = Asked(i)[k]
<1> PICK p : p = i.o.percent
  OBVIOUS
<1> PICK c : c = i.o.correlation
  OBVIOUS
<1>1. p \in Int /\ c \in Int /\ Percent(p) /\ Percent(c)
  BY DEF Typed, Build, NewLossCommand, NewDuplicateCommand, NewCorruptCommand
<1>2. /\ DOMAIN Asked(i) = 1..2
      /\ Asked(i)[1] = FormatFloat(p) /\ Asked(i)[2] = FormatFloat(c)
  BY DEF Asked, Words
<1>3. FormatFloat(p) # NaN /\ FormatFloat(c) # NaN
  BY <1>2 DEF ToSet
<1>4. buildCmd(i) = <<FormatFloat(p)>> \o When(Above(c, 0), FormatFloat(c))
  BY DEF buildCmd, percentCmd
<1>5. FormatFloat(p) \in Hundredths
  BY <1>1, <1>3, RoundedPercent
<1>8. FormatFloat(c) \in Hundredths
  BY <1>1, <1>3, RoundedPercent
<1>9. ~Above(c, 0) => FormatFloat(c) = 0
  BY <1>1, <1>3, RoundedZero
<1> PICK w : w = buildCmd(i)
  OBVIOUS
<1> PICK f : f = FormatFloat(p)
  OBVIOUS
<1> PICK g : g = FormatFloat(c)
  OBVIOUS
<1>10. \A k \in 1..2 : k = 1 \/ k = 2
  OBVIOUS
<1>6. CASE Above(c, 0)
  <2>1. w = <<f>> \o <<g>>
    BY <1>4, <1>6 DEF When
  <2>2. w = <<f, g>>
    BY <2>1, Joined2
  <2>3. ToSet(w) = {f, g}
    BY <2>2, Elements2
  <2>4. Reads(w, 1) = f /\ Reads(w, 2) = g
    BY <2>2 DEF Reads
  <2>5. ToSet(w) \subseteq Hundredths
    BY <1>5, <1>8, <2>3
  <2> QED
    BY <1>2, <1>10, <2>4, <2>5
<1>7. CASE ~Above(c, 0)
  <2>1. w = <<f>> \o <<>>
    BY <1>4, <1>7 DEF When
  <2>2. w = <<f>>
    BY <2>1
  <2>3. ToSet(w) = {f}
    BY <2>2, Elements1
  <2>4. Reads(w, 1) = f /\ Reads(w, 2) = g
    BY <1>7, <1>9, <2>2 DEF Reads
  <2>5. ToSet(w) \subseteq Hundredths
    BY <1>5, <2>3
  <2> QED
    BY <1>2, <1>10, <2>4, <2>5
<1> QED
  BY <1>6, <1>7

\* Rounded one by one, percentages stay percentages.
LEMMA RoundedWords ==
  ASSUME NEW xs, \A k \in DOMAIN xs : xs[k] \in Int /\ Percent(xs[k]),
         NaN \notin ToSet(Words(xs))
  PROVE  ToSet(Words(xs)) \subseteq Hundredths
<1>1. ASSUME NEW k \in DOMAIN xs
      PROVE  FormatFloat(xs[k]) \in Hundredths
  <2>1. FormatFloat(xs[k]) # NaN
    BY DEF Words, ToSet
  <2>2. xs[k] \in Int /\ Percent(xs[k])
    OBVIOUS
  <2> PICK x : x = xs[k]
    OBVIOUS
  <2>3. FormatFloat(x) \in Hundredths
    BY <2>1, <2>2, RoundedPercent
  <2> QED
    BY <2>3
<1> QED
  BY <1>1 DEF Words, ToSet

\* loss-state and loss-gemodel: every number is passed on.
LEMMA ModelAsAsked ==
  ASSUME NEW i, Typed(i), Build(i), i.cmd \in {"loss-state", "loss-gemodel"},
         NaN \notin ToSet(Asked(i))
  PROVE  /\ ToSet(buildCmd(i)) \subseteq Hundredths
         /\ \A k \in DOMAIN Asked(i) : Reads(buildCmd(i), k) = Asked(i)[k]
<1>1. buildCmd(i) = Asked(i)
  BY DEF buildCmd, Asked, lossStateCmd, lossGECmd
<1>2. ToSet(Asked(i)) \subseteq Hundredths
  <2>1. CASE i.cmd = "loss-state"
    <3> PICK xs : xs = <<i.o.p13, i.o.p31, i.o.p32, i.o.p23, i.o.p14>>
      OBVIOUS
    <3>1. Asked(i) = Words(xs)
      BY <2>1 DEF Asked
    <3>2. /\ i.o.p13 \in Int /\ i.o.p31 \in Int /\ i.o.p32 \in Int
          /\ i.o.p23 \in Int /\ i.o.p14 \in Int
      BY <2>1 DEF Typed
    <3>3. NewLossStateCommand(i.o)
      BY <2>1 DEF Build
    <3>4. \A k \in 1..5 : k = 1 \/ k = 2 \/ k = 3 \/ k = 4 \/ k = 5
      OBVIOUS
    <3>5. \A k \in DOMAIN xs : xs[k] \in Int /\ Percent(xs[k])
      BY <3>2, <3>3, <3>4 DEF NewLossStateCommand
    <3> QED
      BY <3>1, <3>5, RoundedWords
  <2>2. CASE i.cmd = "loss-gemodel"
    <3> PICK xs : xs = <<i.o.pg, i.o.pb, i.o.oneH, i.o.oneK>>
      OBVIOUS
    <3>1. Asked(i) = Words(xs)
      BY <2>2 DEF Asked
    <3>2. i.o.pg \in Int /\ i.o.pb \in Int /\ i.o.oneH \in Int /\ i.o.oneK \in Int
      BY <2>2 DEF Typed
    <3>3. NewLossGECommand(i.o)
      BY <2>2 DEF Build
    <3>4. \A k \in 1..4 : k = 1 \/ k = 2 \/ k = 3 \/ k = 4
      OBVIOUS
    <3>5. \A k \in DOMAIN xs : xs[k] \in Int /\ Percent(xs[k])
      BY <3>2, <3>3, <3>4 DEF NewLossGECommand
    <3> QED
      BY <3>1, <3>5, RoundedWords
  <2> QED
    BY <2>1, <2>2
<1> QED
  BY <1>1, <1>2 DEF Reads

\* delay: the jitter is within the delay, and without a gap tc reads it and the
\* correlation where it looks for them.
LEMMA DelayAsAsked ==
  ASSUME NEW i, Typed(i), Build(i), i.cmd = "delay", NaN \notin ToSet(Asked(i))
  PROVE  /\ buildCmd(i)[1] > 0 /\ i.o.jitter <= buildCmd(i)[1]
         /\ ~Gap(Asked(i)) =>
              \A k \in DOMAIN Asked(i) : Reads(buildCmd(i), k) = Asked(i)[k]
<1> PICK t : t = i.o.time
  OBVIOUS
<1> PICK j : j = i.o.jitter
  OBVIOUS
<1> PICK c : c = i.o.correlation
  OBVIOUS
<1>1. t \in Int /\ j \in Int /\ c \in Int
  BY DEF Typed
<1>2. NewDelayCommand(i.o)
  BY DEF Build
<1>3. t > 0 /\ j \in 0..t /\ Percent(c)
  BY <1>2 DEF NewDelayCommand
<1> PICK g : g = FormatFloat(c)
  OBVIOUS
<1>4. Asked(i) = <<t, j, g>>
  BY DEF Asked
<1>5. g # NaN
  BY <1>4 DEF ToSet
<1>6. ~Above(c, 0) => g = 0
  BY <1>1, <1>3, <1>5, RoundedZero
<1>7. buildCmd(i) = <<t>> \o When(j > 0, j) \o When(Above(c, 0), g)
  BY DEF buildCmd, delayCmd
<1> PICK w : w = buildCmd(i)
  OBVIOUS
<1> PICK q : q = Asked(i)
  OBVIOUS
<1>8. DOMAIN q = 1..3 /\ q[1] = t /\ q[2] = j /\ q[3] = g
  BY <1>4
<1>9. \A k \in 1..3 : k = 1 \/ k = 2 \/ k = 3
  OBVIOUS
<1>10. SUFFICES /\ w[1] = t
                /\ ~Gap(q) => Reads(w, 1) = t /\ Reads(w, 2) = j /\ Reads(w, 3) = g
  BY <1>1, <1>3, <1>8, <1>9
<1>11. CASE j > 0 /\ Above(c, 0)
  <2>1. w = <<t>> \o <<j>> \o <<g>>
    BY <1>7, <1>11 DEF When
  <2>2. w = <<t, j>> \o <<g>>
    BY <2>1, Joined2
  <2>3. w = <<t, j, g>>
    BY <2>2, Joined3
  <2> QED
    BY <2>3 DEF Reads
<1>12. CASE j > 0 /\ ~Above(c, 0)
  <2>1. w = <<t>> \o <<j>> \o <<>>
    BY <1>7, <1>12 DEF When
  <2>2. w = <<t, j>> \o <<>>
    BY <2>1, Joined2
  <2>3. w = <<t, j>>
    BY <2>2
  <2> QED
    BY <1>6, <1>12, <2>3 DEF Reads
<1>13. CASE ~(j > 0) /\ ~Above(c, 0)
  <2>1. w = <<t>> \o <<>> \o <<>>
    BY <1>7, <1>13 DEF When
  <2>2. w = <<t>>
    BY <2>1
  <2>3. j = 0
    BY <1>1, <1>3, <1>13
  <2> QED
    BY <1>6, <1>13, <2>2, <2>3 DEF Reads
<1>14. CASE ~(j > 0) /\ Above(c, 0)
  <2>1. w = <<t>> \o <<>> \o <<g>>
    BY <1>7, <1>14 DEF When
  <2>2. w = <<t>> \o <<g>>
    BY <2>1
  <2>3. w = <<t, g>>
    BY <2>2, Joined2
  <2>4. j = 0
    BY <1>1, <1>3, <1>14
  <2>5. ~Gap(q) => g = 0
    <3> SUFFICES ASSUME g # 0
                 PROVE  Gap(q)
      OBVIOUS
    <3>1. 2 \in DOMAIN q /\ 3 \in DOMAIN q /\ 2 < 3 /\ q[2] = 0 /\ q[3] # 0
      BY <1>8, <2>4
    <3> QED
      BY <3>1 DEF Gap
  <2> QED
    BY <2>3, <2>4, <2>5 DEF Reads
<1> QED
  BY <1>11, <1>12, <1>13, <1>14

\* What is appended does not move the first word.
LEMMA FirstWord ==
  ASSUME NEW s \in Seq(Int), NEW t \in Seq(Int), Len(s) > 0
  PROVE  s \o t \in Seq(Int) /\ Len(s \o t) > 0 /\ (s \o t)[1] = s[1]
OBVIOUS

\* rate: the rate is first, and without a gap tc reads the overhead, the cell size and
\* the cell overhead where it looks for them.
LEMMA RateAsAsked ==
  ASSUME NEW i, Typed(i), Build(i), i.cmd = "rate"
  PROVE  /\ buildCmd(i)[1] >= 0
         /\ ~Gap(Asked(i)) =>
              \A k \in DOMAIN Asked(i) : Reads(buildCmd(i), k) = Asked(i)[k]
<1> PICK r : r = i.o.rate
  OBVIOUS
<1> PICK a : a = i.o.packetOverhead
  OBVIOUS
<1> PICK b : b = i.o.cellSize
  OBVIOUS
<1> PICK c : c = i.o.cellOverhead
  OBVIOUS
<1>1. r \in Nat \cup {Blank, Junk} /\ a \in Int /\ b \in Int /\ c \in Int
  BY DEF Typed
<1>2. NewRateCommand(i.o)
  BY DEF Build
<1>3. r \in Nat /\ b >= 0
  BY <1>1, <1>2 DEF NewRateCommand, parseRate
<1>4. Asked(i) = <<r, a, b, c>>
  BY DEF Asked
<1>5. buildCmd(i) = <<r>> \o When(a # 0, a) \o When(b > 0, b) \o When(c # 0, c)
  BY DEF buildCmd, rateCmd
<1> PICK w : w = buildCmd(i)
  OBVIOUS
<1> PICK q : q = Asked(i)
  OBVIOUS
<1>6. DOMAIN q = 1..4 /\ q[1] = r /\ q[2] = a /\ q[3] = b /\ q[4] = c
  BY <1>4
<1>7. \A k \in 1..4 : k = 1 \/ k = 2 \/ k = 3 \/ k = 4
  OBVIOUS
<1>8. w[1] = r
  <2> PICK x : x = When(a # 0, a)
    OBVIOUS
  <2> PICK y : y = When(b > 0, b)
    OBVIOUS
  <2> PICK z : z = When(c # 0, c)
    OBVIOUS
  <2>1. x \in Seq(Int)
    BY <1>1 DEF When
  <2>2. y \in Seq(Int)
    BY <1>1 DEF When
  <2>3. z \in Seq(Int)
    BY <1>1 DEF When
  <2>4. <<r>> \in Seq(Int) /\ Len(<<r>>) > 0 /\ <<r>>[1] = r
    BY <1>3
  <2> PICK u : u = <<r>> \o x
    OBVIOUS
  <2>5. u \in Seq(Int) /\ Len(u) > 0 /\ u[1] = r
    BY <2>1, <2>4, FirstWord
  <2> PICK v : v = u \o y
    OBVIOUS
  <2>6. v \in Seq(Int) /\ Len(v) > 0 /\ v[1] = r
    BY <2>2, <2>5, FirstWord
  <2>7. w = v \o z
    BY <1>5
  <2>8. (v \o z)[1] = v[1]
    BY <2>3, <2>6, FirstWord
  <2> QED
    BY <2>6, <2>7, <2>8
<1>9. ASSUME ~Gap(q)
      PROVE  Reads(w, 1) = r /\ Reads(w, 2) = a /\ Reads(w, 3) = b /\ Reads(w, 4) = c
  <2>1. a = 0 => b = 0 /\ c = 0
    BY <1>6, <1>9 DEF Gap
  <2>2. b = 0 => c = 0
    BY <1>6, <1>9 DEF Gap
  <2>3. CASE a = 0
    <3>3. ~(a # 0) /\ ~(b > 0) /\ ~(c # 0)
      BY <2>1, <2>3
    <3>1. w = <<r>> \o <<>> \o <<>> \o <<>>
      BY <1>5, <3>3 DEF When
    <3>2. w = <<r>>
      BY <3>1
    <3> QED
      BY <2>1, <2>3, <3>2 DEF Reads
  <2>4. CASE a # 0 /\ b = 0
    <3>1. w = <<r>> \o <<a>> \o <<>> \o <<>>
      BY <1>5, <2>2, <2>4 DEF When
    <3>2. w = <<r, a>> \o <<>> \o <<>>
      BY <3>1, Joined2
    <3>3. w = <<r, a>>
      BY <3>2
    <3> QED
      BY <2>2, <2>4, <3>3 DEF Reads
  <2>5. CASE a # 0 /\ b # 0 /\ c = 0
    <3>1. b > 0
      BY <1>1, <1>3, <2>5
    <3>2. w = <<r>> \o <<a>> \o <<b>> \o <<>>
      BY <1>5, <2>5, <3>1 DEF When
    <3>3. w = <<r, a>> \o <<b>> \o <<>>
      BY <3>2, Joined2
    <3>4. w = <<r, a, b>> \o <<>>
      BY <3>3, Joined3
    <3>5. w = <<r, a, b>>
      BY <3>4
    <3> QED
      BY <2>5, <3>5 DEF Reads
  <2>6. CASE a # 0 /\ b # 0 /\ c # 0
    <3>1. b > 0
      BY <1>1, <1>3, <2>6
    <3>2. w = <<r>> \o <<a>> \o <<b>> \o <<c>>
      BY <1>5, <2>6, <3>1 DEF When
    <3>3. w = <<r, a>> \o <<b>> \o <<c>>
      BY <3>2, Joined2
    <3>4. w = <<r, a, b>> \o <<c>>
      BY <3>3, Joined3
    <3>5. w = <<r, a, b, c>>
      BY <3>4, Joined4
    <3> QED
      BY <3>5 DEF Reads
  <2> QED
    BY <2>3, <2>4, <2>5, <2>6
<1> QED
  BY <1>3, <1>6, <1>7, <1>8, <1>9

\* iptables: a probability, or a counter below every.
LEMMA IPTablesAsAsked ==
  ASSUME NEW i, Typed(i), Build(i), i.cmd = "iptables", NaN \notin ToSet(Asked(i))
  PROVE  /\ IF i.o.mode = "random" THEN buildCmd(i)[1] \in 0..100
            ELSE buildCmd(i)[2] \in 0..buildCmd(i)[1] - 1
         /\ \A k \in DOMAIN Asked(i) : Reads(buildCmd(i), k) = Asked(i)[k]
<1>1. buildCmd(i) = Asked(i)
  BY DEF buildCmd, Asked, iptablesCmd
<1>2. NewIPTablesLossCommand(i.o)
  BY DEF Build
<1>3. CASE i.o.mode = "random"
  <2> PICK p : p = i.o.probability
    OBVIOUS
  <2>1. p \in Int /\ ~Below(p, 0) /\ ~Above(p, 1000)
    BY <1>2, <1>3 DEF Typed, NewIPTablesLossCommand
  <2>2. buildCmd(i) = <<FormatFloat(p)>>
    BY <1>3 DEF buildCmd, iptablesCmd
  <2>3. FormatFloat(p) # NaN
    BY <1>1, <2>2 DEF ToSet
  <2>4. p # NaN /\ p >= 0 /\ p <= 1000
    BY <2>1, <2>3 DEF FormatFloat, Below, Above
  <2>5. FormatFloat(p) = (p + 5) \div 10
    BY <2>4 DEF FormatFloat
  <2>6. (p + 5) \div 10 \in 0..100
    BY <2>1, <2>4
  <2>7. buildCmd(i)[1] \in 0..100
    BY <2>2, <2>5, <2>6
  <2> QED
    BY <1>1, <1>3, <2>7 DEF Reads
<1>4. CASE i.o.mode # "random"
  <2> PICK e : e = i.o.every
    OBVIOUS
  <2> PICK n : n = i.o.packet
    OBVIOUS
  <2>1. e \in Int /\ n \in Int
    BY DEF Typed
  <2>2. e > 0 /\ n >= 0 /\ n <= e - 1
    BY <1>2, <1>4 DEF NewIPTablesLossCommand
  <2>3. buildCmd(i) = <<e, n>>
    BY <1>4 DEF buildCmd, iptablesCmd
  <2>4. n \in 0..e - 1
    BY <2>1, <2>2
  <2>5. buildCmd(i)[2] \in 0..buildCmd(i)[1] - 1
    BY <2>3, <2>4
  <2> QED
    BY <1>1, <1>4, <2>5 DEF Reads
<1> QED
  BY <1>3, <1>4

(***************************************************************************)
(* What reaches tc and iptables is legal and is what was asked, for every  *)
(* command line: what runs was built from it (InvParsed), and each builder *)
(* is right about what its constructor lets pass.                          *)
(***************************************************************************)
THEOREM CommandAsAskedHolds == Spec => []CommandAsAsked
<1>1. ASSUME InvParsed, calls > 0
      PROVE  Typed(inv) /\ Build(inv) /\ req.words = buildCmd(inv)
  <2> PICK s \in Scenarios : inv = s.inv
    BY <1>1 DEF InvParsed
  <2>1. Typed(s.inv)
    BY StartupAssumption
  <2>2. Build(inv) /\ req = Request(inv)
    BY <1>1 DEF InvParsed
  <2> QED
    BY <2>1, <2>2 DEF Request
<1>2. ASSUME InvParsed
      PROVE  ReadInPlace
  <2> SUFFICES ASSUME calls > 0, inv.cmd \in NetCommands, NaN \notin ToSet(Asked(inv)),
                      inv.cmd \in {"delay", "rate"} => ~Gap(Asked(inv))
               PROVE  \A k \in DOMAIN Asked(inv) : Reads(req.words, k) = Asked(inv)[k]
    BY DEF ReadInPlace
  <2>1. Typed(inv) /\ Build(inv) /\ req.words = buildCmd(inv)
    BY <1>1, <1>2
  <2>2. CASE inv.cmd \in {"loss", "duplicate", "corrupt"}
    BY <2>1, <2>2, PercentAsAsked
  <2>3. CASE inv.cmd \in {"loss-state", "loss-gemodel"}
    BY <2>1, <2>3, ModelAsAsked
  <2>4. CASE inv.cmd = "delay"
    BY <2>1, <2>4, DelayAsAsked
  <2>5. CASE inv.cmd = "rate"
    BY <2>1, <2>5, RateAsAsked
  <2>6. CASE inv.cmd = "iptables"
    BY <2>1, <2>6, IPTablesAsAsked
  <2> QED
    BY <2>2, <2>3, <2>4, <2>5, <2>6 DEF NetCommands, NetemCommands
<1>3. ASSUME InvParsed
      PROVE  WordsAreLegal
  <2> SUFFICES ASSUME calls > 0, NaN \notin ToSet(Asked(inv))
               PROVE  WordsAreLegal
    BY DEF WordsAreLegal
  <2>1. Typed(inv) /\ Build(inv) /\ req.words = buildCmd(inv)
    BY <1>1, <1>3
  <2>2. ASSUME inv.cmd \in {"loss", "duplicate", "corrupt", "loss-state", "loss-gemodel"}
        PROVE  ToSet(req.words) \subseteq 0..10000
    <3>1. inv.cmd \in {"loss", "duplicate", "corrupt"} =>
            ToSet(buildCmd(inv)) \subseteq Hundredths
      BY <2>1, PercentAsAsked
    <3>2. inv.cmd \in {"loss-state", "loss-gemodel"} =>
            ToSet(buildCmd(inv)) \subseteq Hundredths
      BY <2>1, ModelAsAsked
    <3> QED
      BY <2>1, <2>2, <3>1, <3>2 DEF Hundredths
  <2>3. inv.cmd = "delay" => req.words[1] > 0 /\ inv.o.jitter <= req.words[1]
    BY <2>1, DelayAsAsked
  <2>4. inv.cmd = "rate" => req.words[1] >= 0
    BY <2>1, RateAsAsked
  <2>5. inv.cmd = "iptables" => IF inv.o.mode = "random" THEN req.words[1] \in 0..100
                                ELSE req.words[2] \in 0..req.words[1] - 1
    BY <2>1, IPTablesAsAsked
  <2> QED
    BY <2>2, <2>3, <2>4, <2>5 DEF WordsAreLegal
<1>4. InvParsed => CommandAsAsked
  BY <1>2, <1>3 DEF CommandAsAsked
<1> QED
  BY ParsedInductive, <1>4, PTL

-----------------------------------------------------------------------------
(* Whom chaos reaches *)

\* What calls is a client, and not one that could not list what was asked for.
InvListed ==
  /\ pc \in {"action", "ticker", "run"} => client # "none"
  /\ calls > 0 => client # "none" /\ ~NotListed

\* Only RunOnce calls, after the listing.
LEMMA ListedPreserved ==
  ASSUME IInv, InvParsed, InvListed, [Next]_vars
  PROVE  InvListed'
<1> USE DEF InvListed, NotListed
<1>0. pc = "before" => ~(calls > 0)
  BY DEF IInv, Quiescent
<1>1. CASE CreateDocker \/ CreateContainerd \/ UnsupportedRuntime
  BY <1>0, <1>1 DEF CreateDocker, CreateContainerd, UnsupportedRuntime, Ends
<1>2. CASE CreatePodman
  BY <1>0, <1>2 DEF CreatePodman, Ends
<1>3. CASE Action
  BY <1>3 DEF Action, Ends, IInv, Quiescent
<1>4. CASE Ticker \/ Interrupted \/ Signal
  BY <1>4 DEF Ticker, Interrupted, Signal, Ends
<1>5. CASE RunOnce
  BY <1>5 DEF RunOnce, Ends
<1>6. CASE After
  BY <1>6 DEF After
<1>7. CASE Flip \/ UNCHANGED vars
  BY <1>7 DEF Flip, own, vars
<1> QED
  BY <1>1, <1>2, <1>3, <1>4, <1>5, <1>6, <1>7 DEF Next, Step

\* The arguments are a sequence of names and expressions.
LEMMA ArgsType ==
  ASSUME InvParsed
  PROVE  inv.args \in Seq([re2 : BOOLEAN, text : STRING])
BY StartupAssumption DEF InvParsed

\* A container the names or the expression select is one that an argument asks for.
LEMMA NamedIsAsked ==
  ASSUME InvParsed, calls > 0, NEW c \in Population, applyContainerFilter(c)
  PROVE  \/ inv.args = <<>> /\ inv.cmd \notin {"kill", "stop", "rm"}
         \/ \E a \in ToSet(inv.args) :
              IF a.re2 THEN a.text \in c.patterns ELSE a.text \in c.names
<1>1. /\ req.names = getNamesOrPattern(inv.args).names
      /\ req.pattern = getNamesOrPattern(inv.args).pattern
      /\ inv.cmd \in RequireArgs => inv.args # <<>>
  BY DEF InvParsed, Request
<1>2. CASE Len(inv.args) = 1 /\ inv.args[1].re2
  <2>1. req.names = <<>> /\ req.pattern = inv.args[1].text
    BY <1>1, <1>2 DEF getNamesOrPattern
  <2>2. inv.args[1] \in ToSet(inv.args)
    BY <1>2, ArgsType DEF ToSet
  <2> QED
    BY <1>2, <2>1, <2>2 DEF applyContainerFilter
<1>3. CASE ~(Len(inv.args) = 1 /\ inv.args[1].re2)
  <2>1. req.names = inv.args
    BY <1>1, <1>3 DEF getNamesOrPattern
  <2>2. CASE inv.args = <<>>
    BY <1>1, <2>2 DEF RequireArgs
  <2>3. CASE inv.args # <<>>
    BY <2>1, <2>3 DEF applyContainerFilter
  <2> QED
    BY <2>2, <2>3
<1> QED
  BY <1>2, <1>3

(***************************************************************************)
(* Chaos never reaches a container the command line does not ask for, on   *)
(* any runtime, for any containers and command line, and the ports that    *)
(* limit it are the ones given, but for a list that begins with a blank.   *)
(***************************************************************************)
THEOREM ScopeHolds == Spec => []ScopeNeverWidens
<1>1. ASSUME InvParsed, calls > 0
      PROVE  PortScope
  <2>1. req.sports = GetPorts(inv.sports) /\ req.dports = GetPorts(inv.dports)
    BY <1>1 DEF InvParsed, Request
  <2> QED
    BY <2>1 DEF PortScope, GetPorts
<1>2. ASSUME InvParsed, InvListed, calls > 0, NEW c \in Targets
      PROVE  c \in AskedFor
  <2>1. c \in Population /\ applyContainerFilter(c)
    BY <1>2 DEF Targets
  <2>2. req.labels \subseteq c.labels
    <3>1. client = "containerd" => req.labels = {}
      BY <1>2 DEF InvListed, NotListed
    <3>2. client \in {"docker", "podman", "containerd"}
      BY <1>2 DEF InvListed, InvParsed
    <3> QED
      BY <1>2, <3>1, <3>2 DEF Targets
  <2>3. req.labels = splitLabels(inv.labels)
    BY <1>2 DEF InvParsed, Request
  <2>4. ASSUME NEW l \in ToSet(inv.labels), NEW x \in ToSet(l), x # ""
        PROVE  x \in c.labels
    BY <2>2, <2>3, <2>4 DEF splitLabels
  <2>5. ~c.skip
    BY <2>1 DEF applyContainerFilter
  <2>6. \/ inv.args = <<>> /\ inv.cmd \notin {"kill", "stop", "rm"}
        \/ \E a \in ToSet(inv.args) :
             IF a.re2 THEN a.text \in c.patterns ELSE a.text \in c.names
    BY <1>2, <2>1, NamedIsAsked
  <2> QED
    BY <2>1, <2>4, <2>5, <2>6 DEF AskedFor
<1>3. InvParsed /\ InvListed => ScopeNeverWidens
  BY <1>1, <1>2 DEF ScopeNeverWidens
<1>4. Init => InvListed
  BY DEF Init, InvListed
<1>5. IInv /\ InvParsed /\ InvListed /\ [Next]_vars => InvListed'
  BY ListedPreserved
<1> QED
  BY Inductive, ParsedInductive, <1>3, <1>4, <1>5, PTL DEF Spec
=============================================================================
