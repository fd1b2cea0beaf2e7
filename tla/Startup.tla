------------------------------ MODULE Startup ------------------------------
(***************************************************************************)
(* One invocation of pumba (cmd/main.go, cmd/runtime.go, the action built  *)
(* by pkg/chaos/cmd/builder.go): before makes the runtime client, the      *)
(* action parses, builds and runs the command, after closes the client.    *)
(* PodmanClient is podman's NewClient, Parameters the parsing; ChaosRunner *)
(* has the loop in detail, which is here the calls it makes.               *)
(***************************************************************************)
EXTENDS PodmanClient, Parameters

CONSTANTS
  Scenarios,  \* command lines, each with a world
  Population, \* the containers the runtime has
  MaxCalls    \* how many runs of a recurring command are followed

\* The options of the network commands are numbers, as their flags are; parseRate has
\* no sign to read.
Typed(i) ==
  /\ i.cmd = "delay" => {i.o.time, i.o.jitter, i.o.correlation} \subseteq Int
  /\ i.cmd \in {"loss", "duplicate", "corrupt"} => {i.o.percent, i.o.correlation} \subseteq Int
  /\ i.cmd = "loss-state" => {i.o.p13, i.o.p31, i.o.p32, i.o.p23, i.o.p14} \subseteq Int
  /\ i.cmd = "loss-gemodel" => {i.o.pg, i.o.pb, i.o.oneH, i.o.oneK} \subseteq Int
  /\ i.cmd = "rate" => /\ i.o.rate \in Nat \cup {Blank, Junk}
                       /\ {i.o.packetOverhead, i.o.cellSize, i.o.cellOverhead} \subseteq Int
  /\ i.cmd = "iptables" => {i.o.probability, i.o.every, i.o.packet} \subseteq Int

(***************************************************************************)
(* A container: the texts that are its name or its id, the expressions     *)
(* that match its name (the empty one does), the label filters it meets,   *)
(* and whether it is pumba or labelled to be skipped.                      *)
(***************************************************************************)
Container(c) ==
  /\ DOMAIN c = {"names", "patterns", "labels", "skip"}
  /\ "" \in c.patterns /\ c.skip \in BOOLEAN

\* A world is one a machine can be in: where podman serves there is a socket to find.
ASSUME StartupAssumption ==
  /\ MaxCalls \in Nat
  /\ \A s \in Scenarios : /\ s.world.serving \subseteq s.world.files
                          /\ s.world.files \subseteq s.world.endpoints
                          /\ "" \notin s.world.endpoints
                          /\ Typed(s.inv)
                          /\ s.inv.args \in Seq([re2 : BOOLEAN, text : STRING])
  /\ \A c \in Population : Container(c)

VARIABLES
  inv,        \* the command line
  pc,
  client,     \* runtimeClient: none, docker, containerd, podman
  conn,       \* containerd's connection
  req,        \* what the action parsed
  calls,      \* calls that reached the engine: chaos of the netem kind or not
  result,     \* what app.Run returns
  cancelled   \* SIGINT or SIGTERM arrived

own == <<inv, pc, client, conn, req, calls, result, cancelled>>

vars == <<podVars, own>>

NoReq == [names |-> <<>>, pattern |-> "", labels |-> {}, sports |-> <<>>, dports |-> <<>>,
          words |-> <<>>]

Init ==
  /\ \E s \in Scenarios : PodInit(s.world) /\ inv = s.inv
  /\ pc = "before" /\ client = "none" /\ conn = "none" /\ req = NoReq
  /\ calls = 0 /\ result = "none" /\ cancelled = FALSE

\* The result is swallowed.
Ends_DefectSwallowed(r) == pc' = "after" /\ result' = "none"

\* app.Run is over but for After.
Ends(r) == pc' = "after" /\ result' = r

-----------------------------------------------------------------------------
(* Before *)

\* With --tls or --tlsverify a file cannot be read, or a key pair does not parse.  A CA
\* that does not parse and half a key pair are dropped without an error.
tlsConfigFails(t) ==
  /\ t.tls \/ t.verify
  /\ t.ca = "nofile" \/ (t.cert # "" /\ t.key # "" /\ "broken" \in {t.cert, t.key})

\* docker.NewClient connects to nothing yet.
CreateDocker ==
  /\ pc = "before" /\ inv.runtime = "docker"
  /\ \/ /\ ~tlsConfigFails(inv.tls)
        /\ client' = "docker" /\ pc' = "action"
        /\ UNCHANGED <<result, faults>>
     \/ /\ IF tlsConfigFails(inv.tls) THEN UNCHANGED faults ELSE CallFails
        /\ Ends("error") /\ UNCHANGED client
  /\ UNCHANGED <<world, files, serving, flips, step, cand, uri, api, rootless, inv, conn,
                 req, calls, cancelled>>

CreateContainerd ==
  /\ pc = "before" /\ inv.runtime = "containerd"
  /\ \/ conn' = "open" /\ client' = "containerd" /\ pc' = "action" /\ UNCHANGED <<result, faults>>
     \/ CallFails /\ Ends("error") /\ UNCHANGED <<conn, client>>
  /\ UNCHANGED <<world, files, serving, flips, step, cand, uri, api, rootless, inv,
                 req, calls, cancelled>>

\* podman.NewClient, step by step.
CreatePodman ==
  /\ pc = "before" /\ inv.runtime = "podman"
  /\ \/ NewClient /\ UNCHANGED <<pc, client, result>>
     \/ step = "ready" /\ client' = "podman" /\ pc' = "action" /\ UNCHANGED <<podVars, result>>
     \/ step = "failed" /\ Ends("error") /\ UNCHANGED <<podVars, client>>
  /\ UNCHANGED <<inv, conn, req, calls, cancelled>>

UnsupportedRuntime ==
  /\ pc = "before" /\ inv.runtime \notin {"docker", "containerd", "podman"}
  /\ Ends("error")
  /\ UNCHANGED <<podVars, inv, client, conn, req, calls, cancelled>>

-----------------------------------------------------------------------------
(* The action *)

Request(i) ==
  [names |-> getNamesOrPattern(i.args).names, pattern |-> getNamesOrPattern(i.args).pattern,
   labels |-> splitLabels(i.labels), words |-> buildCmd(i),
   sports |-> GetPorts(i.sports), dports |-> GetPorts(i.dports)]

\* NewAction's closure up to RunChaosCommand.
Action ==
  /\ pc = "action"
  /\ IF (inv.cmd \in RequireArgs => inv.args # <<>>) /\ Parse(inv) /\ Build(inv)
     THEN req' = Request(inv) /\ pc' = "ticker" /\ UNCHANGED result
     ELSE Ends("error") /\ UNCHANGED req
  /\ UNCHANGED <<podVars, inv, client, conn, calls, cancelled>>

\* RunChaosCommand makes its timer or ticker: NewTicker panics on a negative interval.
Ticker ==
  /\ pc = "ticker"
  /\ IF inv.interval < 0 THEN Ends("panic") ELSE pc' = "run" /\ UNCHANGED result
  /\ UNCHANGED <<podVars, inv, client, conn, req, calls, cancelled>>

\* The guard of stress alone is missing.
Refuses_DefectNoStress == rootless /\ inv.cmd \in NetCommands

\* podmanClient's guards; stress looks at --dry-run first.
Refuses ==
  /\ client = "podman" /\ rootless
  /\ inv.cmd \in NetCommands \/ (inv.cmd = "stress" /\ ~inv.dry)

\* matchNames and matchPattern of the listing's filter: names before pattern.
applyContainerFilter(c) ==
  /\ ~c.skip
  /\ IF req.names # <<>> THEN \E a \in ToSet(req.names) : ~a.re2 /\ a.text \in c.names
     ELSE req.pattern \in c.patterns

\* containerd cannot list by label and refuses to.
NotListed == client = "containerd" /\ req.labels # {}

\* Those the listing returns: docker and podman narrow it by label themselves.
Targets ==
  {c \in Population :
     /\ applyContainerFilter(c)
     /\ client \in {"docker", "podman"} => req.labels \subseteq c.labels}

\* One run of the command on its targets, without --skip-error; with no interval it is
\* the last.
RunOnce ==
  /\ pc = "run" /\ calls < MaxCalls
  /\ \/ NotListed /\ Ends("error") /\ UNCHANGED <<calls, faults>>
     \/ ~NotListed /\ Refuses /\ Targets # {} /\ Ends("error") /\ UNCHANGED <<calls, faults>>
     \/ /\ ~NotListed /\ (Refuses => Targets = {})
        /\ calls' = IF inv.dry \/ Targets = {} THEN calls ELSE calls + 1
        /\ \/ /\ UNCHANGED faults
              /\ IF inv.interval = 0 THEN Ends("ok") ELSE UNCHANGED <<pc, result>>
           \/ CallFails /\ Ends("error")
  /\ UNCHANGED <<world, files, serving, flips, step, cand, uri, api, rootless, inv, client,
                 conn, req, cancelled>>

\* The select sees the signal between two runs.
Interrupted ==
  /\ pc = "run" /\ cancelled /\ inv.interval # 0 /\ Ends("ok")
  /\ UNCHANGED <<podVars, inv, client, conn, req, calls, cancelled>>

-----------------------------------------------------------------------------
(* After *)

\* After runs however app.Run ended; closing the docker client does nothing.
After ==
  /\ pc = "after" /\ pc' = "exit"
  /\ IF client = "podman" THEN ClosePodman ELSE UNCHANGED podVars
  /\ conn' = IF client = "containerd" THEN "closed" ELSE conn
  /\ UNCHANGED <<inv, client, req, calls, result, cancelled>>

\* handleSignals cancels the context; nothing looks at it before the loop does.
Signal ==
  /\ ~cancelled /\ cancelled' = TRUE
  /\ UNCHANGED <<podVars, inv, pc, client, conn, req, calls, result>>

Flip == pc # "exit" /\ inv.runtime = "podman" /\ SocketFlips /\ UNCHANGED own

Step ==
  \/ CreateDocker \/ CreateContainerd \/ CreatePodman \/ UnsupportedRuntime
  \/ Action \/ Ticker \/ RunOnce \/ Interrupted \/ After

Next == Step \/ Signal \/ Flip

\* pumba runs, calls return and no fault is forced.  A loop sees a signal in the end.
Spec ==
  /\ Init /\ [][Next]_vars
  /\ WF_vars(Step /\ UNCHANGED faults) /\ WF_vars(Interrupted)

-----------------------------------------------------------------------------
(* Properties *)

\* The type of the state.
TypeOK ==
  /\ PodTypeOK
  /\ pc \in {"before", "action", "ticker", "run", "after", "exit"}
  /\ client \in {"none", "docker", "containerd", "podman"}
  /\ conn \in {"none", "open", "closed"} /\ calls \in 0..MaxCalls
  /\ DOMAIN req = DOMAIN NoReq
  /\ result \in {"none", "ok", "error", "panic"} /\ cancelled \in BOOLEAN
  /\ (pc \in {"after", "exit"}) <=> (result # "none")

(***************************************************************************)
(* However pumba ends, by success, error, panic or a start that failed     *)
(* half-way, no connection it opened is left open: NewClient closes the    *)
(* api client on its error paths, After what became the runtime client.    *)
(***************************************************************************)
ConnectionsClosed == pc = "exit" => api # "open" /\ conn # "open"

(***************************************************************************)
(* No chaos that needs privileges reaches a rootless podman: whichever     *)
(* candidate led to the endpoint, /info told, and the guards refuse.       *)
(***************************************************************************)
RootlessNeverInjects ==
  client = "podman" /\ uri.at \in world.rootless /\ inv.cmd \in NetCommands \cup {"stress"} =>
    calls = 0

\* The ports that limit chaos on the network are the ones given; a filter is lost only if
\* its list begins with a blank.
PortScope ==
  \A s \in {<<inv.sports, req.sports>>, <<inv.dports, req.dports>>} :
    inv.cmd \in NetCommands => s[2] = s[1] \/ (s[2] = <<>> /\ Head(s[1]) = Blank)

(***************************************************************************)
(* The containers the command line asks for, read off it and nothing else: *)
(* not to be skipped, meeting every part of every --label that is not      *)
(* blank, and named by an argument or matched by its expression.  No       *)
(* argument asks for every container, but not for kill, stop and rm.       *)
(***************************************************************************)
AskedFor ==
  {c \in Population :
     /\ ~c.skip
     /\ \A l \in ToSet(inv.labels) : \A x \in ToSet(l) : x = "" \/ x \in c.labels
     /\ \/ inv.args = <<>> /\ inv.cmd \notin {"kill", "stop", "rm"}
        \/ \E a \in ToSet(inv.args) :
             IF a.re2 THEN a.text \in c.patterns ELSE a.text \in c.names}

(***************************************************************************)
(* Chaos never has a wider scope than the command line: every container it *)
(* reaches is one that was asked for, on every runtime, and the ports that *)
(* limit it are the ones given.  Exceptions: blank labels ask for nothing, *)
(* an empty expression for everything, and a port list that begins with a  *)
(* blank is lost.                                                          *)
(***************************************************************************)
ScopeNeverWidens == calls > 0 => Targets \subseteq AskedFor /\ PortScope

\* An argument was left out for being zero although a later one was given.
Gap(asked) == \E j, k \in DOMAIN asked : j < k /\ asked[j] = 0 /\ asked[k] # 0

(***************************************************************************)
(* tc and iptables are told what was asked, to the hundredth: each reads   *)
(* every number where its grammar has it.  Exceptions: delay and rate with *)
(* an argument left out before another one, and NaN.                       *)
(***************************************************************************)
ReadInPlace ==
  LET asked == Asked(inv)
  IN  /\ calls > 0 /\ inv.cmd \in NetCommands /\ NaN \notin ToSet(asked)
      /\ inv.cmd \in {"delay", "rate"} => ~Gap(asked)
      => \A k \in DOMAIN asked : Reads(req.words, k) = asked[k]

(***************************************************************************)
(* What tc is told is legal after the rounding too: percentages between 0  *)
(* and 100, a jitter within the delay, a counter below every.  NaN is the  *)
(* exception: every range check of the constructors lets it pass.          *)
(***************************************************************************)
WordsAreLegal ==
  calls > 0 /\ NaN \notin ToSet(Asked(inv)) =>
    /\ inv.cmd \in {"loss", "duplicate", "corrupt", "loss-state", "loss-gemodel"} =>
         ToSet(req.words) \subseteq 0..10000
    /\ inv.cmd = "delay" => req.words[1] > 0 /\ inv.o.jitter <= req.words[1]
    /\ inv.cmd = "rate" => req.words[1] >= 0
    /\ inv.cmd = "iptables" =>
         IF inv.o.mode = "random" THEN req.words[1] \in 0..100
         ELSE req.words[2] \in 0..req.words[1] - 1

(***************************************************************************)
(* What reaches tc and iptables after the checks, the rounding and the     *)
(* builders is legal and is what was asked, but for the exceptions above.  *)
(***************************************************************************)
CommandAsAsked == ReadInPlace /\ WordsAreLegal

(***************************************************************************)
(* A negative interval ends pumba with a panic before any chaos, and       *)
(* nothing else does.                                                      *)
(***************************************************************************)
PanicTouchesNothing == result = "panic" => calls = 0 /\ inv.interval < 0

(***************************************************************************)
(* Without an interval pumba ends by itself, whatever podman does; with    *)
(* one it ends after a signal.                                             *)
(***************************************************************************)
StartupEnds ==
  /\ inv.interval = 0 ~> pc = "exit"
  /\ cancelled ~> pc = "exit"

(***************************************************************************)
(* Every option means what its usage says: tc reads each where it belongs. *)
(* (delay.go leaves a zero jitter out and appends the correlation all the  *)
(* same, rate.go a zero packet overhead.)                                  *)
(***************************************************************************)
ReadAsAsked ==
  calls > 0 /\ inv.cmd \in NetemCommands /\ NaN \notin ToSet(Asked(inv)) =>
    \A k \in DOMAIN Asked(inv) : Reads(req.words, k) = Asked(inv)[k]
=============================================================================
