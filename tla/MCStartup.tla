----------------------------- MODULE MCStartup -----------------------------
(* Small instances of Startup for TLC. *)
EXTENDS Startup

At(form, at) == [form |-> form, at |-> at]

-----------------------------------------------------------------------------
(* The containers *)

C(n, p, l, s) == [names |-> n, patterns |-> p \cup {""}, labels |-> l, skip |-> s]

\* "a" matches the names of two; each label is met by another set of them.
MCPopulation ==
  {C({"a", "id1"}, {"a"}, {"x", "y", "z"}, FALSE), C({"b", "id2"}, {"b"}, {"x", "y"}, FALSE),
   C({"ab", "id3"}, {"a", "b"}, {"y", "z"}, FALSE), C({"c", "id4"}, {}, {"x", "z"}, FALSE),
   C({"aa", "id5"}, {"a"}, {"x", "y", "z"}, TRUE)}

-----------------------------------------------------------------------------
(* What is configured for podman *)

Quiet == [explicit |-> NoRaw, host |-> NoRaw, sock |-> NoRaw, xdg |-> NoRaw,
          machine |-> [answers |-> FALSE, lines |-> <<>>],
          endpoints |-> {"system", "user"}, files |-> {"system"}, serving |-> {"system"},
          rootless |-> {"user"}]

\* Which sockets exist and which are served; a tcp endpoint is one without a file.
Sockets == {<<{}, {}>>, <<{"system"}, {}>>, <<{"system", "user"}, {"user"}>>,
            <<{"user"}, {"user"}>>, <<{"system", "user"}, {"system", "user"}>>}

MCWorlds ==
  \* discovery through the rootless socket of the user
  {[Quiet EXCEPT !.xdg = At(f, "user"), !.files = s[1], !.serving = s[2]] :
     f \in {"path", "relative", "blank"}, s \in Sockets}
  \* an explicit socket in every spelling
  \cup {[Quiet EXCEPT !.explicit = e, !.xdg = At("path", "user"), !.files = s[1], !.serving = s[2]] :
          e \in {At("path", "user"), At("unix", "user"), At("relative", "user"), At("tcp", "user"),
                 At("tcp", ""), At("ssh", "user"), At("npipe", "user"), At("malformed", "user"),
                 At("unix", "")},
          s \in Sockets}
  \* the variables and podman machine before the system's socket
  \cup {[Quiet EXCEPT !.host = h, !.sock = k, !.machine = m, !.files = s[1], !.serving = s[2]] :
          h \in {NoRaw, At("tcp", "user"), At("ssh", "user")},
          k \in {NoRaw, At("path", "user"), At("path", "system")},
          m \in {[answers |-> FALSE, lines |-> <<At("path", "user")>>],
                 [answers |-> TRUE, lines |-> <<NoRaw, At("path", "user"), At("path", "system")>>],
                 [answers |-> TRUE, lines |-> <<NoRaw>>]},
          s \in Sockets}

-----------------------------------------------------------------------------
(* Command lines *)

Name(t) == [re2 |-> FALSE, text |-> t]

Re2(t) == [re2 |-> TRUE, text |-> t]

OffTLS == [tls |-> FALSE, verify |-> FALSE, ca |-> "", cert |-> "", key |-> ""]

Line == [runtime |-> "docker", cmd |-> "pause", args |-> <<Name("a")>>, labels |-> <<>>,
         interval |-> 0, duration |-> 2, iface |-> TRUE, ips |-> TRUE, sports |-> <<>>,
         dports |-> <<>>, protocol |-> "tcp", dry |-> FALSE, tls |-> OffTLS, o |-> [none |-> 0]]

Percents == {-1, 0, 4, 20000, 99996, 100000, 100001, NaN}

DelayOptions ==
  [time : {-1, 0, 100}, jitter : {-1, 0, 10, 100, 101}, correlation : {0, 4, 20000, 100001, NaN},
   distribution : {"", "normal", "other"}]

PercentOptions == [percent : Percents, correlation : {0, 20000, 100001, NaN}]

RateOptions ==
  [rate : {Blank, Junk, 0, 100}, packetOverhead : {-5, 0, 7}, cellSize : {-1, 0, 48},
   cellOverhead : {-2, 0, 3}]

LossOptions ==
  [mode : {"random"}, probability : {-1, 0, 4, 500, 1000, 1001, NaN}, every : {0}, packet : {0}]
  \cup [mode : {"nth", "other"}, probability : {0}, every : {-1, 0, 1, 3}, packet : {-1, 0, 1, 2, 3}]

StateOptions == [p13 : {11000, 100001}, p31 : {12000, NaN}, p32 : {0, 13000}, p23 : {14000, -1}, p14 : {0, 15000}]

GEOptions == [pg : {21000, 100001}, pb : {22000, -1}, oneH : {0, 23000, NaN}, oneK : {0, 24000}]

Ports == {<<>>, <<80>>, <<80, Blank>>, <<Blank, 80>>, <<80, Junk>>, <<65536>>, <<0, 65535>>}

\* Every option of every command, one group at a time, on docker.
MCOptions ==
  {[Line EXCEPT !.cmd = "delay", !.o = o] : o \in DelayOptions}
  \cup {[Line EXCEPT !.cmd = c, !.o = o] : c \in {"loss", "duplicate", "corrupt"}, o \in PercentOptions}
  \cup {[Line EXCEPT !.cmd = "rate", !.o = o] : o \in RateOptions}
  \cup {[Line EXCEPT !.cmd = "iptables", !.o = o] : o \in LossOptions}
  \cup {[Line EXCEPT !.cmd = "loss-state", !.o = o] : o \in StateOptions}
  \cup {[Line EXCEPT !.cmd = "loss-gemodel", !.o = o] : o \in GEOptions}
  \cup {[Line EXCEPT !.cmd = "kill", !.o = [signal |-> s]] : s \in {"known", "unknown"}}

Loss == [Line EXCEPT !.cmd = "loss", !.o = [percent |-> 20000, correlation |-> 0]]

Random == [Line EXCEPT !.cmd = "iptables",
             !.o = [mode |-> "random", probability |-> 500, every |-> 0, packet |-> 0]]

\* Filters, durations and intervals.
MCFilters ==
  {[l EXCEPT !.sports = s, !.dports = d] : l \in {Loss, Random}, s \in Ports, d \in {<<>>, <<443>>, <<Blank, 1>>}}
  \cup {[Random EXCEPT !.protocol = p, !.sports = s] :
          p \in {"any", "tcp", "icmp", "other"}, s \in {<<>>, <<80>>, <<Blank>>}}
  \cup {[Loss EXCEPT !.iface = f, !.ips = p] : f \in BOOLEAN, p \in BOOLEAN}
  \cup {[l EXCEPT !.duration = d, !.interval = i] :
          l \in {Loss, Random, Line, [Line EXCEPT !.cmd = "stress"], [Line EXCEPT !.cmd = "restart"]},
          d \in {-5, 0, 2, 5}, i \in {-2, 0, 3}}
  \cup {[Line EXCEPT !.cmd = c, !.args = a, !.labels = b, !.o = [signal |-> "known"]] :
          c \in {"kill", "stop", "rm", "exec", "pause"},
          a \in {<<>>, <<Name("a")>>, <<Re2("a")>>, <<Re2("")>>, <<Re2("a"), Name("b")>>},
          b \in {<<>>, <<<<"x", "">>>>, <<<<"">>, <<"", "">>>>, <<<<"">>, <<"y">>>>,
                 <<<<"x", "y">>, <<"z">>>>}}

MCRuntimes ==
  {[Line EXCEPT !.tls = [tls |-> t, verify |-> v, ca |-> a, cert |-> c, key |-> k]] :
     t \in BOOLEAN, v \in BOOLEAN, a \in {"", "good", "nofile", "junk"},
     c \in {"", "good", "broken"}, k \in {"", "good"}}
  \cup {[Line EXCEPT !.runtime = r, !.interval = i, !.labels = b] :
          r \in {"containerd", "crio"}, i \in {-2, 0, 3}, b \in {<<>>, <<<<"">>>>, <<<<"y">>>>}}

\* The first command is tried in every world, the others where the socket is the user's.
MCPodmanLines ==
  {[l EXCEPT !.runtime = "podman", !.dry = d] :
     l \in {Random, Line, [Line EXCEPT !.cmd = "stress"], [Line EXCEPT !.interval = -2]},
     d \in BOOLEAN}

\* The options of delay alone.
MCDelays ==
  {[inv |-> [Line EXCEPT !.cmd = "delay", !.o = o], world |-> Quiet] : o \in DelayOptions}

MCScenarios ==
  {[inv |-> i, world |-> Quiet] : i \in MCOptions \cup MCFilters \cup MCRuntimes}
  \cup {[inv |-> [Loss EXCEPT !.runtime = "podman"], world |-> w] : w \in MCWorlds}
  \cup {[inv |-> i, world |-> [Quiet EXCEPT !.xdg = At("path", "user"), !.files = s[1],
                                            !.serving = s[2]]] :
          i \in MCPodmanLines, s \in Sockets}
=============================================================================
