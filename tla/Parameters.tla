----------------------------- MODULE Parameters -----------------------------
(***************************************************************************)
(* From the command line to the command (pkg/util, pkg/chaos/command.go,   *)
(* the parsers of netem and iptables, the constructors of the commands and *)
(* the arguments they hand to tc and iptables), as operators.              *)
(*                                                                         *)
(* An invocation i is a record; i.o holds the options of its command.      *)
(* Floating-point options are integers in thousandths, or NaN, which every *)
(* comparison of Go finds false.  Durations are signed integers.  A port   *)
(* is a number, Blank (an empty element of a list) or Junk.                *)
(***************************************************************************)
EXTENDS Integers, Sequences, FiniteSets, SequencesExt

NaN == 999999

Blank == -2
Junk == -3

NetemCommands == {"delay", "loss", "loss-state", "loss-gemodel", "rate", "duplicate", "corrupt"}

NetCommands == NetemCommands \cup {"iptables"}

-----------------------------------------------------------------------------
(* Whom: names, pattern, labels *)

\* More than one argument are names; one is a name, or a pattern after re2:.
getNamesOrPattern(args) ==
  IF Len(args) = 1 /\ args[1].re2
  THEN [names |-> <<>>, pattern |-> args[1].text]
  ELSE [names |-> args, pattern |-> ""]

\* Only the last --label counts.
splitLabels_DefectLastOnly(raw) ==
  IF raw = <<>> THEN {} ELSE ToSet(Last(raw)) \ {""}

\* The comma-separated parts of every --label, without the blank ones.  The runtime is
\* asked for all of them, so their order is left out.
splitLabels(raw) == (UNION {ToSet(l) : l \in ToSet(raw)}) \ {""}

\* The commands that insist on an argument.
RequireArgs == {"kill", "stop", "rm"}

-----------------------------------------------------------------------------
(* Where: addresses and ports *)

verifyPort(p) == p = Blank \/ (p # Junk /\ p \in 0..65535)

\* A list whose first element is blank is no list.
GetPorts(ports) ==
  IF ports = <<>> \/ Head(ports) = Blank THEN <<>> ELSE ports

\* A bad element is an error, unless the list counts as none.
PortsOK(ports) == \A p \in ToSet(GetPorts(ports)) : verifyPort(p)

\* Neither a bad interface, nor a bad address, nor a duration the interval cannot hold.
BaseOK(i) ==
  /\ i.duration # 0
  /\ i.interval # 0 => i.duration < i.interval
  /\ i.iface /\ i.ips

netemParseRequestBase(i) == BaseOK(i) /\ PortsOK(i.sports) /\ PortsOK(i.dports)

\* Ports need a protocol that has them.
iptablesParseRequestBase(i) ==
  /\ BaseOK(i)
  /\ i.protocol \in {"any", "tcp", "udp", "icmp"}
  /\ PortsOK(i.sports) /\ PortsOK(i.dports)
  /\ i.protocol \notin {"tcp", "udp"} => GetPorts(i.sports) = <<>> /\ GetPorts(i.dports) = <<>>

\* pause, stop and stress look at the duration alone.
durationOK(i) == i.duration # 0

-----------------------------------------------------------------------------
(* What: the constructors' checks *)

Below(x, y) == x # NaN /\ x < y

Above(x, y) == x # NaN /\ x > y

Percent(x) == ~Below(x, 0) /\ ~Above(x, 100000)

\* The jitter is only kept from being negative.
NewDelayCommand_DefectJitter(o) ==
  /\ o.time > 0 /\ o.jitter >= 0
  /\ Percent(o.correlation) /\ o.distribution # "other"

NewDelayCommand(o) ==
  /\ o.time > 0 /\ o.jitter \in 0..o.time
  /\ Percent(o.correlation)
  /\ o.distribution \in {"", "uniform", "normal", "pareto", "paretonormal"}

NewLossCommand(o) == Percent(o.percent) /\ Percent(o.correlation)

NewDuplicateCommand(o) == Percent(o.percent) /\ Percent(o.correlation)

NewCorruptCommand(o) == Percent(o.percent) /\ Percent(o.correlation)

NewLossStateCommand(o) ==
  Percent(o.p13) /\ Percent(o.p31) /\ Percent(o.p32) /\ Percent(o.p23) /\ Percent(o.p14)

NewLossGECommand(o) == Percent(o.pg) /\ Percent(o.pb) /\ Percent(o.oneH) /\ Percent(o.oneK)

\* A number of bits, 0bit included, or not a rate.
parseRate(rate) == rate # Junk

NewRateCommand(o) == o.rate # Blank /\ parseRate(o.rate) /\ o.cellSize >= 0

\* Random loss has a probability, nth a counter below every.
NewIPTablesLossCommand(o) ==
  \/ o.mode = "random" /\ ~Below(o.probability, 0) /\ ~Above(o.probability, 1000)
  \/ o.mode = "nth" /\ o.every > 0 /\ o.packet >= 0 /\ o.packet <= o.every - 1

\* The signal has to be one of Linux.
NewKillCommand(o) == o.signal # "unknown"

\* What Parse checks.
Parse(i) ==
  CASE i.cmd \in NetemCommands -> netemParseRequestBase(i)
    [] i.cmd = "iptables" -> iptablesParseRequestBase(i)
    [] i.cmd \in {"pause", "stop", "stress"} -> durationOK(i)
    [] OTHER -> TRUE

\* What Build checks.
Build(i) ==
  CASE i.cmd = "delay" -> NewDelayCommand(i.o)
    [] i.cmd = "loss" -> NewLossCommand(i.o)
    [] i.cmd = "duplicate" -> NewDuplicateCommand(i.o)
    [] i.cmd = "corrupt" -> NewCorruptCommand(i.o)
    [] i.cmd = "loss-state" -> NewLossStateCommand(i.o)
    [] i.cmd = "loss-gemodel" -> NewLossGECommand(i.o)
    [] i.cmd = "rate" -> NewRateCommand(i.o)
    [] i.cmd = "iptables" -> NewIPTablesLossCommand(i.o)
    [] i.cmd = "kill" -> NewKillCommand(i.o)
    [] OTHER -> TRUE

-----------------------------------------------------------------------------
(* How: the words tc and iptables get *)

\* strconv.FormatFloat(x, 'f', 2, 64), in hundredths; no option here is a tie.
FormatFloat(x) == IF x = NaN THEN NaN ELSE (x + 5) \div 10

Words(xs) == [k \in DOMAIN xs |-> FormatFloat(xs[k])]

When(cond, w) == IF cond THEN <<w>> ELSE <<>>

delayCmd(o) ==
  <<o.time>> \o When(o.jitter > 0, o.jitter)
             \o When(Above(o.correlation, 0), FormatFloat(o.correlation))

percentCmd(o) ==
  <<FormatFloat(o.percent)>> \o When(Above(o.correlation, 0), FormatFloat(o.correlation))

lossStateCmd(o) == Words(<<o.p13, o.p31, o.p32, o.p23, o.p14>>)

lossGECmd(o) == Words(<<o.pg, o.pb, o.oneH, o.oneK>>)

rateCmd(o) ==
  <<o.rate>> \o When(o.packetOverhead # 0, o.packetOverhead)
             \o When(o.cellSize > 0, o.cellSize)
             \o When(o.cellOverhead # 0, o.cellOverhead)

iptablesCmd(o) ==
  IF o.mode = "random" THEN <<FormatFloat(o.probability)>> ELSE <<o.every, o.packet>>

\* The numbers of the command, in the order tc and iptables meet them.
buildCmd(i) ==
  CASE i.cmd = "delay" -> delayCmd(i.o)
    [] i.cmd \in {"loss", "duplicate", "corrupt"} -> percentCmd(i.o)
    [] i.cmd = "loss-state" -> lossStateCmd(i.o)
    [] i.cmd = "loss-gemodel" -> lossGECmd(i.o)
    [] i.cmd = "rate" -> rateCmd(i.o)
    [] i.cmd = "iptables" -> iptablesCmd(i.o)
    [] OTHER -> <<>>

-----------------------------------------------------------------------------
(* What was asked, in the order of tc's grammar *)

Asked(i) ==
  CASE i.cmd = "delay" -> <<i.o.time, i.o.jitter, FormatFloat(i.o.correlation)>>
    [] i.cmd \in {"loss", "duplicate", "corrupt"} -> Words(<<i.o.percent, i.o.correlation>>)
    [] i.cmd = "loss-state" -> Words(<<i.o.p13, i.o.p31, i.o.p32, i.o.p23, i.o.p14>>)
    [] i.cmd = "loss-gemodel" -> Words(<<i.o.pg, i.o.pb, i.o.oneH, i.o.oneK>>)
    [] i.cmd = "rate" -> <<i.o.rate, i.o.packetOverhead, i.o.cellSize, i.o.cellOverhead>>
    [] i.cmd = "iptables" /\ i.o.mode = "random" -> <<FormatFloat(i.o.probability)>>
    [] i.cmd = "iptables" /\ i.o.mode # "random" -> <<i.o.every, i.o.packet>>
    [] OTHER -> <<>>

\* tc reads by position; an argument that is not there is zero.
Reads(words, k) == IF k \in DOMAIN words THEN words[k] ELSE 0
=============================================================================
