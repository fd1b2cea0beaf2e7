------------------------- MODULE NetChaosLeaseProofs -------------------------
(***************************************************************************)
(* Proofs about what network chaos installs and removes: nothing is left   *)
(* behind in silence, chaos is held only in full, and netem and iptables   *)
(* implement the lease of ReversibleChaos.  For every set of targets, list *)
(* of addresses and ports, repeated ones included, and any number of       *)
(* faults and rounds.                                                      *)
(***************************************************************************)
EXTENDS NetChaosProofs, FiniteSetTheorems

(***************************************************************************)
(* The inductive invariant follows the rules in a namespace command by     *)
(* command.  A filter may be named several times, so rules are counted.    *)
(***************************************************************************)

\* How often the commands of s before the k-th, and from the k-th on, name o.
Applied(s, o, k) == Cardinality({i \in 1..Len(s) : i < k /\ s[i].obj = o})

Left(s, o, k) == Cardinality({i \in 1..Len(s) : i >= k /\ s[i].obj = o})

Last(c) == Len(IF op[c] = "apply" THEN Commands("apply") ELSE Commands("revert"))

\* How far the loop over the commands is, and what a failure or a restart of
\* the target leaves as a trace.
InvNext(c) ==
  /\ pc[c] = "dry" => req.dryRun
  /\ pc[c] \in {"pull", "create", "start"} => next[c] = 1
  /\ pc[c] = "exec" => next[c] <= Last(c) + 1
  /\ pc[c] = "remove" /\ ~bad[c] => next[c] = Last(c) + 1
  /\ pc[c] = "wait" => op[c] = "apply" /\ (req.dryRun \/ next[c] = Len(Commands("apply")) + 1)
  /\ bad[c] => pc[c] = "remove" \/ (pc[c] = "idle" /\ reported[c] # {})
  /\ detached[c] => /\ req.image /\ rules[c] = Clean
                    /\ pc[c] \in {"start", "exec", "remove"} => lost[c]

\* The most of object o that can be in the namespace of c when nothing failed:
\* what was applied so far, or what the revert has still to remove.
Most(c, o) ==
  IF op[c] = "apply" THEN Applied(Commands("apply"), o, next[c])
                     ELSE Left(Commands("apply"), o, next[c])

InvUpper(c) ==
  reported[c] = {} /\ ~bad[c] =>
    /\ pc[c] = "idle" => rules[c] = Clean
    /\ req.tool = "tc" /\ op[c] = "revert" /\ next[c] > Len(Commands("revert")) =>
         rules[c] = Clean
    /\ req.tool = "iptables" /\ ~req.dryRun /\ pc[c] # "idle" =>
         \A o \in Objects : rules[c][o] <= Most(c, o)

\* The least there is in the namespace of a target that was not restarted, and
\* that the kernel has taken every filter so far.
InvLower(c) ==
  ~lost[c] /\ ~req.dryRun /\ pc[c] # "idle" =>
    /\ op[c] = "apply" =>
         /\ \A o \in Objects : rules[c][o] >= Applied(Commands("apply"), o, next[c])
         /\ \A i \in 1..Len(Commands("apply")) :
              i < next[c] => Commands("apply")[i].obj \notin BadFilters
    /\ op[c] = "revert" /\ ~bad[c] =>
         /\ req.tool = "iptables" =>
              \A o \in Objects : rules[c][o] >= Left(Commands("apply"), o, next[c])
         /\ req.tool = "tc" =>
              \A j \in 1..Len(Commands("revert")) :
                j >= next[c] => rules[c][Commands("revert")[j].obj] > 0
         /\ \A j \in 1..Len(Commands("revert")) : Commands("revert")[j].obj \notin BadFilters

\* Without faults no revert fails.
InvFault(c) ==
  faults = 0 =>
    /\ ~lost[c] /\ ~detached[c]
    /\ "revert" \notin reported[c] /\ (op[c] = "revert" => ~bad[c])

Tracked(c) == InvNext(c) /\ InvUpper(c) /\ InvLower(c) /\ InvFault(c)

InvTracked == \A c \in Containers : Tracked(c)

-----------------------------------------------------------------------------
(* Counting commands *)

\* Both counts are numbers.
LEMMA CountType ==
  ASSUME NEW s \in Seq(Command), NEW o, NEW k \in Nat
  PROVE  Applied(s, o, k) \in Nat /\ Left(s, o, k) \in Nat
<1>1. Len(s) \in Nat /\ IsFiniteSet(1..Len(s))
  BY LenProperties, FS_Interval
<1>2. /\ IsFiniteSet({i \in 1..Len(s) : i < k /\ s[i].obj = o})
      /\ IsFiniteSet({i \in 1..Len(s) : i >= k /\ s[i].obj = o})
  BY <1>1, FS_Subset
<1> QED
  BY <1>2, FS_CardinalityType DEF Applied, Left

\* Before the first command nothing is applied, after the last nothing is left,
\* and what is applied then is what the revert begins with.
LEMMA CountEnds ==
  ASSUME NEW s \in Seq(Command), NEW o
  PROVE  /\ Applied(s, o, 1) = 0 /\ Left(s, o, Len(s) + 1) = 0
         /\ Applied(s, o, Len(s) + 1) = Left(s, o, 1)
<1>1. Len(s) \in Nat
  BY LenProperties
<1>2. /\ {i \in 1..Len(s) : i < 1 /\ s[i].obj = o} = {}
      /\ {i \in 1..Len(s) : i >= Len(s) + 1 /\ s[i].obj = o} = {}
  BY <1>1
<1>3. {i \in 1..Len(s) : i < Len(s) + 1 /\ s[i].obj = o}
         = {i \in 1..Len(s) : i >= 1 /\ s[i].obj = o}
  BY <1>1
<1> QED
  BY <1>2, <1>3, FS_EmptySet DEF Applied, Left

\* The k-th command moves one object from one count to the other.
LEMMA CountStep ==
  ASSUME NEW s \in Seq(Command), NEW o, NEW k \in 1..Len(s)
  PROVE  /\ s[k].obj = o => /\ Applied(s, o, k + 1) = Applied(s, o, k) + 1
                            /\ Left(s, o, k) = Left(s, o, k + 1) + 1
         /\ s[k].obj # o => /\ Applied(s, o, k + 1) = Applied(s, o, k)
                            /\ Left(s, o, k) = Left(s, o, k + 1)
<1> DEFINE Up(n) == {i \in 1..Len(s) : i < n /\ s[i].obj = o}
           Dn(n) == {i \in 1..Len(s) : i >= n /\ s[i].obj = o}
<1>1. Len(s) \in Nat /\ IsFiniteSet(1..Len(s))
  BY LenProperties, FS_Interval
<1>2. IsFiniteSet(Up(k)) /\ IsFiniteSet(Dn(k + 1)) /\ k \notin Up(k) /\ k \notin Dn(k + 1)
  BY <1>1, FS_Subset
<1>3. ASSUME s[k].obj = o
      PROVE  Up(k + 1) = Up(k) \cup {k} /\ Dn(k) = Dn(k + 1) \cup {k}
  BY <1>1, <1>3
<1>4. ASSUME s[k].obj # o
      PROVE  Up(k + 1) = Up(k) /\ Dn(k) = Dn(k + 1)
  BY <1>1, <1>4
<1> HIDE DEF Up, Dn
<1>5. /\ Cardinality(Up(k) \cup {k}) = Cardinality(Up(k)) + 1
      /\ Cardinality(Dn(k + 1) \cup {k}) = Cardinality(Dn(k + 1)) + 1
  BY <1>2, FS_AddElement
<1>6. /\ Applied(s, o, k) = Cardinality(Up(k)) /\ Applied(s, o, k + 1) = Cardinality(Up(k + 1))
      /\ Left(s, o, k) = Cardinality(Dn(k)) /\ Left(s, o, k + 1) = Cardinality(Dn(k + 1))
  BY DEF Applied, Left, Up, Dn
<1> QED
  BY <1>3, <1>4, <1>5, <1>6

\* What was applied is there to be counted.
LEMMA CountPositive ==
  ASSUME NEW s \in Seq(Command), NEW k \in Nat, NEW i \in 1..Len(s), i < k
  PROVE  Applied(s, s[i].obj, k) >= 1
<1> DEFINE S == {j \in 1..Len(s) : j < k /\ s[j].obj = s[i].obj}
<1>1. Len(s) \in Nat /\ IsFiniteSet(1..Len(s))
  BY LenProperties, FS_Interval
<1>2. IsFiniteSet(S) /\ S # {}
  <2>1. i \in S
    OBVIOUS
  <2> QED
    BY <1>1, <2>1, FS_Subset
<1>3. Cardinality(S) \in Nat /\ Cardinality(S) # 0
  BY <1>2, FS_EmptySet, FS_CardinalityType
<1> QED
  BY <1>3 DEF Applied

-----------------------------------------------------------------------------
(* The two command sequences *)

\* The revert of iptables mirrors the apply, object by object; the revert of tc
\* ends with the root and deletes nothing twice.
LEMMA Mirror ==
  ASSUME req \in Request, NEW A, A = Commands("apply"), NEW R, R = Commands("revert")
  PROVE  /\ A \in Seq(Command) /\ R \in Seq(Command) /\ Len(A) \in Nat /\ Len(R) \in Nat
         /\ \A i \in 1..Len(A) : A[i].verb = "add"
         /\ \A j \in 1..Len(R) : R[j].verb = "del"
         /\ req.tool = "iptables" =>
              /\ Len(R) = Len(A)
              /\ \A i \in 1..Len(A) : R[i].obj = A[i].obj /\ A[i].obj # "root"
         /\ req.tool = "tc" =>
              /\ Len(R) >= 1
              /\ \A j \in 1..Len(R) :
                   /\ R[j].obj = "root" <=> j = Len(R)
                   /\ R[j].obj \notin BadFilters
                   /\ \E i \in 1..Len(A) : A[i].obj = R[j].obj
                   /\ \A k \in 1..Len(R) : k # j => R[k].obj # R[j].obj
<1>1. /\ req.filters \in Seq(Filters) /\ Len(req.filters) \in Nat
      /\ \A i \in 1..Len(req.filters) : req.filters[i] \in Filters
  BY DEF Request
<1>2. /\ A \in Seq(Command) /\ R \in Seq(Command) /\ Len(A) \in Nat /\ Len(R) \in Nat
  <2>1. A \in Seq(Command) /\ R \in Seq(Command)
    BY CommandsType
  <2> QED
    BY <2>1, LenProperties
<1>3. /\ "root" \notin Filters /\ "rule" # "root"
      /\ "root" \notin BadFilters
      /\ "10:" \notin BadFilters /\ "20:" \notin BadFilters /\ "30:" \notin BadFilters
  BY NetAssumption DEF Bands
<1>4. CASE req.tool = "iptables" /\ req.filters = <<>>
  <2>1. A = <<Add("rule")>> /\ R = <<Del("rule")>>
    BY <1>4 DEF Commands, IPTablesCommands, Add, Del
  <2>2. /\ Len(A) = 1 /\ Len(R) = 1
        /\ A[1].verb = "add" /\ A[1].obj = "rule" /\ R[1].verb = "del" /\ R[1].obj = "rule"
    BY <2>1 DEF Add, Del
  <2>3. \A i \in 1..1 : i = 1
    OBVIOUS
  <2> QED
    BY <1>2, <1>4, <2>2, <2>3
<1>5. CASE req.tool = "iptables" /\ req.filters # <<>>
  <2>1. A = PerFilter("add") /\ R = PerFilter("del")
    BY <1>5 DEF Commands, IPTablesCommands
  <2>2. /\ Len(A) = Len(req.filters) /\ Len(R) = Len(req.filters)
        /\ \A i \in 1..Len(req.filters) :
             /\ A[i].verb = "add" /\ A[i].obj = req.filters[i]
             /\ R[i].verb = "del" /\ R[i].obj = req.filters[i]
    BY <1>1, <2>1 DEF PerFilter
  <2> QED
    BY <1>1, <1>2, <1>3, <1>5, <2>2
<1>6. CASE req.tool = "tc" /\ req.filters = <<>>
  <2>1. A = <<Add("root")>> /\ R = <<Del("root")>>
    BY <1>6 DEF Commands, NetemStart, NetemStop
  <2>2. /\ Len(A) = 1 /\ Len(R) = 1
        /\ A[1].verb = "add" /\ A[1].obj = "root" /\ R[1].verb = "del" /\ R[1].obj = "root"
    BY <2>1 DEF Add, Del
  <2>3. 1 \in 1..1 /\ \A i \in 1..1 : i = 1
    OBVIOUS
  <2>4. \A j \in 1..Len(R) :
          /\ R[j].verb = "del" /\ A[j].verb = "add"
          /\ R[j].obj = "root" /\ j = Len(R) /\ R[j].obj \notin BadFilters
          /\ A[1].obj = R[j].obj
          /\ \A k \in 1..Len(R) : k = j
    BY <1>3, <2>2, <2>3
  <2>5. 1 \in 1..Len(A) /\ Len(A) = Len(R) /\ Len(R) >= 1
    BY <2>2, <2>3
  <2> QED
    BY <1>2, <1>6, <2>4, <2>5
<1>7. CASE req.tool = "tc" /\ req.filters # <<>>
  <2> DEFINE B == <<Add("root"), Add("10:"), Add("20:"), Add("30:")>>
             F == PerFilter("add")
  <2>1. A = B \o F /\ R = <<Del("10:"), Del("20:"), Del("30:"), Del("root")>>
    BY <1>7 DEF Commands, NetemStart, NetemStop
  <2>2. /\ B \in Seq(Command) /\ F \in Seq(Command)
        /\ Len(B) = 4 /\ Len(F) = Len(req.filters)
    <3>1. /\ \A x \in Objects : Add(x) \in Command
          /\ {"root", "10:", "20:", "30:"} \cup Filters \subseteq Objects
      BY DEF Add, Command, Objects, Bands
    <3>2. F \in Seq(Command) /\ Len(F) = Len(req.filters)
      BY <1>1, <3>1 DEF PerFilter, Add
    <3> QED
      BY <3>1, <3>2
  <2>3. /\ Len(A) = 4 + Len(F)
        /\ A[1] = Add("root") /\ A[2] = Add("10:") /\ A[3] = Add("20:") /\ A[4] = Add("30:")
        /\ \A i \in 5..Len(A) : A[i] = F[i - 4]
    <3>1. /\ Len(A) = Len(B) + Len(F)
          /\ \A i \in 1..Len(A) : A[i] = IF i <= Len(B) THEN B[i] ELSE F[i - Len(B)]
      BY <2>1, <2>2, ConcatProperties
    <3>2. /\ B[1] = Add("root") /\ B[2] = Add("10:") /\ B[3] = Add("20:") /\ B[4] = Add("30:")
      OBVIOUS
    <3> HIDE DEF B, F
    <3>3. Len(A) = 4 + Len(F) /\ Len(F) \in Nat
      BY <1>1, <2>2, <3>1
    <3>6. \A i \in 1..4 : i \in 1..Len(A) /\ i <= Len(B)
      BY <2>2, <3>3
    <3>4. A[1] = B[1] /\ A[2] = B[2] /\ A[3] = B[3] /\ A[4] = B[4]
      BY <3>1, <3>6
    <3>5. \A i \in 5..Len(A) : A[i] = F[i - 4]
      BY <2>2, <3>1, <3>3
    <3> QED
      BY <3>2, <3>3, <3>4, <3>5
  <2>4. \A i \in 1..Len(F) : F[i].verb = "add"
    BY <1>1 DEF PerFilter
  <2>5. /\ Len(R) = 4
        /\ R[1] = Del("10:") /\ R[2] = Del("20:") /\ R[3] = Del("30:") /\ R[4] = Del("root")
    BY <2>1
  <2> HIDE DEF B, F
  <2>0. \A j \in 1..4 : j = 1 \/ j = 2 \/ j = 3 \/ j = 4
    OBVIOUS
  <2>6. \A i \in 1..Len(A) : A[i].verb = "add"
    <3> TAKE i \in 1..Len(A)
    <3>1. CASE i \in 1..4
      BY <2>0, <2>3, <3>1 DEF Add
    <3>2. CASE i \in 5..Len(A)
      <4>1. i - 4 \in 1..Len(F)
        BY <1>1, <2>2, <2>3, <3>2
      <4> QED
        BY <2>3, <2>4, <3>2, <4>1
    <3> QED
      BY <1>2, <3>1, <3>2
  <2>7. \A j \in 1..Len(R) : \E i \in 1..Len(A) : A[i].obj = R[j].obj
    <3>1. 1 \in 1..Len(A) /\ 2 \in 1..Len(A) /\ 3 \in 1..Len(A) /\ 4 \in 1..Len(A)
      BY <1>1, <2>2, <2>3
    <3>2. /\ A[1].obj = R[4].obj /\ A[2].obj = R[1].obj
          /\ A[3].obj = R[2].obj /\ A[4].obj = R[3].obj
      BY <2>3, <2>5 DEF Add, Del
    <3> QED
      BY <2>0, <2>5, <3>1, <3>2
  <2>8. \A j \in 1..Len(R) :
          /\ R[j].verb = "del"
          /\ R[j].obj = "root" <=> j = Len(R)
          /\ R[j].obj \notin BadFilters
    <3>1. /\ R[1].obj = "10:" /\ R[2].obj = "20:" /\ R[3].obj = "30:" /\ R[4].obj = "root"
          /\ R[1].verb = "del" /\ R[2].verb = "del" /\ R[3].verb = "del" /\ R[4].verb = "del"
      BY <2>5 DEF Del
    <3>2. ASSUME NEW j \in 1..Len(R)
          PROVE  (R[j].obj = "root" <=> j = Len(R)) /\ R[j].verb = "del"
      BY <2>0, <2>5, <3>1
    <3>3. ASSUME NEW j \in 1..Len(R)
          PROVE  R[j].obj \notin BadFilters
      <4>1. R[j].obj \in {"10:", "20:", "30:", "root"}
        BY <2>0, <2>5, <3>1
      <4> QED
        BY <1>3, <4>1
    <3> QED
      BY <3>2, <3>3
  <2>9. \A j, k \in 1..Len(R) : k # j => R[k].obj # R[j].obj
    BY <2>5 DEF Del
  <2>10. Len(R) >= 1 /\ req.tool = "tc" /\ req.tool # "iptables"
    BY <1>7, <2>5
  <2>11. \A j \in 1..Len(R) : \A k \in 1..Len(R) : k # j => R[k].obj # R[j].obj
    BY <2>9
  <2> QED
    BY <1>2, <2>6, <2>7, <2>8, <2>10, <2>11
<1> QED
  BY <1>4, <1>5, <1>6, <1>7 DEF Request
-----------------------------------------------------------------------------
(* The inductive invariant holds *)

\* The commands are those of the request, which nothing changes.
LEMMA CommandsFrame ==
  ASSUME req' = req
  PROVE  Commands("apply")' = Commands("apply") /\ Commands("revert")' = Commands("revert")
BY DEF Commands, NetemStart, NetemStop, IPTablesCommands, PerFilter

\* The types of what is known about one target.
LEMMA Types ==
  ASSUME IInv, NEW c \in Containers
  PROVE  /\ req \in Request /\ faults \in Nat
         /\ pc[c] \in {"idle", "dry", "pull", "create", "start", "exec", "remove", "wait"}
         /\ op[c] \in {"apply", "revert"} /\ next[c] \in Nat /\ next[c] >= 1
         /\ rules[c] \in [Objects -> Nat] /\ reported[c] \subseteq {"apply", "revert"}
         /\ req.dryRun => pc[c] \in {"idle", "dry", "wait"} /\ rules[c] = Clean
         /\ pc[c] \in {"pull", "create", "start", "remove"} => req.image
BY NetAssumption DEF IInv, TypeOK, InvPlace

\* A target another closure's step leaves alone.
LEMMA Frame ==
  ASSUME NEW c \in Containers, Tracked(c), req' = req, faults' = 0 => faults = 0,
         pc'[c] = pc[c], op'[c] = op[c], next'[c] = next[c], bad'[c] = bad[c],
         rules'[c] = rules[c], reported'[c] = reported[c], lost'[c] = lost[c],
         detached'[c] = detached[c]
  PROVE  Tracked(c)'
<1>1. Commands("apply")' = Commands("apply") /\ Commands("revert")' = Commands("revert")
  BY CommandsFrame
<1>2. InvNext(c)'
  BY <1>1 DEF Tracked, InvNext, Last, Clean
<1>3. InvUpper(c)'
  BY <1>1 DEF Tracked, InvUpper, Most, Clean
<1>4. InvLower(c)'
  BY <1>1 DEF Tracked, InvLower
<1>5. InvFault(c)'
  BY DEF Tracked, InvFault
<1> QED
  BY <1>2, <1>3, <1>4, <1>5 DEF Tracked

\* Nothing is installed at the start.
LEMMA InitTracked == Init => InvTracked
<1> SUFFICES ASSUME Init, NEW c \in Containers
             PROVE  Tracked(c)
  BY DEF InvTracked
<1>1. /\ pc[c] = "idle" /\ op[c] = "apply" /\ bad[c] = FALSE /\ rules[c] = Clean
      /\ reported[c] = {} /\ lost[c] = FALSE /\ detached[c] = FALSE
  BY DEF Init
<1> QED
  BY <1>1 DEF Tracked, InvNext, InvUpper, InvLower, InvFault

\* Nothing counted, nothing there.
LEMMA NoneIsClean ==
  ASSUME NEW r \in [Objects -> Nat], \A o \in Objects : r[o] <= 0
  PROVE  r = Clean
<1>1. \A o \in Objects : r[o] = 0
  OBVIOUS
<1> QED
  BY <1>1 DEF Clean

\* An empty namespace is within any bound from above.
LEMMA CleanIsLeast ==
  ASSUME IInv, NEW c \in Containers, NEW o \in Objects
  PROVE  Clean[o] = 0 /\ Most(c, o) \in Nat
<1>1. Commands("apply") \in Seq(Command) /\ next[c] \in Nat
  BY Types, CommandsType
<1> QED
  BY <1>1, CountType DEF Clean, Most
\* After the last command of the revert, if nothing failed, nothing is left.
LEMMA RevertedIsClean ==
  ASSUME IInv, NEW c \in Containers, Tracked(c), reported[c] = {}, ~bad[c],
         op[c] = "revert", pc[c] # "idle", ~req.dryRun, next[c] = Last(c) + 1
  PROVE  rules[c] = Clean
<1> PICK A : A = Commands("apply")
  OBVIOUS
<1> PICK R : R = Commands("revert")
  OBVIOUS
<1>1. Len(R) \in Nat /\ next[c] = Len(R) + 1 /\ A \in Seq(Command)
  BY Types, Mirror DEF Last
<1>2. CASE req.tool = "tc"
  BY <1>1, <1>2 DEF Tracked, InvUpper
<1>3. CASE req.tool = "iptables"
  <2>1. next[c] = Len(A) + 1
    BY <1>1, <1>3, Types, Mirror
  <2>2. \A o \in Objects : rules[c][o] <= Left(A, o, Len(A) + 1)
    BY <1>3, <2>1 DEF Tracked, InvUpper, Most
  <2>3. \A o \in Objects : rules[c][o] <= 0
    BY <1>1, <2>2, CountEnds
  <2> QED
    BY <2>3, Types, NoneIsClean
<1> QED
  BY <1>2, <1>3, Types DEF Request

\* An operation ends.  When it failed the error is reported, and without faults
\* a revert does not fail; when it did not, all its commands were executed.
LEMMA OpDoneTracked ==
  ASSUME IInv, IInv', NEW c \in Containers, Tracked(c), req' = req, NEW f \in BOOLEAN,
         OpDone(c, f), pc[c] # "idle", faults' = 0 => faults = 0,
         op' = op, next' = next, bad' = bad, lost' = lost, detached' = detached,
         rules' = rules \/ (f /\ ~detached[c]),
         f /\ op[c] = "revert" => faults' # 0,
         bad[c] => f,
         ~f => req.dryRun \/ next[c] = Last(c) + 1
  PROVE  Tracked(c)'
<1> PICK A : A = Commands("apply")
  OBVIOUS
<1> PICK R : R = Commands("revert")
  OBVIOUS
<1>1. A = Commands("apply")' /\ R = Commands("revert")'
  BY CommandsFrame
<1>2. CASE f
  <2>1. pc'[c] = "idle" /\ reported'[c] = reported[c] \cup {op[c]}
    BY <1>2 DEF OpDone, Goto, IInv, TypeOK
  <2>2. InvNext(c)'
    BY <2>1 DEF Tracked, InvNext, Clean
  <2>3. InvUpper(c)' /\ InvLower(c)'
    BY <2>1 DEF InvUpper, InvLower
  <2>4. InvFault(c)'
    BY <1>2, <2>1, Types DEF Tracked, InvFault
  <2> QED
    BY <2>2, <2>3, <2>4 DEF Tracked
<1>3. CASE ~f /\ op[c] = "apply"
  <2>1. pc'[c] = "wait" /\ reported' = reported /\ rules' = rules
    BY <1>3 DEF OpDone, Goto, IInv, TypeOK
  <2>2. InvNext(c)'
    BY <1>1, <1>3, <2>1 DEF Tracked, InvNext, Last, Clean
  <2>3. InvUpper(c)'
    BY <1>1, <1>3, <2>1 DEF Tracked, InvUpper, Most
  <2>4. InvLower(c)'
    BY <1>1, <1>3, <2>1 DEF Tracked, InvLower
  <2>5. InvFault(c)'
    BY <2>1 DEF Tracked, InvFault
  <2> QED
    BY <2>2, <2>3, <2>4, <2>5 DEF Tracked
<1>4. CASE ~f /\ op[c] = "revert"
  <2>1. pc'[c] = "idle" /\ reported' = reported /\ rules' = rules
    BY <1>4 DEF OpDone, Goto, IInv, TypeOK
  <2>2. InvNext(c)'
    BY <1>4, <2>1 DEF Tracked, InvNext, Clean
  <2>3. reported[c] = {} => rules[c] = Clean
    BY <1>4, Types, RevertedIsClean
  <2>4. InvUpper(c)' /\ InvLower(c)'
    BY <2>1, <2>3 DEF InvUpper, InvLower, Clean
  <2>5. InvFault(c)'
    BY <2>1 DEF Tracked, InvFault
  <2> QED
    BY <2>2, <2>4, <2>5 DEF Tracked
<1> QED
  BY <1>2, <1>3, <1>4, Types

\* The command at hand: what it names, and that a revert without faults finds
\* what it deletes.
LEMMA CommandAtHand ==
  ASSUME IInv, NEW c \in Containers, Tracked(c), pc[c] = "exec", next[c] <= Len(Commands(op[c])),
         NEW A, A = Commands("apply"), NEW R, R = Commands("revert"),
         NEW cmd, cmd = Commands(op[c])[next[c]]
  PROVE  /\ ~bad[c] /\ ~req.dryRun /\ next[c] \in Nat /\ next[c] >= 1
         /\ cmd \in Command
         /\ op[c] = "apply" => cmd = A[next[c]] /\ next[c] \in 1..Len(A) /\ cmd.verb = "add"
         /\ op[c] = "revert" => cmd = R[next[c]] /\ next[c] \in 1..Len(R) /\ cmd.verb = "del"
         /\ op[c] = "revert" /\ ~lost[c] => Accepts(rules[c], cmd)
<1>1. /\ A \in Seq(Command) /\ R \in Seq(Command) /\ Len(A) \in Nat /\ Len(R) \in Nat
      /\ \A i \in 1..Len(A) : A[i].verb = "add"
      /\ \A j \in 1..Len(R) : R[j].verb = "del"
  BY Types, Mirror
<1>2. /\ ~bad[c] /\ ~req.dryRun /\ next[c] \in Nat /\ next[c] >= 1
      /\ op[c] = "apply" \/ op[c] = "revert"
  BY Types DEF Tracked, InvNext
<1>3. /\ op[c] = "apply" => cmd = A[next[c]] /\ next[c] \in 1..Len(A) /\ cmd.verb = "add"
      /\ op[c] = "revert" => cmd = R[next[c]] /\ next[c] \in 1..Len(R) /\ cmd.verb = "del"
  BY <1>1, <1>2
<1>4. cmd \in Command
  BY <1>1, <1>2, <1>3
<1>5. ASSUME op[c] = "revert", ~lost[c]
      PROVE  Accepts(rules[c], cmd)
  <2>1. cmd.obj \notin BadFilters /\ cmd.verb = "del" /\ cmd.obj \in Objects
    BY <1>2, <1>3, <1>4, <1>5 DEF Tracked, InvLower, Command
  <2>2. CASE req.tool = "tc"
    BY <1>2, <1>3, <1>5, <2>1, <2>2 DEF Tracked, InvLower, Accepts
  <2>3. CASE req.tool = "iptables"
    <3>1. next[c] \in 1..Len(A) /\ cmd.obj = A[next[c]].obj
      BY <1>3, <1>5, <2>3, Types, Mirror
    <3>2. rules[c][cmd.obj] >= Left(A, cmd.obj, next[c])
      BY <1>2, <1>5, <2>1, <2>3 DEF Tracked, InvLower
    <3>3. Left(A, cmd.obj, next[c]) = Left(A, cmd.obj, next[c] + 1) + 1
      BY <1>1, <3>1, CountStep
    <3>4. Left(A, cmd.obj, next[c] + 1) \in Nat
      BY <1>1, <1>2, CountType
    <3>5. rules[c][cmd.obj] \in Nat
      BY <2>1, Types
    <3> QED
      BY <2>1, <3>2, <3>3, <3>4, <3>5 DEF Accepts
  <2> QED
    BY <2>2, <2>3, Types DEF Request
<1> QED
  BY <1>2, <1>3, <1>4, <1>5

\* A command that was executed: the counts follow the rules.
LEMMA Executed ==
  ASSUME IInv, IInv', NEW c \in Containers, Tracked(c), req' = req, pc[c] = "exec",
         next[c] <= Len(Commands(op[c])), NEW cmd, cmd = Commands(op[c])[next[c]],
         detached[c] \/ Accepts(rules[c], cmd),
         rules'[c] = IF detached[c] THEN rules[c] ELSE Effect(rules[c], cmd),
         next'[c] = next[c] + 1, faults' = faults, pc' = pc, op' = op, bad' = bad,
         reported' = reported, lost' = lost, detached' = detached
  PROVE  Tracked(c)'
<1> PICK A : A = Commands("apply")
  OBVIOUS
<1> PICK R : R = Commands("revert")
  OBVIOUS
<1>1. A = Commands("apply")' /\ R = Commands("revert")'
  BY CommandsFrame
<1>2. /\ ~bad[c] /\ ~req.dryRun /\ next[c] \in Nat /\ next[c] >= 1
      /\ cmd \in Command
      /\ op[c] = "apply" => cmd = A[next[c]] /\ next[c] \in 1..Len(A) /\ cmd.verb = "add"
      /\ op[c] = "revert" => cmd = R[next[c]] /\ next[c] \in 1..Len(R) /\ cmd.verb = "del"
  BY CommandAtHand
<1>3. /\ A \in Seq(Command) /\ R \in Seq(Command) /\ Len(A) \in Nat /\ Len(R) \in Nat
      /\ op[c] = "apply" \/ op[c] = "revert"
      /\ rules[c] \in [Objects -> Nat] /\ cmd.obj \in Objects
      /\ req.tool = "tc" \/ req.tool = "iptables"
  BY <1>2, Types, Mirror DEF Request, Command
<1>4. InvNext(c)'
  <2>1. next'[c] <= Last(c)' + 1
    BY <1>1, <1>2, <1>3 DEF Last
  <2>2. detached[c] => rules'[c] = Clean
    BY DEF Tracked, InvNext
  <2> QED
    BY <1>2, <2>1, <2>2 DEF Tracked, InvNext, Clean
<1>5. \A o \in Objects :
        /\ Applied(A, o, next[c]) \in Nat /\ Applied(A, o, next[c] + 1) \in Nat
        /\ Left(A, o, next[c]) \in Nat /\ Left(A, o, next[c] + 1) \in Nat
  BY <1>2, <1>3, CountType
<1>6. ASSUME op[c] = "apply"
      PROVE  /\ \A o \in Objects :
                  /\ cmd.obj = o => Applied(A, o, next[c] + 1) = Applied(A, o, next[c]) + 1
                  /\ cmd.obj # o => Applied(A, o, next[c] + 1) = Applied(A, o, next[c])
             /\ ~detached[c] => \A o \in Objects :
                  rules'[c][o] = IF cmd.obj = o THEN rules[c][o] + 1 ELSE rules[c][o]
  <2>1. \A o \in Objects :
          /\ cmd.obj = o => Applied(A, o, next[c] + 1) = Applied(A, o, next[c]) + 1
          /\ cmd.obj # o => Applied(A, o, next[c] + 1) = Applied(A, o, next[c])
    BY <1>2, <1>3, <1>6, CountStep
  <2>2. ~detached[c] => rules'[c] = [rules[c] EXCEPT ![cmd.obj] = @ + 1]
    BY <1>2, <1>6 DEF Effect
  <2> QED
    BY <1>3, <2>1, <2>2
<1>7. ASSUME op[c] = "revert", req.tool = "iptables"
      PROVE  /\ \A o \in Objects :
                  /\ cmd.obj = o => Left(A, o, next[c]) = Left(A, o, next[c] + 1) + 1
                  /\ cmd.obj # o => Left(A, o, next[c]) = Left(A, o, next[c] + 1)
             /\ ~detached[c] => \A o \in Objects :
                  rules'[c][o] = IF cmd.obj = o THEN rules[c][o] - 1 ELSE rules[c][o]
  <2>0. next[c] \in 1..Len(A) /\ cmd.obj = A[next[c]].obj /\ cmd.obj # "root"
    BY <1>2, <1>7, Types, Mirror
  <2>1. \A o \in Objects :
          /\ cmd.obj = o => Left(A, o, next[c]) = Left(A, o, next[c] + 1) + 1
          /\ cmd.obj # o => Left(A, o, next[c]) = Left(A, o, next[c] + 1)
    BY <1>3, <2>0, CountStep
  <2>2. ~detached[c] => rules'[c] = [rules[c] EXCEPT ![cmd.obj] = @ - 1]
    BY <1>2, <1>7, <2>0 DEF Effect
  <2> QED
    BY <1>3, <2>1, <2>2
<1>8. InvUpper(c)'
  <2>1. ASSUME op[c] = "revert", req.tool = "tc", next'[c] > Len(R)
        PROVE  rules'[c] = Clean
    <3>1. next[c] = Len(R)
      BY <1>2, <1>3, <2>1
    <3>2. cmd.obj = "root" /\ cmd.verb = "del"
      BY <1>2, <2>1, <3>1, Types, Mirror
    <3> QED
      BY <3>2 DEF Effect, Tracked, InvNext
  <2>2. ASSUME reported[c] = {}, req.tool = "iptables", NEW o \in Objects
        PROVE  rules'[c][o] <= Most(c, o)'
    <3>1. CASE detached[c]
      <4>1. rules'[c] = Clean
        BY <3>1 DEF Tracked, InvNext
      <4> QED
        BY <1>1, <1>3, <1>5, <4>1 DEF Most, Clean
    <3>2. rules[c][o] <= Most(c, o) /\ rules[c][o] \in Nat
      BY <1>2, <1>3, <2>2 DEF Tracked, InvUpper
    <3>3. CASE ~detached[c] /\ op[c] = "apply"
      BY <1>1, <1>5, <1>6, <3>2, <3>3 DEF Most
    <3>4. CASE ~detached[c] /\ op[c] = "revert"
      BY <1>1, <1>5, <1>7, <2>2, <3>2, <3>4 DEF Most
    <3> QED
      BY <1>3, <3>1, <3>3, <3>4
  <2> QED
    BY <1>1, <2>1, <2>2 DEF InvUpper, Clean
<1>9. InvLower(c)'
  <2> SUFFICES ASSUME ~lost[c]
               PROVE  InvLower(c)'
    BY DEF InvLower
  <2>0. ~detached[c] /\ cmd.obj \notin BadFilters
    BY DEF Tracked, InvNext, Accepts
  <2>1. CASE op[c] = "apply"
    <3>1. \A o \in Objects : rules[c][o] >= Applied(A, o, next[c]) /\ rules[c][o] \in Nat
      BY <1>2, <1>3, <2>1 DEF Tracked, InvLower
    <3>2. \A o \in Objects : rules'[c][o] >= Applied(A, o, next[c] + 1)
      BY <1>5, <1>6, <2>0, <2>1, <3>1
    <3>3. \A i \in 1..Len(A) : i < next[c] + 1 => A[i].obj \notin BadFilters
      <4> SUFFICES ASSUME NEW i \in 1..Len(A), i < next[c] + 1
                   PROVE  A[i].obj \notin BadFilters
        OBVIOUS
      <4>1. i < next[c] \/ i = next[c]
        BY <1>2, <1>3
      <4> QED
        BY <1>2, <2>0, <2>1, <4>1 DEF Tracked, InvLower
    <3> QED
      BY <1>1, <2>1, <3>2, <3>3 DEF InvLower
  <2>2. CASE op[c] = "revert" /\ req.tool = "iptables"
    <3>1. \A o \in Objects : rules[c][o] >= Left(A, o, next[c]) /\ rules[c][o] \in Nat
      BY <1>2, <1>3, <2>2 DEF Tracked, InvLower
    <3>2. \A o \in Objects : rules'[c][o] >= Left(A, o, next[c] + 1)
      BY <1>5, <1>7, <2>0, <2>2, <3>1
    <3>3. \A j \in 1..Len(R) : R[j].obj \notin BadFilters
      BY <1>2, <2>2 DEF Tracked, InvLower
    <3> QED
      BY <1>1, <2>2, <3>2, <3>3 DEF InvLower
  <2>3. CASE op[c] = "revert" /\ req.tool = "tc"
    <3>1. \A j \in 1..Len(R) : j >= next[c] + 1 => rules'[c][R[j].obj] > 0
      <4> SUFFICES ASSUME NEW j \in 1..Len(R), j >= next[c] + 1
                   PROVE  rules'[c][R[j].obj] > 0
        OBVIOUS
      <4>1. next[c] \in 1..Len(R) /\ next[c] # j /\ next[c] # Len(R) /\ j >= next[c]
        BY <1>2, <1>3, <2>3
      <4>6. req \in Request
        BY Types
      <4>7. \A n \in 1..Len(R) :
              /\ R[n].obj = "root" <=> n = Len(R)
              /\ \A k \in 1..Len(R) : k # n => R[k].obj # R[n].obj
        BY <2>3, <4>6, Mirror
      <4>2. R[next[c]].obj # "root" /\ R[next[c]].obj # R[j].obj
        BY <4>1, <4>7
      <4>3. rules[c][R[j].obj] > 0
        BY <1>2, <2>3, <4>1 DEF Tracked, InvLower
      <4>4. rules'[c] = [rules[c] EXCEPT ![cmd.obj] = @ - 1]
        BY <1>2, <2>0, <2>3, <4>2 DEF Effect
      <4>5. R[j].obj \in Objects
        <5>1. R[j] \in Command
          BY <1>3, ElementOfSeq
        <5> QED
          BY <5>1 DEF Command
      <4> QED
        BY <1>2, <1>3, <2>3, <4>2, <4>3, <4>4, <4>5
    <3>2. \A j \in 1..Len(R) : R[j].obj \notin BadFilters
      BY <1>2, <2>3 DEF Tracked, InvLower
    <3> QED
      BY <1>1, <2>3, <3>1, <3>2 DEF InvLower
  <2> QED
    BY <1>3, <2>1, <2>2, <2>3
<1>10. InvFault(c)'
  BY DEF Tracked, InvFault
<1> QED
  BY <1>4, <1>8, <1>9, <1>10 DEF Tracked
\* A command that failed, and the sidecar there is to remove first.
LEMMA Failed ==
  ASSUME IInv, IInv', NEW c \in Containers, Tracked(c), req' = req, pc[c] \in {"start", "exec"},
         pc'[c] = "remove", bad'[c] = TRUE, next' = next, op' = op, reported' = reported,
         lost' = lost, detached' = detached, faults' = 0 => faults = 0,
         op[c] = "revert" => faults' # 0,
         rules'[c] = rules[c] \/ ~detached[c],
         op[c] = "apply" => \A o \in Objects : rules'[c][o] >= rules[c][o]
  PROVE  Tracked(c)'
<1> PICK A : A = Commands("apply")
  OBVIOUS
<1>1. A = Commands("apply")'
  BY CommandsFrame
<1>2. InvNext(c)'
  BY DEF Tracked, InvNext, Clean
<1>3. InvUpper(c)'
  BY DEF InvUpper
<1>4. InvLower(c)'
  <2> SUFFICES ASSUME ~lost[c], op[c] = "apply", ~req.dryRun
               PROVE  InvLower(c)'
    BY Types DEF InvLower
  <2>1. \A o \in Objects : /\ rules[c][o] \in Nat /\ rules'[c][o] \in Nat
                           /\ Applied(A, o, next[c]) \in Nat
                           /\ rules[c][o] >= Applied(A, o, next[c])
    <3>1. rules[c] \in [Objects -> Nat] /\ rules'[c] \in [Objects -> Nat]
      BY DEF IInv, TypeOK
    <3>2. \A o \in Objects : Applied(A, o, next[c]) \in Nat
      BY Types, CommandsType, CountType
    <3> QED
      BY <3>1, <3>2 DEF Tracked, InvLower
  <2>2. \A o \in Objects : rules'[c][o] >= Applied(A, o, next[c])
    BY <2>1
  <2>3. \A i \in 1..Len(A) : i < next[c] => A[i].obj \notin BadFilters
    BY DEF Tracked, InvLower
  <2> QED
    BY <1>1, <2>2, <2>3 DEF InvLower
<1>5. InvFault(c)'
  BY Types DEF Tracked, InvFault
<1> QED
  BY <1>2, <1>3, <1>4, <1>5 DEF Tracked

\* One command of the loop, executed, rejected or failed.
LEMMA ExecTracked ==
  ASSUME IInv, IInv', NEW c \in Containers, Tracked(c), ExecCommand(c)
  PROVE  Tracked(c)'
<1> PICK A : A = Commands("apply")
  OBVIOUS
<1> PICK R : R = Commands("revert")
  OBVIOUS
<1> PICK cmd : cmd = Commands(op[c])[next[c]]
  OBVIOUS
<1>1. /\ req' = req /\ op' = op /\ lost' = lost /\ detached' = detached
      /\ pc[c] = "exec" /\ next[c] <= Len(Commands(op[c]))
  BY DEF ExecCommand, place
<1>2. /\ cmd \in Command /\ ~bad[c]
      /\ op[c] = "apply" => cmd.verb = "add"
      /\ op[c] = "revert" /\ ~lost[c] => Accepts(rules[c], cmd)
  BY <1>1, CommandAtHand
<1>3. rules \in [Containers -> [Objects -> Nat]] /\ next \in [Containers -> Nat]
  BY DEF IInv, TypeOK
<1>4. ASSUME CallSucceeds(c), detached[c] \/ Accepts(rules[c], cmd),
             rules' = IF detached[c] THEN rules ELSE [rules EXCEPT ![c] = Effect(@, cmd)],
             next' = [next EXCEPT ![c] = @ + 1], UNCHANGED <<pc, bad, reported>>
      PROVE  Tracked(c)'
  <2>1. /\ rules'[c] = IF detached[c] THEN rules[c] ELSE Effect(rules[c], cmd)
        /\ next'[c] = next[c] + 1 /\ faults' = faults
    BY <1>3, <1>4 DEF CallSucceeds
  <2> QED
    BY <1>1, <1>4, <2>1, Executed
<1>5. ASSUME ExecError(c), UNCHANGED next, faults' = 0 => faults = 0,
             op[c] = "revert" => faults' # 0,
             rules' = rules \/ (~detached[c] /\ rules' = [rules EXCEPT ![c] = Effect(@, cmd)])
      PROVE  Tracked(c)'
  <2>1. rules'[c] = rules[c] \/ (~detached[c] /\ rules'[c] = Effect(rules[c], cmd))
    BY <1>3, <1>5
  <2>2. op[c] = "apply" => \A o \in Objects : rules'[c][o] >= rules[c][o]
    BY <1>2, <1>3, <2>1 DEF Effect, Command
  <2>3. CASE req.image
    <3>1. pc'[c] = "remove" /\ bad'[c] = TRUE /\ reported' = reported
      BY <1>5, <2>3 DEF ExecError, Goto, IInv, TypeOK
    <3> QED
      BY <1>1, <1>5, <2>1, <2>2, <3>1, Failed
  <2>4. CASE ~req.image
    <3>1. OpDone(c, TRUE) /\ bad' = bad
      BY <1>5, <2>4 DEF ExecError
    <3> QED
      BY <1>1, <1>2, <1>5, <3>1, OpDoneTracked
  <2> QED
    BY <2>3, <2>4
<1>6. ASSUME CallSucceeds(c), detached[c] \/ ~Accepts(rules[c], cmd), ExecError(c),
             UNCHANGED <<rules, next>>
      PROVE  Tracked(c)'
  <2>1. faults' = faults
    BY <1>6 DEF CallSucceeds
  <2>2. op[c] = "revert" => faults' # 0
    BY <1>2, <1>6, <2>1 DEF Tracked, InvFault
  <2> QED
    BY <1>5, <1>6, <2>1, <2>2
<1>7. ASSUME CallFails(c), ExecError(c), UNCHANGED next,
             \/ rules' = rules
             \/ ~detached[c] /\ Accepts(rules[c], cmd)
                 /\ rules' = [rules EXCEPT ![c] = Effect(@, cmd)]
      PROVE  Tracked(c)'
  <2>1. (faults' = 0 => faults = 0) /\ (op[c] = "revert" => faults' # 0)
    BY <1>7, Types DEF CallFails, CtxDone
  <2> QED
    BY <1>5, <1>7, <2>1
<1> QED
  BY <1>4, <1>6, <1>7 DEF ExecCommand
\* A run begins: the namespaces are clean or an error was reported.
LEMMA RunTracked ==
  ASSUME IInv, IInv', NEW c \in Containers, Tracked(c), RunCommand
  PROVE  Tracked(c)'
<1> PICK A : A = Commands("apply")
  OBVIOUS
<1> PICK R : R = Commands("revert")
  OBVIOUS
<1>1. /\ A = Commands("apply")' /\ R = Commands("revert")' /\ req' = req
  BY CommandsFrame DEF RunCommand
<1>2. A \in Seq(Command) /\ Len(A) \in Nat /\ rules[c] \in [Objects -> Nat]
  BY Types, Mirror
<1>3. /\ pc[c] = "idle" /\ pc'[c] = Entry /\ op'[c] = "apply" /\ next'[c] = 1
      /\ bad'[c] = FALSE /\ lost'[c] = FALSE /\ detached' = detached
      /\ rules' = rules /\ reported' = reported /\ faults' = faults
  BY DEF RunCommand
<1>4. /\ Entry \in {"dry", "exec", "pull", "create"}
      /\ Entry = "dry" => req.dryRun
      /\ Entry = "exec" => ~req.image
  BY DEF Entry
<1>5. InvNext(c)'
  <2>1. 1 <= Last(c)' + 1
    BY <1>1, <1>2, <1>3 DEF Last
  <2>2. detached[c] => req.image /\ rules[c] = Clean
    BY DEF Tracked, InvNext
  <2> QED
    BY <1>1, <1>3, <1>4, <2>1, <2>2 DEF InvNext, Clean
<1>6. InvUpper(c)'
  <2>1. reported[c] = {} => rules[c] = Clean
    BY <1>3 DEF Tracked, InvNext, InvUpper
  <2>2. \A o \in Objects : Most(c, o)' = 0 /\ Clean[o] = 0
    BY <1>1, <1>2, <1>3, CountEnds DEF Most, Clean
  <2> QED
    BY <1>3, <1>4, <2>1, <2>2 DEF InvUpper
<1>7. InvLower(c)'
  <2>1. \A o \in Objects : rules[c][o] >= Applied(A, o, 1)
    BY <1>2, CountEnds
  <2>2. \A i \in 1..Len(A) : ~(i < 1)
    BY <1>2
  <2> QED
    BY <1>1, <1>3, <2>1, <2>2 DEF InvLower
<1>8. InvFault(c)'
  BY <1>3 DEF Tracked, InvFault
<1> QED
  BY <1>5, <1>6, <1>7, <1>8 DEF Tracked

\* The wait ends: what was applied is what the revert has to remove.
LEMMA RevertTracked ==
  ASSUME IInv, IInv', NEW c \in Containers, Tracked(c), BeginRevert(c)
  PROVE  Tracked(c)'
<1> PICK A : A = Commands("apply")
  OBVIOUS
<1> PICK R : R = Commands("revert")
  OBVIOUS
<1>1. /\ A = Commands("apply")' /\ R = Commands("revert")' /\ req' = req
  BY CommandsFrame DEF BeginRevert, globals
<1>2. /\ A \in Seq(Command) /\ Len(A) \in Nat /\ Len(R) \in Nat
      /\ rules[c] \in [Objects -> Nat] /\ (req.tool = "tc" \/ req.tool = "iptables")
  BY Types, Mirror DEF Request
<1>3. /\ pc[c] = "wait" /\ pc'[c] = Entry /\ op'[c] = "revert" /\ next'[c] = 1
      /\ bad'[c] = FALSE /\ lost' = lost /\ detached' = detached
      /\ rules' = rules /\ reported' = reported /\ faults' = faults
  BY DEF BeginRevert, Goto, globals, place, IInv, TypeOK
<1>4. /\ Entry \in {"dry", "exec", "pull", "create"}
      /\ Entry = "dry" => req.dryRun
      /\ Entry = "exec" => ~req.image
  BY DEF Entry
<1>5. ~bad[c] /\ op[c] = "apply" /\ (~req.dryRun => next[c] = Len(A) + 1)
  BY <1>3 DEF Tracked, InvNext
<1>6. \A o \in Objects : Applied(A, o, Len(A) + 1) = Left(A, o, 1)
  BY <1>2, CountEnds
<1>7. InvNext(c)'
  <2>1. 1 <= Last(c)' + 1
    BY <1>1, <1>2, <1>3 DEF Last
  <2>2. detached[c] => req.image /\ rules[c] = Clean
    BY DEF Tracked, InvNext
  <2> QED
    BY <1>1, <1>3, <1>4, <2>1, <2>2 DEF InvNext, Clean
<1>8. InvUpper(c)'
  <2>1. req.tool = "tc" => ~(1 > Len(R))
    BY <1>2, Types, Mirror
  <2>2. ASSUME reported[c] = {}, req.tool = "iptables", ~req.dryRun, NEW o \in Objects
        PROVE  rules[c][o] <= Left(A, o, 1)
    BY <1>3, <1>5, <1>6, <2>2 DEF Tracked, InvUpper, Most
  <2> QED
    BY <1>1, <1>3, <1>4, <2>1, <2>2 DEF InvUpper, Most
<1>9. InvLower(c)'
  <2> SUFFICES ASSUME ~lost[c], ~req.dryRun
               PROVE  InvLower(c)'
    BY <1>1, <1>3 DEF InvLower
  <2>1. /\ \A o \in Objects : rules[c][o] >= Left(A, o, 1)
        /\ \A i \in 1..Len(A) : i < Len(A) + 1 => A[i].obj \notin BadFilters
    BY <1>3, <1>5, <1>6 DEF Tracked, InvLower
  <2>2. ASSUME req.tool = "tc", NEW j \in 1..Len(R)
        PROVE  rules[c][R[j].obj] > 0
    <3>1. PICK i \in 1..Len(A) : A[i].obj = R[j].obj
      BY <2>2, Types, Mirror
    <3>2. i < Len(A) + 1 /\ Len(A) + 1 \in Nat
      BY <1>2
    <3>3. Applied(A, A[i].obj, Len(A) + 1) >= 1
      BY <1>2, <3>2, CountPositive
    <3>4. A[i].obj \in Objects
      <4>1. A[i] \in Command
        BY <1>2, ElementOfSeq
      <4> QED
        BY <4>1 DEF Command
    <3>5. rules[c][A[i].obj] >= Applied(A, A[i].obj, Len(A) + 1) /\ rules[c][A[i].obj] \in Nat
      BY <1>2, <1>6, <2>1, <3>4
    <3>6. Applied(A, A[i].obj, Len(A) + 1) \in Nat
      BY <1>2, <3>2, CountType
    <3> QED
      BY <3>1, <3>3, <3>5, <3>6
  <2>3. \A j \in 1..Len(R) : R[j].obj \notin BadFilters
    <3>1. CASE req.tool = "tc"
      BY <3>1, Types, Mirror
    <3>2. CASE req.tool = "iptables"
      <4>1. Len(R) = Len(A) /\ \A i \in 1..Len(A) : R[i].obj = A[i].obj /\ i < Len(A) + 1
        BY <1>2, <3>2, Types, Mirror
      <4> QED
        BY <2>1, <4>1
    <3> QED
      BY <1>2, <3>1, <3>2
  <2> QED
    BY <1>1, <1>3, <2>1, <2>2, <2>3 DEF InvLower
<1>10. InvFault(c)'
  BY <1>3 DEF Tracked, InvFault
<1> QED
  BY <1>7, <1>8, <1>9, <1>10 DEF Tracked

\* A restarted target has an empty namespace.
LEMMA RestartTracked ==
  ASSUME IInv, IInv', NEW c \in Containers, Tracked(c), Restart(c)
  PROVE  Tracked(c)'
<1>1. /\ req' = req /\ pc' = pc /\ op' = op /\ next' = next /\ bad' = bad
      /\ reported' = reported /\ rules'[c] = Clean /\ lost'[c] = TRUE /\ faults' # 0
  BY Types DEF Restart, IInv, TypeOK
<1>2. detached'[c] => req.image
  <2>1. PICK S : detached' = [detached EXCEPT ![c] = req.image /\ pc[c] \in S]
    BY DEF Restart
  <2>2. detached \in [Containers -> BOOLEAN]
    BY DEF IInv, TypeOK
  <2>3. detached'[c] = (req.image /\ pc[c] \in S)
    BY <2>1, <2>2
  <2> QED
    BY <2>3
<1>3. Commands("apply")' = Commands("apply") /\ Commands("revert")' = Commands("revert")
  BY <1>1, CommandsFrame
<1>4. InvNext(c)'
  BY <1>1, <1>2, <1>3 DEF Tracked, InvNext, Last, Clean
<1>5. InvUpper(c)'
  <2>1. \A o \in Objects : 0 <= Most(c, o)' /\ Clean[o] = 0
    BY <1>1, <1>3, CleanIsLeast DEF Most
  <2> QED
    BY <1>1, <2>1 DEF InvUpper, Clean
<1>6. InvLower(c)' /\ InvFault(c)'
  BY <1>1 DEF InvLower, InvFault
<1> QED
  BY <1>4, <1>5, <1>6 DEF Tracked
\* A closure, and a restart, concern one target.
LEMMA Elsewhere ==
  ASSUME IInv, NEW c \in Containers, NEW d \in Containers, d # c, Closure(d) \/ Restart(d)
  PROVE  /\ req' = req /\ pc'[c] = pc[c] /\ op'[c] = op[c] /\ next'[c] = next[c]
         /\ bad'[c] = bad[c] /\ rules'[c] = rules[c] /\ reported'[c] = reported[c]
         /\ lost'[c] = lost[c] /\ detached'[c] = detached[c]
         /\ faults' = 0 => faults = 0
<1> USE DEF globals, place
<1>0. /\ faults \in Nat /\ c \in DOMAIN pc /\ c \in DOMAIN op /\ c \in DOMAIN next
      /\ c \in DOMAIN bad /\ c \in DOMAIN rules /\ c \in DOMAIN reported
      /\ c \in DOMAIN lost /\ c \in DOMAIN detached
  BY Types DEF IInv, TypeOK
<1>1. \A p : Goto(d, p) => pc'[c] = pc[c]
  BY <1>0 DEF Goto
<1>2. \A f : OpDone(d, f) => pc'[c] = pc[c] /\ reported'[c] = reported[c]
  BY <1>0 DEF OpDone, Goto
<1>3. CallFails(d) \/ CallSucceeds(d) => (faults' = 0 => faults = 0)
  BY <1>0 DEF CallFails, CallSucceeds
<1>4. CASE DryRun(d)
  BY <1>2, <1>4 DEF DryRun
<1>5. CASE PullImage(d)
  BY <1>1, <1>2, <1>3, <1>5 DEF PullImage
<1>6. CASE CreateSidecar(d)
  BY <1>0, <1>1, <1>2, <1>3, <1>6 DEF CreateSidecar
<1>7. CASE StartSidecar(d)
  BY <1>0, <1>1, <1>3, <1>7 DEF StartSidecar
<1>8. CASE ExecCommand(d)
  <2>1. ExecError(d) => pc'[c] = pc[c] /\ reported'[c] = reported[c] /\ bad'[c] = bad[c]
    BY <1>0, <1>1, <1>2 DEF ExecError
  <2> QED
    BY <1>0, <1>3, <1>8, <2>1 DEF ExecCommand
<1>9. CASE CommandsDone(d)
  BY <1>1, <1>2, <1>9 DEF CommandsDone
<1>10. CASE RemoveSidecar(d)
  BY <1>0, <1>2, <1>10 DEF RemoveSidecar
<1>11. CASE BeginRevert(d)
  BY <1>0, <1>1, <1>11 DEF BeginRevert
<1>12. CASE Restart(d)
  <2>1. \E x : detached' = [detached EXCEPT ![d] = x]
    BY <1>12 DEF Restart
  <2>2. detached'[c] = detached[c]
    BY <1>0, <2>1
  <2>3. lost'[c] = lost[c] /\ rules'[c] = rules[c]
    BY <1>0, <1>12 DEF Restart
  <2>4. faults' # 0
    BY <1>0, <1>12 DEF Restart
  <2> QED
    BY <1>12, <2>2, <2>3, <2>4 DEF Restart
<1> QED
  BY <1>4, <1>5, <1>6, <1>7, <1>8, <1>9, <1>10, <1>11, <1>12 DEF Closure

\* Every step keeps track of every target.
LEMMA TrackedPreserved ==
  ASSUME IInv, IInv', InvTracked, [Next]_vars
  PROVE  InvTracked'
<1> SUFFICES ASSUME NEW c \in Containers
             PROVE  Tracked(c)'
  BY DEF InvTracked
<1> USE DEF globals, place
<1>0. Tracked(c)
  BY DEF InvTracked
<1>1. CASE RunCommand
  BY <1>0, <1>1, RunTracked
<1>2. CASE Cancel \/ UNCHANGED vars \/ (\E d \in Containers : Expire(d))
  BY <1>0, <1>2, Frame DEF Cancel, Expire, vars
<1>3. ASSUME NEW d \in Containers, d # c, Closure(d) \/ Restart(d)
      PROVE  Tracked(c)'
  <2>1. /\ req' = req /\ pc'[c] = pc[c] /\ op'[c] = op[c] /\ next'[c] = next[c]
        /\ bad'[c] = bad[c] /\ rules'[c] = rules[c] /\ reported'[c] = reported[c]
        /\ lost'[c] = lost[c] /\ detached'[c] = detached[c]
        /\ faults' = 0 => faults = 0
    BY <1>3, Elsewhere
  <2> QED
    BY <1>0, <2>1, Frame
<1>4. CASE DryRun(c)
  <2>1. OpDone(c, FALSE) /\ pc[c] = "dry"
    BY <1>4 DEF DryRun
  <2>2. req.dryRun /\ ~bad[c]
    BY <1>0, <2>1 DEF Tracked, InvNext
  <2> QED
    BY <1>0, <1>4, <2>1, <2>2, OpDoneTracked DEF DryRun
<1>5. ASSUME pc[c] \in {"pull", "create"}, CallFails(c), OpDone(c, TRUE),
             UNCHANGED <<req, op, next, bad, rules, lost, detached>>
      PROVE  Tracked(c)'
  <2>1. ~bad[c] /\ (faults' = 0 => faults = 0) /\ (op[c] = "revert" => faults' # 0)
    BY <1>0, <1>5, Types DEF CallFails, CtxDone, Tracked, InvNext
  <2> QED
    BY <1>0, <1>5, <2>1, OpDoneTracked
<1>6. ASSUME \/ pc[c] = "pull" /\ pc'[c] = "create"
             \/ pc[c] = "create" /\ pc'[c] = "start"
             \/ pc[c] = "start" /\ pc'[c] = "exec",
             detached'[c] => detached[c] /\ pc'[c] # "start",
             faults' = faults,
             UNCHANGED <<req, op, next, bad, rules, reported, lost>>
      PROVE  Tracked(c)'
  <2>1. Commands("apply")' = Commands("apply") /\ Commands("revert")' = Commands("revert")
    BY <1>6, CommandsFrame
  <2>2. InvNext(c)'
    <3>1. Last(c)' = Last(c)
      BY <1>6, <2>1 DEF Last
    <3>2. Last(c) \in Nat
      BY Types, CommandsType DEF Last
    <3> QED
      BY <1>0, <1>6, <3>1, <3>2, Types DEF Tracked, InvNext, Clean
  <2>3. InvUpper(c)'
    BY <1>0, <1>6, <2>1 DEF Tracked, InvUpper, Most, Clean
  <2>4. InvLower(c)'
    BY <1>0, <1>6, <2>1 DEF Tracked, InvLower
  <2>5. InvFault(c)'
    BY <1>0, <1>6 DEF Tracked, InvFault
  <2> QED
    BY <2>2, <2>3, <2>4, <2>5 DEF Tracked
<1>7. CASE PullImage(c)
  <2>1. CASE CallFails(c) /\ OpDone(c, TRUE)
    BY <1>5, <1>7, <2>1 DEF PullImage
  <2>2. CASE CallSucceeds(c) /\ Goto(c, "create") /\ UNCHANGED reported
    <3>1. /\ pc[c] = "pull" /\ pc'[c] = "create" /\ faults' = faults
          /\ UNCHANGED <<req, op, next, bad, rules, reported, lost>>
          /\ detached'[c] => detached[c] /\ pc'[c] # "start"
      BY <1>7, <2>2 DEF PullImage, CallSucceeds, Goto, IInv, TypeOK
    <3> QED
      BY <1>6, <3>1
  <2> QED
    BY <1>7, <2>1, <2>2 DEF PullImage
<1>8. CASE CreateSidecar(c)
  <2>1. CASE CallFails(c) /\ OpDone(c, TRUE) /\ UNCHANGED detached
    BY <1>5, <1>8, <2>1 DEF CreateSidecar
  <2>2. CASE /\ CallSucceeds(c) /\ Goto(c, "start") /\ UNCHANGED reported
             /\ detached' = [detached EXCEPT ![c] = FALSE]
    <3>1. /\ pc[c] = "create" /\ pc'[c] = "start" /\ faults' = faults
          /\ UNCHANGED <<req, op, next, bad, rules, reported, lost>>
          /\ detached'[c] => detached[c] /\ pc'[c] # "start"
      BY <1>8, <2>2 DEF CreateSidecar, CallSucceeds, Goto, IInv, TypeOK
    <3> QED
      BY <1>6, <3>1
  <2> QED
    BY <1>8, <2>1, <2>2 DEF CreateSidecar
<1>9. CASE StartSidecar(c)
  <2>1. CASE CallSucceeds(c) /\ Goto(c, "exec") /\ UNCHANGED bad
    BY <1>6, <1>9, <2>1 DEF StartSidecar, CallSucceeds, Goto, IInv, TypeOK
  <2>2. CASE /\ CallFails(c) \/ (detached[c] /\ UNCHANGED faults)
             /\ Goto(c, "remove") /\ bad' = [bad EXCEPT ![c] = TRUE]
    <3>1. pc'[c] = "remove" /\ bad'[c] = TRUE
      BY <2>2 DEF Goto, IInv, TypeOK
    <3>2. (faults' = 0 => faults = 0) /\ (op[c] = "revert" => faults' # 0)
      BY <1>0, <2>2, Types DEF CallFails, CtxDone, Tracked, InvFault
    <3>3. \A o \in Objects : rules'[c][o] >= rules[c][o]
      BY <1>9, Types DEF StartSidecar
    <3> QED
      BY <1>0, <1>9, <3>1, <3>2, <3>3, Failed DEF StartSidecar
  <2> QED
    BY <1>9, <2>1, <2>2 DEF StartSidecar
<1>10. CASE ExecCommand(c)
  BY <1>0, <1>10, ExecTracked
<1>11. CASE CommandsDone(c)
  <2>1. /\ pc[c] = "exec" /\ ~bad[c] /\ next[c] = Last(c) + 1
    <3>1. Len(Commands(op[c])) = Last(c) /\ Last(c) \in Nat /\ pc[c] = "exec"
      BY <1>11, Types, CommandsType, LenProperties DEF Last, CommandsDone
    <3> QED
      BY <1>0, <1>11, <3>1, Types DEF CommandsDone, Tracked, InvNext
  <2>2. CASE ~req.image
    BY <1>0, <1>11, <2>1, <2>2, OpDoneTracked DEF CommandsDone
  <2>3. CASE req.image
    <3>1. /\ pc'[c] = "remove" /\ req' = req
          /\ UNCHANGED <<op, next, bad, rules, reported, lost, detached, faults>>
      BY <1>11, <2>3 DEF CommandsDone, Goto, IInv, TypeOK
    <3>2. Commands("apply")' = Commands("apply") /\ Commands("revert")' = Commands("revert")
      BY <3>1, CommandsFrame
    <3>3. InvNext(c)'
      BY <1>0, <2>1, <3>1, <3>2 DEF Tracked, InvNext, Last, Clean
    <3>4. InvUpper(c)'
      BY <1>0, <2>1, <3>1, <3>2 DEF Tracked, InvUpper, Most, Clean
    <3>5. InvLower(c)'
      BY <1>0, <2>1, <3>1, <3>2 DEF Tracked, InvLower
    <3>6. InvFault(c)'
      BY <1>0, <3>1 DEF Tracked, InvFault
    <3> QED
      BY <3>3, <3>4, <3>5, <3>6 DEF Tracked
  <2> QED
    BY <2>2, <2>3
<1>12. CASE RemoveSidecar(c)
  <2>1. PICK f \in BOOLEAN : OpDone(c, f) /\ (bad[c] => f) /\ (faults' = 0 => faults = 0)
                             /\ (f => bad[c] \/ faults' # 0)
    <3>1. bad[c] \in BOOLEAN /\ faults \in Nat
      BY Types DEF IInv, TypeOK
    <3>2. CASE OpDone(c, bad[c]) /\ UNCHANGED faults
      BY <3>1, <3>2
    <3>3. CASE faults' = faults + 1 /\ OpDone(c, bad[c] \/ req.runtime = "docker")
      <4>1. (bad[c] \/ req.runtime = "docker") \in BOOLEAN /\ faults' # 0
        BY <3>1, <3>3
      <4> QED
        BY <3>1, <3>3, <4>1
    <3> QED
      BY <1>12, <3>2, <3>3 DEF RemoveSidecar
  <2>2. f /\ op[c] = "revert" => faults' # 0
    BY <1>0, <2>1 DEF Tracked, InvFault
  <2>3. ~f => next[c] = Last(c) + 1
    BY <1>0, <1>12, <2>1 DEF RemoveSidecar, Tracked, InvNext
  <2> QED
    BY <1>0, <1>12, <2>1, <2>2, <2>3, OpDoneTracked DEF RemoveSidecar
<1>13. CASE BeginRevert(c)
  BY <1>0, <1>13, RevertTracked
<1>14. CASE Restart(c)
  BY <1>0, <1>14, RestartTracked
<1> QED
  BY <1>1, <1>2, <1>3, <1>4, <1>7, <1>8, <1>9, <1>10, <1>11, <1>12, <1>13, <1>14 DEF Next,
     Closure
\* Both parts of the inductive invariant are invariants of the specification.
THEOREM Tracking == Spec => [](IInv /\ InvTracked)
<1>1. Init => IInv /\ InvTracked
  BY InitIInv, InitTracked
<1>2. IInv /\ InvTracked /\ [Next]_vars => IInv' /\ InvTracked'
  BY IInvPreserved, TrackedPreserved
<1> QED
  BY <1>1, <1>2, PTL DEF Spec

-----------------------------------------------------------------------------
(* The properties of network chaos *)

\* A closure that has returned and reported nothing left nothing.
LEMMA ReturnedIsClean ==
  ASSUME InvTracked
  PROVE  NoSilentLeak
BY DEF InvTracked, Tracked, InvNext, InvUpper, NoSilentLeak

(***************************************************************************)
(* Rules are left behind only with an error: whatever fails, wherever a    *)
(* signal, a deadline or a restart of the target comes, and however often  *)
(* the request names a filter, a namespace still holding rules when its    *)
(* closure has returned is one an apply or a revert reported an error for. *)
(***************************************************************************)
THEOREM NoSilentLeakHolds == Spec => []NoSilentLeak
<1>1. IInv /\ InvTracked => NoSilentLeak
  BY ReturnedIsClean
<1> QED
  BY Tracking, <1>1, PTL

(***************************************************************************)
(* With a runtime that does not fail, cancellation and deadlines at any    *)
(* moment leave no rules behind an apply that succeeded: the revert has a  *)
(* context of its own and the kernel takes each of its commands.           *)
(***************************************************************************)
THEOREM RevertSurvivesCancelHolds == Spec => []RevertSurvivesCancel
<1>1. IInv /\ InvTracked => RevertSurvivesCancel
  <2> SUFFICES ASSUME IInv, InvTracked, NEW c \in Containers, faults = 0, pc[c] = "idle",
                      "apply" \notin reported[c]
               PROVE  rules[c] = Clean
    BY DEF RevertSurvivesCancel
  <2>1. "revert" \notin reported[c]
    BY DEF InvTracked, Tracked, InvFault
  <2>2. reported[c] = {}
    BY <2>1, Types
  <2> QED
    BY <2>2, ReturnedIsClean DEF NoSilentLeak
<1> QED
  BY Tracking, <1>1, PTL

(***************************************************************************)
(* A closure waits for --duration only when every rule of the apply is in  *)
(* the namespace, unless the target was restarted since the run began.     *)
(***************************************************************************)
THEOREM AppliedInFullHolds == Spec => []AppliedInFull
<1>1. IInv /\ InvTracked => AppliedInFull
  <2> SUFFICES ASSUME IInv, InvTracked, NEW c \in Containers, pc[c] = "wait",
                      ~req.dryRun, ~lost[c], NEW A, A = Commands("apply"), NEW i \in 1..Len(A)
               PROVE  rules[c][A[i].obj] > 0
    BY DEF AppliedInFull
  <2>1. /\ A \in Seq(Command) /\ Len(A) \in Nat /\ rules[c] \in [Objects -> Nat]
        /\ op[c] = "apply" /\ next[c] = Len(A) + 1
    BY Types, Mirror DEF InvTracked, Tracked, InvNext
  <2>2. A[i].obj \in Objects
    <3>1. A[i] \in Command
      BY <2>1, ElementOfSeq
    <3> QED
      BY <3>1 DEF Command
  <2>3. rules[c][A[i].obj] >= Applied(A, A[i].obj, Len(A) + 1)
    BY <2>1, <2>2 DEF InvTracked, Tracked, InvLower
  <2>4. Applied(A, A[i].obj, Len(A) + 1) >= 1 /\ Applied(A, A[i].obj, Len(A) + 1) \in Nat
    BY <2>1, CountPositive, CountType
  <2> QED
    BY <2>1, <2>2, <2>3, <2>4
<1> QED
  BY Tracking, <1>1, PTL

-----------------------------------------------------------------------------
(* The lease *)

\* A closure starts with the lease.
LEMMA InitLease == Init => Lease!Init
<1> SUFFICES ASSUME Init
             PROVE  Lease!Init
  OBVIOUS
<1>1. Phase = [c \in Containers |-> "idle"]
  BY DEF Init, Phase
<1>2. [c \in Containers |-> rules[c] # Clean] = [c \in Containers |-> FALSE]
  <2>1. \A c \in Containers : (rules[c] # Clean) = FALSE
    BY DEF Init
  <2> QED
    BY <2>1
<1>3. [c \in Containers |-> reported[c] # {}] = [c \in Containers |-> FALSE]
  <2>1. \A c \in Containers : (reported[c] # {}) = FALSE
    BY DEF Init
  <2> QED
    BY <2>1
<1> QED
  BY <1>1, <1>2, <1>3 DEF Init, Lease!Init

\* What one step does to the phase, the rules and the reports of a target.
LEMMA StepOfTarget ==
  ASSUME IInv, IInv', InvTracked, Next, NEW c \in Containers
  PROVE  /\ req' = req /\ reported[c] \subseteq reported'[c]
         /\ pc[c] = "wait" /\ pc'[c] = "wait" => rules'[c] = rules[c] \/ lost'[c]
         /\ \/ pc[c] = "idle" /\ pc'[c] # "wait" /\ op'[c] = "apply"
            \/ pc'[c] = pc[c] /\ op'[c] = op[c]
            \/ pc[c] = "wait" /\ pc'[c] # "wait" /\ pc'[c] # "idle" /\ op'[c] = "revert"
            \/ /\ pc[c] # "wait" /\ pc[c] # "idle" /\ op'[c] = op[c]
               /\ pc'[c] = "wait" => op[c] = "apply"
<1> USE DEF globals, place
<1>0. /\ c \in DOMAIN pc /\ c \in DOMAIN op /\ c \in DOMAIN rules /\ c \in DOMAIN reported
      /\ c \in DOMAIN lost
  BY DEF IInv, TypeOK
<1>1. CASE RunCommand
  BY <1>1 DEF RunCommand, Entry
<1>2. CASE Cancel \/ (\E d \in Containers : Expire(d))
  BY <1>2 DEF Cancel, Expire
<1>3. ASSUME NEW d \in Containers, d # c, Closure(d) \/ Restart(d)
      PROVE  /\ req' = req /\ reported[c] = reported'[c] /\ rules'[c] = rules[c]
             /\ pc'[c] = pc[c] /\ op'[c] = op[c]
  BY <1>3, Elsewhere
<1>4. ASSUME NEW f, OpDone(c, f)
      PROVE  /\ reported[c] \subseteq reported'[c]
             /\ pc'[c] = "wait" => op[c] = "apply"
  BY <1>0, <1>4 DEF OpDone, Goto
<1>5. CASE DryRun(c)
  BY <1>4, <1>5 DEF DryRun
<1>6. ASSUME NEW p, Goto(c, p)
      PROVE  pc'[c] = p
  BY <1>0, <1>6 DEF Goto
<1>7. CASE PullImage(c)
  BY <1>4, <1>6, <1>7 DEF PullImage
<1>8. CASE CreateSidecar(c)
  BY <1>4, <1>6, <1>8 DEF CreateSidecar
<1>9. CASE StartSidecar(c)
  BY <1>6, <1>9 DEF StartSidecar
<1>10. CASE ExecCommand(c)
  <2>1. \/ UNCHANGED <<pc, reported>>
        \/ ExecError(c)
    BY <1>10 DEF ExecCommand
  <2>2. ExecError(c) => /\ reported[c] \subseteq reported'[c]
                        /\ pc'[c] = "wait" => op[c] = "apply"
    BY <1>4, <1>6 DEF ExecError
  <2> QED
    BY <1>10, <2>1, <2>2 DEF ExecCommand
<1>11. CASE CommandsDone(c)
  BY <1>4, <1>6, <1>11 DEF CommandsDone
<1>12. CASE RemoveSidecar(c)
  BY <1>4, <1>12 DEF RemoveSidecar
<1>13. CASE BeginRevert(c)
  BY <1>0, <1>6, <1>13 DEF BeginRevert, Entry
<1>14. CASE Restart(c)
  BY <1>0, <1>14 DEF Restart
<1>15. (\E d \in Containers : Closure(d) \/ Restart(d)) \/ RunCommand \/ Cancel
         \/ (\E d \in Containers : Expire(d))
  BY DEF Next
<1> QED
  BY <1>1, <1>2, <1>3, <1>5, <1>7, <1>8, <1>9, <1>10, <1>11, <1>12, <1>13, <1>14, <1>15
  DEF Closure

\* Each step is a step of the lease.
LEMMA StepLease ==
  ASSUME IInv, IInv', InvTracked, InvTracked', Next
  PROVE  Lease!Next
<1>1. Phase' \in [Containers -> Lease!Phases]
  BY DEF Phase, Lease!Phases
<1>2. [c \in Containers |-> rules[c] # Clean]' \in [Containers -> BOOLEAN]
  <2>1. \A c \in Containers : (rules[c] # Clean)' \in BOOLEAN
    OBVIOUS
  <2> QED
    BY <2>1
<1>3. [c \in Containers |-> reported[c] # {}]' \in [Containers -> BOOLEAN]
  <2>1. \A c \in Containers : (reported[c] # {})' \in BOOLEAN
    OBVIOUS
  <2> QED
    BY <2>1
<1>4. lost' \in [Containers -> BOOLEAN]
  BY DEF IInv, TypeOK
<1>5. ASSUME NEW c \in Containers
      PROVE  Lease!Moves(c) /\ Lease!Holds(c) /\ Lease!Honest(c)
  <2>1. /\ req' = req /\ reported[c] \subseteq reported'[c]
        /\ pc[c] = "wait" /\ pc'[c] = "wait" => rules'[c] = rules[c] \/ lost'[c]
        /\ \/ pc[c] = "idle" /\ pc'[c] # "wait" /\ op'[c] = "apply"
           \/ pc'[c] = pc[c] /\ op'[c] = op[c]
           \/ pc[c] = "wait" /\ pc'[c] # "wait" /\ pc'[c] # "idle" /\ op'[c] = "revert"
           \/ /\ pc[c] # "wait" /\ pc[c] # "idle" /\ op'[c] = op[c]
              /\ pc'[c] = "wait" => op[c] = "apply"
    BY StepOfTarget
  <2>2. Lease!Moves(c)
    BY <2>1, Types DEF Lease!Moves, Phase
  <2>3. Lease!Holds(c)
    BY <2>1 DEF Lease!Holds, Phase, Clean
  <2>4. (pc'[c] = "idle" \/ req'.dryRun) /\ rules'[c] # Clean => reported'[c] # {}
    BY DEF InvTracked, Tracked, InvNext, InvUpper, IInv, InvPlace, Clean
  <2>5. Lease!Honest(c)
    BY <2>1, <2>4 DEF Lease!Honest, Phase, Clean
  <2> QED
    BY <2>2, <2>3, <2>5
<1> QED
  BY <1>1, <1>2, <1>3, <1>4, <1>5 DEF Lease!Next

(***************************************************************************)
(* netem and iptables implement the safety part of the lease, step by      *)
(* step, on every target: a step of a closure, of the context or of a      *)
(* restarting target is a step of ReversibleChaos or leaves it alone.      *)
(***************************************************************************)
THEOREM ImplementsLease == Spec => Lease!Safe
<1>1. (IInv /\ InvTracked) /\ (IInv /\ InvTracked)' /\ [Next]_vars => [Lease!Next]_(Lease!lease)
  <2> SUFFICES ASSUME UNCHANGED vars
               PROVE  UNCHANGED Lease!lease
    BY StepLease
  <2> QED
    BY DEF vars, Lease!lease, Phase, Clean
<1> QED
  BY InitLease, Tracking, <1>1, PTL DEF Spec, Lease!Safe
=============================================================================
