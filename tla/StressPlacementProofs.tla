----------------------- MODULE StressPlacementProofs -----------------------
(***************************************************************************)
(* Proofs about where a stress test runs, for every set of situations: any *)
(* cgroup path, any sub-cgroup, any order of the look-ups and of what      *)
(* happens to the target meanwhile.                                        *)
(***************************************************************************)
EXTENDS StressTestProofs, SequenceTheorems, FiniteSetTheorems

-----------------------------------------------------------------------------
(* Paths *)

\* A path without its last segment.
LEMMA FrontOf ==
  ASSUME NEW S, NEW p \in Seq(S), p # <<>>
  PROVE  /\ P!Front(p) \in Seq(S) /\ Len(P!Front(p)) = Len(p) - 1 /\ Len(p) > 0
         /\ \A i \in 1..Len(p) - 1 : P!Front(p)[i] = p[i]
<1>1. Len(p) \in Nat /\ Len(p) > 0
  BY EmptySeq
<1> PICK n : n = Len(p) - 1
  OBVIOUS
<1>2. n \in Nat /\ n <= Len(p)
  BY <1>1
<1>3. /\ SubSeq(p, 1, n) \in Seq(S) /\ Len(SubSeq(p, 1, n)) = n
      /\ \A i \in 1..n : SubSeq(p, 1, n)[i] = p[i]
  BY <1>2
<1> QED
  BY <1>1, <1>3 DEF P!Front

\* A path is its front and its last segment.
LEMMA Rebuilt ==
  ASSUME NEW S, NEW p \in Seq(S), p # <<>>
  PROVE  P!Last(p) \in S /\ Append(P!Front(p), P!Last(p)) = p
<1> PICK f : f = P!Front(p)
  OBVIOUS
<1>1. f \in Seq(S) /\ Len(f) = Len(p) - 1 /\ Len(p) > 0 /\ \A i \in 1..Len(p) - 1 : f[i] = p[i]
  BY FrontOf
<1>2. P!Last(p) = p[Len(p)] /\ p[Len(p)] \in S
  BY <1>1 DEF P!Last
<1> PICK e : e = p[Len(p)]
  OBVIOUS
<1> PICK q : q = Append(f, e)
  OBVIOUS
<1>3. q \in Seq(S) /\ Len(q) = Len(p)
  BY <1>1, <1>2
<1>4. \A i \in 1..Len(p) : q[i] = p[i]
  BY <1>1, <1>2, AppendProperties
<1>5. q = p
  BY <1>3, <1>4, SeqEqual
<1> QED
  BY <1>2, <1>5

\* What was appended is last.
LEMMA FrontOfAppend ==
  ASSUME NEW S, NEW p \in Seq(S), NEW e \in S
  PROVE  P!Front(Append(p, e)) = p
<1> PICK q : q = Append(p, e)
  OBVIOUS
<1>1. /\ q \in Seq(S) /\ q # <<>> /\ Len(q) = Len(p) + 1
      /\ \A i \in 1..Len(p) : q[i] = p[i]
  BY AppendProperties
<1> PICK f : f = P!Front(q)
  OBVIOUS
<1>2. f \in Seq(S) /\ Len(f) = Len(q) - 1 /\ \A i \in 1..Len(q) - 1 : f[i] = q[i]
  BY <1>1, FrontOf
<1>3. Len(f) = Len(p) /\ \A i \in 1..Len(f) : f[i] = p[i]
  BY <1>1, <1>2
<1> QED
  BY <1>2, <1>3, SeqEqual

\* A prefix is a path that agrees as far as it goes.
LEMMA PrefixMeans ==
  ASSUME NEW S, NEW p \in Seq(S), NEW q \in Seq(S)
  PROVE  P!IsPrefix(p, q) <=> Len(p) <= Len(q) /\ \A i \in 1..Len(p) : p[i] = q[i]
<1>1. SubSeq(p, 1, Len(p)) = p
  BY SubSeqFull
<1>2. ASSUME Len(p) <= Len(q)
      PROVE  /\ SubSeq(q, 1, Len(p)) \in Seq(S) /\ Len(SubSeq(q, 1, Len(p))) = Len(p)
             /\ \A i \in 1..Len(p) : SubSeq(q, 1, Len(p))[i] = q[i]
  BY <1>2
<1>3. ASSUME P!IsPrefix(p, q)
      PROVE  Len(p) <= Len(q) /\ \A i \in 1..Len(p) : p[i] = q[i]
  <2>1. Len(p) <= Len(q) /\ p = SubSeq(q, 1, Len(p))
    BY <1>1, <1>3 DEF P!IsPrefix
  <2> QED
    BY <1>2, <2>1
<1>4. ASSUME Len(p) <= Len(q), \A i \in 1..Len(p) : p[i] = q[i]
      PROVE  P!IsPrefix(p, q)
  <2> PICK r : r = SubSeq(q, 1, Len(p))
    OBVIOUS
  <2>1. r \in Seq(S) /\ Len(r) = Len(p) /\ \A i \in 1..Len(p) : p[i] = r[i]
    BY <1>2, <1>4
  <2>2. p = r
    BY <2>1, SeqEqual
  <2> QED
    BY <1>1, <1>4, <2>2 DEF P!IsPrefix
<1> QED
  BY <1>3, <1>4

\* The child of a path below p is below p.
LEMMA PrefixOfAppend ==
  ASSUME NEW S, NEW p \in Seq(S), NEW q \in Seq(S), NEW e \in S, P!IsPrefix(p, q)
  PROVE  P!IsPrefix(p, Append(q, e))
<1>1. Len(p) <= Len(q) /\ \A i \in 1..Len(p) : p[i] = q[i]
  BY PrefixMeans
<1> PICK r : r = Append(q, e)
  OBVIOUS
<1>2. r \in Seq(S) /\ Len(r) = Len(q) + 1 /\ \A i \in 1..Len(q) : r[i] = q[i]
  BY AppendProperties
<1>3. Len(p) <= Len(r) /\ \A i \in 1..Len(p) : p[i] = r[i]
  BY <1>1, <1>2
<1> QED
  BY <1>2, <1>3, PrefixMeans

\* A path cut not before the end of p is still below p.
LEMMA PrefixOfCut ==
  ASSUME NEW S, NEW p \in Seq(S), NEW q \in Seq(S), P!IsPrefix(p, q), NEW r \in Seq(S),
         Len(p) <= Len(r), Len(r) <= Len(q), \A i \in 1..Len(r) : r[i] = q[i]
  PROVE  P!IsPrefix(p, r)
<1>1. Len(p) <= Len(q) /\ \A i \in 1..Len(p) : p[i] = q[i]
  BY PrefixMeans
<1>2. Len(p) <= Len(r) /\ \A i \in 1..Len(p) : p[i] = r[i]
  BY <1>1
<1> QED
  BY <1>2, PrefixMeans

\* So is the front of a longer one.
LEMMA PrefixOfFront ==
  ASSUME NEW S, NEW p \in Seq(S), NEW q \in Seq(S), P!IsPrefix(p, q), Len(p) < Len(q)
  PROVE  P!Front(q) \in Seq(S) /\ P!IsPrefix(p, P!Front(q))
<1> PICK r : r = P!Front(q)
  OBVIOUS
<1>1. Len(p) \in Nat /\ Len(q) \in Nat /\ q # <<>>
  OBVIOUS
<1>2. r \in Seq(S) /\ Len(r) = Len(q) - 1 /\ \A i \in 1..Len(q) - 1 : r[i] = q[i]
  BY <1>1, FrontOf
<1>3. Len(p) <= Len(r) /\ Len(r) <= Len(q) /\ \A i \in 1..Len(r) : r[i] = q[i]
  BY <1>1, <1>2
<1>4. P!IsPrefix(p, r)
  BY <1>2, <1>3, PrefixOfCut
<1> QED
  BY <1>2, <1>4

\* A sub-cgroup lies below its cgroup.
LEMMA PrefixOfConcat ==
  ASSUME NEW S, NEW p \in Seq(S), NEW q \in Seq(S)
  PROVE  p \o q \in Seq(S) /\ P!IsPrefix(p, p \o q) /\ Len(p \o q) = Len(p) + Len(q)
<1> PICK r : r = p \o q
  OBVIOUS
<1>1. /\ r \in Seq(S) /\ Len(r) = Len(p) + Len(q)
      /\ \A i \in 1..Len(p) + Len(q) : r[i] = IF i <= Len(p) THEN p[i] ELSE q[i - Len(p)]
  BY ConcatProperties
<1>2. Len(p) <= Len(r) /\ \A i \in 1..Len(p) : p[i] = r[i]
  BY <1>1
<1> QED
  BY <1>1, <1>2, PrefixMeans

\* A path is below itself.
LEMMA PrefixOfSelf ==
  ASSUME NEW S, NEW p \in Seq(S)
  PROVE  P!IsPrefix(p, p)
BY PrefixMeans

-----------------------------------------------------------------------------
(* truncateToContainerScope *)

\* A set of numbers that is bounded has a greatest one.  (The sets of those from m on are
\* finite, and a least one among them begins with it.)
LEMMA MaxExists ==
  ASSUME NEW n \in Nat, NEW I \in SUBSET (1..n), I # {}
  PROVE  \E m \in I : \A k \in I : m >= k
<1> DEFINE From(m) == {k \in I : k >= m}
           T == {From(m) : m \in I}
<1>6. IsFiniteSet(1..n)
  BY FS_Interval
<1>1. IsFiniteSet(I)
  BY <1>6, FS_Subset
<1>2. T \subseteq FiniteSubsetsOf(I) /\ T # {}
  <2>1. \A m \in I : From(m) \in SUBSET I
    OBVIOUS
  <2> HIDE DEF From
  <2>2. \A m \in I : IsFiniteSet(From(m))
    BY <1>1, <2>1, FS_Subset
  <2> QED
    BY <2>1, <2>2 DEF FiniteSubsetsOf
<1>3. PICK X \in T : \A Y \in T : ~(<<Y, X>> \in StrictSubsetOrdering(I))
  <2> HIDE DEF T
  <2> QED BY <1>2, FS_StrictSubsetOrderingWellFounded, WFMin
<1>4. PICK m \in I : X = From(m)
  BY <1>3
<1>5. ASSUME NEW k \in I, k > m
      PROVE  FALSE
  <2>3. From(k) \in T
    BY <1>5
  <2>4. k \in Int /\ m \in Int
    OBVIOUS
  <2>5. m \in X /\ m \notin From(k)
    BY <1>4, <1>5, <2>4
  <2>6. \A j \in I : j \in Int /\ (j >= k => j >= m)
    BY <1>5, <2>4
  <2>7. From(k) \subseteq X
    BY <1>4, <2>6
  <2>1. From(k) \in T /\ From(k) \subseteq X /\ m \in X /\ m \notin From(k)
    BY <2>3, <2>5, <2>7
  <2>2. <<From(k), X>> \in StrictSubsetOrdering(I)
    BY <1>4, <2>1 DEF StrictSubsetOrdering
  <2> QED
    BY <1>3, <2>1, <2>2
<1> QED
  BY <1>5

\* lastIndexEndingIn finds the rightmost segment of a kind, if there is one.
LEMMA LastIn ==
  ASSUME NEW p \in Seq(P!Segments), NEW K
  PROVE  LET i == P!lastIndexIn(p, K)
         IN  \/ i = 0 /\ \A k \in 1..Len(p) : p[k] \notin K
             \/ i \in 1..Len(p) /\ p[i] \in K /\ \A k \in 1..Len(p) : p[k] \in K => k <= i
<1> DEFINE I == {k \in 1..Len(p) : p[k] \in K}
<1>1. P!lastIndexIn(p, K) = IF I # {} THEN P!Max(I) ELSE 0
  BY DEF P!lastIndexIn, P!SelectLastInSeq
<1>2. ASSUME I # {}
      PROVE  P!Max(I) \in I /\ \A k \in I : P!Max(I) >= k
  <2>1. Len(p) \in Nat /\ I \in SUBSET (1..Len(p))
    OBVIOUS
  <2> HIDE DEF I
  <2> QED BY <1>2, <2>1, MaxExists DEF P!Max
<1> QED
  BY <1>1, <1>2

\* podman cuts what it read at the container's scope or below it, and asks for the
\* scope's slice or for a cgroup below the target's own.
LEMMA Truncated ==
  ASSUME NEW own \in Seq(P!Segments), own # <<>>, P!Last(own) \in {"T", "T.scope"},
         P!Last(own) = "T" => ~P!Systemd(own),
         NEW s \in Seq(P!Segments), NEW cut, cut = P!truncateToContainerScope(own \o s)
  PROVE  /\ cut \in Seq(P!Segments) /\ P!IsPrefix(own, cut)
         /\ P!podmanParent(cut) \in Seq(P!Segments)
         /\ \/ P!IsPrefix(own, P!podmanParent(cut))
            \/ P!podmanParent(cut) = P!Front(own) /\ P!Systemd(own)
<1> PICK p : p = own \o s
  OBVIOUS
<1> PICK n : n = Len(own)
  OBVIOUS
<1>1. /\ p \in Seq(P!Segments) /\ P!IsPrefix(own, p) /\ Len(p) = n + Len(s)
      /\ n \in Nat /\ n > 0 /\ Len(p) \in Nat /\ n <= Len(p)
  BY PrefixOfConcat, EmptySeq
<1>2. \A i \in 1..n : p[i] = own[i]
  BY <1>1, PrefixMeans
<1>3. P!Last(own) = own[n]
  BY DEF P!Last
<1> PICK scope : scope = P!lastIndexIn(p, P!Scopes \ {"init.scope"})
  OBVIOUS
<1> PICK slice : slice = P!lastIndexIn(p, P!Slices)
  OBVIOUS
<1>4. \/ scope = 0 /\ \A k \in 1..Len(p) : p[k] \notin P!Scopes \ {"init.scope"}
      \/ /\ scope \in 1..Len(p) /\ p[scope] \in P!Scopes \ {"init.scope"}
         /\ \A k \in 1..Len(p) : p[k] \in P!Scopes \ {"init.scope"} => k <= scope
  BY <1>1, LastIn
<1>5. \/ slice = 0 /\ \A k \in 1..Len(p) : p[k] \notin P!Slices
      \/ /\ slice \in 1..Len(p) /\ p[slice] \in P!Slices
         /\ \A k \in 1..Len(p) : p[k] \in P!Slices => k <= slice
  BY <1>1, LastIn
<1>6. cut = IF scope > 0 THEN SubSeq(p, 1, scope)
             ELSE IF slice > 0 THEN SubSeq(p, 1, slice) ELSE p
  BY DEF P!truncateToContainerScope
\* A segment of systemd's is not before the end of a path that has none before it.
<1>7. ASSUME NEW k \in 1..Len(p), p[k] \in P!Slices \cup P!Scopes, P!Last(own) = "T"
      PROVE  k > n
  <2>1. ~P!Systemd(own)
    BY <1>7
  <2>2. \A i \in 1..n : own[i] \notin P!Slices \cup P!Scopes
    BY <2>1 DEF P!Systemd
  <2> QED
    BY <1>1, <1>2, <1>7, <2>2
\* Cut at a segment of systemd's, at the end of own or below it.
<1>8. ASSUME NEW k \in 1..Len(p), k >= n, k = n => P!Last(own) = "T.scope",
             p[k] \in P!Slices \cup P!Scopes, cut = SubSeq(p, 1, k)
      PROVE  /\ cut \in Seq(P!Segments) /\ P!IsPrefix(own, cut)
             /\ P!podmanParent(cut) \in Seq(P!Segments)
             /\ \/ P!IsPrefix(own, P!podmanParent(cut))
                \/ P!podmanParent(cut) = P!Front(own) /\ P!Systemd(own)
  <2>9. cut = SubSeq(p, 1, k)
    BY <1>8
  <2>0. k \in Len(own)..Len(p)
    BY <1>1, <1>8
  <2>1. /\ cut \in Seq(P!Segments) /\ Len(cut) = k /\ P!IsPrefix(own, cut)
        /\ \A i \in 1..k : cut[i] = p[i]
    <3>1. cut \in Seq(P!Segments) /\ Len(cut) = k /\ \A i \in 1..k : cut[i] = p[i]
      BY <1>1, <2>9
    <3>2. Len(own) <= Len(cut) /\ Len(cut) <= Len(p) /\ \A i \in 1..Len(cut) : cut[i] = p[i]
      BY <2>0, <3>1
    <3>3. P!IsPrefix(own, cut)
      BY <1>1, <3>1, <3>2, PrefixOfCut
    <3> QED
      BY <3>1, <3>3
  <2>2. cut[k] \in P!Slices \cup P!Scopes /\ k \in 1..k
    BY <1>8, <2>1
  <2>7. k \in DOMAIN cut
    BY <2>1, <2>2
  <2>3. P!Systemd(cut)
    BY <2>2, <2>7 DEF P!Systemd
  <2>4. P!podmanParent(cut) = P!Front(cut)
    BY <2>3 DEF P!podmanParent, P!driverForPath
  <2>5. CASE k > n
    BY <2>1, <2>4, <2>5, PrefixOfFront
  <2>6. CASE k = n
    <3>1. cut = own
      <4>1. Len(cut) = Len(own) /\ \A i \in 1..Len(cut) : cut[i] = own[i]
        BY <1>2, <2>1, <2>6
      <4> QED
        BY <2>1, <4>1, SeqEqual
    <3>2. P!Front(own) \in Seq(P!Segments)
      BY FrontOf
    <3> QED
      BY <2>1, <2>3, <2>4, <3>1, <3>2
  <2> QED
    BY <1>1, <1>8, <2>5, <2>6
<1>9. ASSUME P!Last(own) = "T.scope"
      PROVE  scope >= n /\ scope \in 1..Len(p)
  <2>1. n \in 1..Len(p) /\ n \in 1..n
    BY <1>1
  <2>2. p[n] \in P!Scopes \ {"init.scope"}
    BY <1>2, <1>3, <1>9, <2>1 DEF P!Scopes
  <2> QED
    BY <1>4, <2>1, <2>2
<1>10. CASE scope > 0
  <2>1. scope \in 1..Len(p) /\ p[scope] \in P!Slices \cup P!Scopes
    BY <1>4, <1>10
  <2>2. cut = SubSeq(p, 1, scope)
    BY <1>6, <1>10
  <2>3. scope >= n /\ (scope = n => P!Last(own) = "T.scope")
    BY <1>1, <1>7, <1>9, <2>1
  <2> QED
    BY <1>8, <2>1, <2>2, <2>3
<1>11. CASE ~(scope > 0) /\ slice > 0
  <2>1. slice \in 1..Len(p) /\ p[slice] \in P!Slices \cup P!Scopes
    BY <1>5, <1>11
  <2>2. cut = SubSeq(p, 1, slice)
    BY <1>6, <1>11
  <2>3. slice > n
    BY <1>1, <1>7, <1>9, <1>11, <2>1
  <2>4. slice >= n /\ slice # n
    BY <1>1, <2>1, <2>3
  <2> QED
    BY <1>8, <2>1, <2>2, <2>4
<1>12. CASE ~(scope > 0) /\ ~(slice > 0)
  <2>1. cut = p
    BY <1>6, <1>12
  <2>2. CASE P!Systemd(p)
    <3>1. PICK k \in 1..Len(p) : p[k] \in P!Slices \cup P!Scopes
      BY <1>1, <2>2 DEF P!Systemd
    <3>2. k > n
      BY <1>1, <1>7, <1>9, <1>12, <3>1
    <3>3. Len(own) < Len(p)
      BY <1>1, <3>1, <3>2
    <3>4. P!podmanParent(cut) = P!Front(p)
      BY <2>1, <2>2 DEF P!podmanParent, P!driverForPath
    <3> QED
      BY <1>1, <2>1, <3>3, <3>4, PrefixOfFront
  <2>3. CASE ~P!Systemd(p)
    <3>1. P!podmanParent(cut) = p
      BY <2>1, <2>3 DEF P!podmanParent, P!driverForPath
    <3> QED
      BY <1>1, <2>1, <3>1
  <2> QED
    BY <2>2, <2>3
<1> QED
  BY <1>10, <1>11, <1>12
-----------------------------------------------------------------------------
(* /proc/<pid>/cgroup *)

\* A set of numbers has a least one: counted from the other end, the greatest.
LEMMA MinExists ==
  ASSUME NEW n \in Nat, NEW I \in SUBSET (1..n), I # {}
  PROVE  P!Min(I) \in I
<1> DEFINE J == {k \in 1..n : n + 1 - k \in I}
<1>1. J \in SUBSET (1..n)
  OBVIOUS
<1>2. J # {}
  <2> PICK k \in I : TRUE
    OBVIOUS
  <2>1. k \in 1..n /\ n + 1 - k \in 1..n /\ n + 1 - (n + 1 - k) = k
    OBVIOUS
  <2> QED
    BY <2>1
<1>3. PICK m \in J : \A k \in J : m >= k
  <2> HIDE DEF J
  <2> QED BY <1>1, <1>2, MaxExists
<1>4. n + 1 - m \in I /\ m \in 1..n
  BY <1>3
<1>5. ASSUME NEW k \in I
      PROVE  n + 1 - m <= k
  <2>1. k \in 1..n /\ n + 1 - k \in 1..n /\ n + 1 - (n + 1 - k) = k
    OBVIOUS
  <2>2. m >= n + 1 - k
    BY <1>3, <2>1
  <2> QED
    BY <1>4, <2>1, <2>2
<1> QED
  BY <1>4, <1>5 DEF P!Min

\* The client takes the path of a line of the kind it looks for, or nothing.
LEMMA FirstIsALine ==
  ASSUME NEW ls, Len(ls) \in Nat, NEW k, NEW over
  PROVE  \/ P!FirstOf(ls, k, over) = P!NoPath
         \/ \E i \in 1..Len(ls) : /\ ls[i].kind = k /\ ls[i].path \notin over
                                  /\ P!FirstOf(ls, k, over) = ls[i].path
<1> DEFINE I == {i \in 1..Len(ls) : ls[i].kind = k /\ ls[i].path \notin over}
<1> PICK m : m = IF I # {} THEN P!Min(I) ELSE 0
  OBVIOUS
<1>1. P!FirstOf(ls, k, over) = IF m = 0 THEN P!NoPath ELSE ls[m].path
  BY DEF P!FirstOf, P!SelectInSeq
<1>2. I \in SUBSET (1..Len(ls))
  OBVIOUS
<1>3. m # 0 => m \in I
  <2> HIDE DEF I
  <2> QED BY <1>2, MinExists
<1> QED
  BY <1>1, <1>3

\* One line, of which the kind is looked for or not.
LEMMA FirstOfOne ==
  ASSUME NEW ls, NEW kind, NEW p, NEW k, NEW over, ls = <<P!Line(kind, p)>>
  PROVE  /\ P!FirstOf(ls, k, over) \in {P!NoPath, p}
         /\ kind # k \/ p \in over => P!FirstOf(ls, k, over) = P!NoPath
<1>1. Len(ls) = 1 /\ ls[1].kind = kind /\ ls[1].path = p
  BY DEF P!Line
<1>2. \/ P!FirstOf(ls, k, over) = P!NoPath
      \/ \E i \in 1..Len(ls) : /\ ls[i].kind = k /\ ls[i].path \notin over
                               /\ P!FirstOf(ls, k, over) = ls[i].path
  BY <1>1, FirstIsALine
<1> QED
  BY <1>1, <1>2

\* The lines of the hierarchies of version 1.
LEMMA FirstOfTwo ==
  ASSUME NEW ls, NEW p, NEW k, NEW over,
         ls = <<P!Line("memory", p), P!Line("systemd", p)>>
  PROVE  P!FirstOf(ls, k, over) \in {P!NoPath, p}
<1>1. Len(ls) = 2 /\ ls[1].path = p /\ ls[2].path = p
  BY DEF P!Line
<1>2. \/ P!FirstOf(ls, k, over) = P!NoPath
      \/ \E i \in 1..Len(ls) : /\ ls[i].kind = k /\ ls[i].path \notin over
                               /\ P!FirstOf(ls, k, over) = ls[i].path
  BY <1>1, FirstIsALine
<1> QED
  BY <1>1, <1>2

\* The lines of a hybrid host: the unified one shows the root.
LEMMA FirstOfThree ==
  ASSUME NEW ls, NEW p, NEW k, NEW over,
         ls = <<P!Line("memory", p), P!Line("systemd", p), P!Line("v2", <<>>)>>
  PROVE  /\ k = "v2" => P!FirstOf(ls, k, over) \in {P!NoPath, <<>>}
         /\ k = "v2" /\ <<>> \in over => P!FirstOf(ls, k, over) = P!NoPath
         /\ k \in {"memory", "systemd"} => P!FirstOf(ls, k, over) \in {P!NoPath, p}
<1>1. /\ Len(ls) = 3 /\ ls[1].path = p /\ ls[2].path = p /\ ls[3].path = <<>>
      /\ ls[1].kind = "memory" /\ ls[2].kind = "systemd" /\ ls[3].kind = "v2"
  BY DEF P!Line
<1>2. \/ P!FirstOf(ls, k, over) = P!NoPath
      \/ \E i \in 1..Len(ls) : /\ ls[i].kind = k /\ ls[i].path \notin over
                               /\ P!FirstOf(ls, k, over) = ls[i].path
  BY <1>1, FirstIsALine
<1> QED
  BY <1>1, <1>2

\* What the shapes of the file give the clients.
LEMMA Shapes ==
  ASSUME setup.view \in {"v2", "v1", "hybrid", "private", "junk"}, NEW p,
         NEW ls, ls = P!ProcCgroup(p), NEW over
  PROVE  /\ \/ P!FirstOf(ls, "v2", over) \in {P!NoPath, p}
            \/ P!FirstOf(ls, "v2", over) = <<>> /\ <<>> \notin over
            \/ setup.view = "private" /\ P!FirstOf(ls, "v2", over) = sub /\ sub \notin over
         /\ P!FirstOf(ls, "systemd", over) \in {P!NoPath, p}
         /\ P!FirstOf(ls, "memory", over) \in {P!NoPath, p}
<1>1. CASE setup.view = "v2"
  <2>1. ls = <<P!Line("v2", p)>>
    BY <1>1 DEF P!ProcCgroup
  <2>2. /\ P!FirstOf(ls, "v2", over) \in {P!NoPath, p}
        /\ P!FirstOf(ls, "systemd", over) \in {P!NoPath, p}
        /\ P!FirstOf(ls, "memory", over) \in {P!NoPath, p}
    BY <2>1, FirstOfOne
  <2> QED
    BY <2>2
<1>2. CASE setup.view = "v1"
  <2>1. ls = <<P!Line("memory", p), P!Line("systemd", p)>>
    BY <1>2 DEF P!ProcCgroup
  <2>2. /\ P!FirstOf(ls, "v2", over) \in {P!NoPath, p}
        /\ P!FirstOf(ls, "systemd", over) \in {P!NoPath, p}
        /\ P!FirstOf(ls, "memory", over) \in {P!NoPath, p}
    BY <2>1, FirstOfTwo
  <2> QED
    BY <2>2
<1>3. CASE setup.view = "hybrid"
  <2>1. ls = <<P!Line("memory", p), P!Line("systemd", p), P!Line("v2", <<>>)>>
    BY <1>3 DEF P!ProcCgroup
  <2>2. /\ P!FirstOf(ls, "v2", over) \in {P!NoPath, <<>>}
        /\ <<>> \in over => P!FirstOf(ls, "v2", over) = P!NoPath
        /\ P!FirstOf(ls, "systemd", over) \in {P!NoPath, p}
        /\ P!FirstOf(ls, "memory", over) \in {P!NoPath, p}
    BY <2>1, FirstOfThree
  <2> QED
    BY <2>2
<1>4. CASE setup.view = "private"
  <2>1. ls = <<P!Line("v2", sub)>>
    BY <1>4 DEF P!ProcCgroup
  <2>2. /\ P!FirstOf(ls, "v2", over) \in {P!NoPath, sub}
        /\ sub \in over => P!FirstOf(ls, "v2", over) = P!NoPath
        /\ P!FirstOf(ls, "systemd", over) = P!NoPath
        /\ P!FirstOf(ls, "memory", over) = P!NoPath
    BY <2>1, FirstOfOne
  <2> QED
    BY <1>4, <2>2
<1>5. CASE setup.view = "junk"
  <2>1. ls = <<P!Line("junk", <<>>)>>
    BY <1>5 DEF P!ProcCgroup
  <2>2. /\ P!FirstOf(ls, "v2", over) = P!NoPath
        /\ P!FirstOf(ls, "systemd", over) = P!NoPath
        /\ P!FirstOf(ls, "memory", over) = P!NoPath
    BY <2>1, FirstOfOne
  <2> QED
    BY <2>2
<1> QED
  BY <1>1, <1>2, <1>3, <1>4, <1>5

\* podman's client learns the path of the process, or nothing, or in a private namespace
\* a sub-cgroup it does not know.
LEMMA PodmanReads ==
  ASSUME setup.view \in {"v2", "v1", "hybrid", "private", "junk"}, NEW p,
         NEW raw, raw = P!RawCgroupPath(P!ProcCgroup(p))
  PROVE  \/ raw \in {P!NoPath, p}
         \/ setup.view = "private" /\ raw = sub /\ sub \notin {<<>>, <<"container">>}
<1> PICK ls : ls = P!ProcCgroup(p)
  OBVIOUS
<1> PICK over : over = {}
  OBVIOUS
<1> PICK a : a = P!FirstOf(ls, "v2", over)
  OBVIOUS
<1> PICK b : b = P!FirstOf(ls, "systemd", over)
  OBVIOUS
<1>1. /\ \/ a \in {P!NoPath, p}
         \/ a = <<>> /\ <<>> \notin over
         \/ setup.view = "private" /\ a = sub /\ sub \notin over
      /\ b \in {P!NoPath, p}
  BY Shapes
<1> PICK c : c = IF a # P!NoPath THEN a ELSE b
  OBVIOUS
<1>5. PICK K : K = {<<>>, <<"container">>}
  OBVIOUS
<1>2. raw = IF c \in K THEN P!NoPath ELSE c
  BY <1>5 DEF P!RawCgroupPath
<1>3. <<>> \in K
  BY <1>5
<1>4. raw \in {P!NoPath, p} \/ (setup.view = "private" /\ raw = sub /\ sub \notin K)
  BY <1>1, <1>2, <1>3
<1> QED
  BY <1>4, <1>5

\* containerd's client likewise.
LEMMA ContainerdReads ==
  ASSUME setup.view \in {"v2", "v1", "hybrid", "private", "junk"}, NEW p,
         NEW raw, raw = P!resolveCgroupPath(P!ProcCgroup(p))
  PROVE  \/ raw \in {P!NoPath, p}
         \/ setup.view = "private" /\ raw = sub /\ sub # <<>>
<1> PICK ls : ls = P!ProcCgroup(p)
  OBVIOUS
<1> PICK over : over = {<<>>}
  OBVIOUS
<1> PICK a : a = P!FirstOf(ls, "v2", over)
  OBVIOUS
<1> PICK b : b = P!FirstOf(ls, "memory", over)
  OBVIOUS
<1>1. /\ \/ a \in {P!NoPath, p}
         \/ a = <<>> /\ <<>> \notin over
         \/ setup.view = "private" /\ a = sub /\ sub \notin over
      /\ b \in {P!NoPath, p}
  BY Shapes
<1>2. raw = IF a # P!NoPath THEN a ELSE b
  BY DEF P!resolveCgroupPath
<1> QED
  BY <1>1, <1>2

-----------------------------------------------------------------------------
(***************************************************************************)
(* The inductive invariant of the look-ups.  Its parts speak of a          *)
(* situation s, so that they can be reasoned about without the state.      *)
(***************************************************************************)

\* stress-ng runs with the target of s at p.
Near(s, p) ==
  \/ P!IsPrefix(s.own, p)
  \/ /\ ~s.inject /\ P!Front(p) = P!Front(s.own)
     /\ s.mode = "sidecar" \/ P!Systemd(s.own)

\* Where cg-inject is sent, with driver d and path p.
InjectAt(d, p) ==
  IF p # P!NoPath THEN p
  ELSE IF d = "systemd" THEN <<"system.slice", "T.scope">> ELSE <<"docker", "T">>

\* Where the sidecar will run, with driver d, path p and parent q.
Aim(s, d, p, q) ==
  IF s.inject THEN InjectAt(d, p) ELSE P!sidecarCgroup(s.mode, d, q)

\* cg-inject would be let into p, with the target's process alive or not in sub-cgroup b.
Open(s, a, b, p) ==
  /\ IF "X.scope" \in P!ToSet(p) THEN TRUE ELSE a /\ P!IsPrefix(p, s.own \o b)
  /\ ~(a /\ b # <<>> /\ p = s.own)

Bare(s) == s.mode = "podman" /\ P!Last(s.own) = "T" /\ P!Systemd(s.own)

Misreads(s) ==
  /\ s.mode # "docker" /\ s.view = "private"
  /\ s.sub \notin IF s.mode = "podman" THEN {<<>>, <<"container">>} ELSE {<<>>}

Stuck(s) ==
  /\ s.mode = "podman" /\ s.settles
  /\ P!truncateToContainerScope(s.own \o s.sub) # s.own

Nested(s) ==
  /\ s.mode = "docker" /\ s.custom
  /\ P!Systemd(s.own) /\ Len(s.own) > 2

\* cg-inject is sent to where a nested slice would be if it were not nested.
Astray(s, p) == s.inject /\ Nested(s) /\ p = <<"kube-pod.slice", "T.scope">>

\* The situations with look-ups: not a process of containerd's own, not a dry run.
Placed(s) == s.mode \in {"docker", "podman", "sidecar"}

\* The target's process is in its first sub-cgroup until it settles or exits.
InvTarget ==
  /\ sub \in {<<>>, setup.sub}
  /\ ~alive => "exit" \in excuse
  /\ alive /\ sub # setup.sub => setup.settles

\* The look-ups of each client.
InvStage ==
  /\ setup.mode = "docker" => look \notin {"pid", "proc", "stat"}
  /\ setup.mode = "podman" => look \notin {"driver", "inspect"}
  /\ setup.mode = "sidecar" => look \notin {"driver", "inspect", "stat"}
  /\ ~Placed(setup) => look = "ready"
  /\ look # "placed" => place = P!NoPath

\* docker's client knows the driver once it needs it, and names a slice to systemd.
InvDriver ==
  setup.mode = "docker" =>
    /\ look = "inspect" => driver \in {"unknown", P!driverForPath(setup.own)}
    /\ look \in {"pull", "ready"} =>
         /\ driver = P!driverForPath(setup.own)
         /\ driver = "systemd" => \E x \in P!Slices : parent = <<x>>

\* What podman's client read is the target's path at that time: it is now, or the
\* target's process was in its sub-cgroup then.
InvStat ==
  look = "stat" =>
    /\ setup.mode = "podman"
    /\ P!RawCgroupPath(lines) \in Seq(P!Segments) /\ P!RawCgroupPath(lines) # <<>>
    /\ \/ "pid" \in excuse \/ Misreads(setup)
       \/ \E x \in {<<>>, setup.sub} :
            P!RawCgroupPath(lines) = setup.own \o x /\ (x = setup.sub \/ sub = <<>>)

\* What the client found leads to the target.
InvAim ==
  Placed(setup) /\ look \in {"pull", "ready"} =>
    /\ parent \in Seq(P!Segments)
    /\ \/ excuse \cap {"pid", "inspect"} # {} \/ Bare(setup) \/ Misreads(setup)
       \/ Near(setup, Aim(setup, driver, path, parent))
       \/ Astray(setup, Aim(setup, driver, path, parent))

\* What the client found can be injected into, as long as nothing happens.
InvReach ==
  Placed(setup) /\ look \in {"pull", "ready"} /\ setup.inject /\ excuse = {} =>
    \/ setup.mode = "docker" /\ setup.sub # <<>>
    \/ Nested(setup) \/ Misreads(setup) \/ Stuck(setup)
    \/ Open(setup, alive, sub, InjectAt(driver, path))

\* StressHitsTarget and InjectionFailsForAReason, of the situation.
InvHits ==
  place # P!NoPath =>
    \/ Near(setup, place)
    \/ excuse \cap {"pid", "inspect"} # {} \/ Bare(setup) \/ Misreads(setup)

InvInjected ==
  look = "placed" /\ place = P!NoPath =>
    \/ excuse # {} \/ (setup.mode = "docker" /\ setup.sub # <<>>)
    \/ Nested(setup) \/ Misreads(setup) \/ Stuck(setup)

PInv ==
  /\ P!TypeOK /\ mode = setup.mode /\ InvTarget /\ InvStage /\ InvDriver /\ InvStat
  /\ InvAim /\ InvReach /\ InvHits /\ InvInjected
-----------------------------------------------------------------------------
(* What the clients make of what they learn *)

\* A situation.
LEMMA Situation ==
  ASSUME NEW s \in Setups
  PROVE  /\ s.own \in Seq(P!Segments) /\ s.own # <<>> /\ P!Last(s.own) \in {"T", "T.scope"}
         /\ s.sub \in Seq(P!Segments)
         /\ s.mode \in {"docker", "podman", "sidecar", "direct", "dry"}
         /\ s.view \in {"v2", "v1", "hybrid", "private", "junk"}
         /\ s.inject \in BOOLEAN /\ s.custom \in BOOLEAN /\ s.pull \in BOOLEAN
<1>1. P!WellFormed(s)
  BY SetupAssumption
<1>2. s \in P!Setup
  BY <1>1 DEF P!WellFormed
<1> QED
  BY <1>1, <1>2 DEF P!WellFormed, P!Setup

\* The segments the clients append.
LEMMA Appended == "S" \in P!Segments /\ "S.scope" \in P!Segments
BY DEF P!Segments, P!Scopes

\* The paths the clients know by heart, and a stranger's.
LEMMA KnownPaths ==
  /\ <<"system.slice">> \in Seq(P!Segments) /\ <<"docker", "T">> \in Seq(P!Segments)
  /\ <<"system.slice", "T.scope">> \in Seq(P!Segments)
  /\ <<"system.slice", "X.scope">> \in Seq(P!Segments)
<1>1. {"system.slice", "docker", "T", "T.scope", "X.scope"} \subseteq P!Segments
  BY DEF P!Segments, P!Slices, P!Scopes
<1> QED
  BY <1>1

\* NoPath is no path.
LEMMA NotAPath == P!NoPath \notin Seq(P!Segments)
<1>1. "none" \notin P!Segments
  BY DEF P!Segments, P!Slices, P!Scopes
<1> PICK p : p = P!NoPath
  OBVIOUS
<1>2. p[1] = "none" /\ Len(p) = 1
  BY DEF P!NoPath
<1>3. ASSUME p \in Seq(P!Segments)
      PROVE  p[1] \in P!Segments
  BY <1>2, <1>3
<1> QED
  BY <1>1, <1>2, <1>3

\* A sidecar below a good parent is near the target.
LEMMA ChildNear ==
  ASSUME NEW s \in Setups, NEW q \in Seq(P!Segments), NEW e \in P!Segments,
         \/ P!IsPrefix(s.own, q)
         \/ ~s.inject /\ q = P!Front(s.own) /\ (s.mode = "sidecar" \/ P!Systemd(s.own))
  PROVE  Near(s, Append(q, e))
<1>1. s.own \in Seq(P!Segments)
  BY Situation
<1>2. CASE P!IsPrefix(s.own, q)
  BY <1>1, <1>2, PrefixOfAppend DEF Near
<1>3. CASE ~s.inject /\ q = P!Front(s.own) /\ (s.mode = "sidecar" \/ P!Systemd(s.own))
  BY <1>3, FrontOfAppend DEF Near
<1> QED
  BY <1>2, <1>3

\* So is one that the runtime puts there, if it takes the parent for a path.
LEMMA AimNear ==
  ASSUME NEW s \in Setups, ~s.inject, NEW d, NEW p, NEW q \in Seq(P!Segments),
         ~(s.mode = "docker" /\ d = "systemd"),
         \/ P!IsPrefix(s.own, q)
         \/ q = P!Front(s.own) /\ (s.mode = "sidecar" \/ P!Systemd(s.own))
  PROVE  Near(s, Aim(s, d, p, q))
<1>1. \E e \in P!Segments : Aim(s, d, p, q) = Append(q, e)
  BY Appended DEF Aim, P!sidecarCgroup, P!cgroupChildPath
<1> QED
  BY <1>1, ChildNear

\* Every slice has a path, which ends with it.
LEMMA SlicePaths ==
  ASSUME NEW x \in P!Slices
  PROVE  /\ P!SlicePath[x] \in Seq(P!Segments) /\ x \in P!Segments
         /\ P!SlicePath[x] # <<>> /\ P!Last(P!SlicePath[x]) = x
         /\ \/ P!SlicePath[x] = <<x>>
            \/ x = "kube-pod.slice" /\ P!SlicePath[x] = <<"kube.slice", x>>
<1>1. x \in P!Segments /\ "kube.slice" \in P!Segments
  BY DEF P!Segments, P!Slices
<1>2. CASE x = "kube-pod.slice"
  <2>1. P!SlicePath[x] = <<"kube.slice", x>>
    BY <1>2 DEF P!SlicePath
  <2>2. P!Last(<<"kube.slice", x>>) = x
    BY DEF P!Last
  <2> QED
    BY <1>1, <1>2, <2>1, <2>2
<1>3. CASE x # "kube-pod.slice"
  <2>1. P!SlicePath[x] = <<x>>
    BY <1>3 DEF P!SlicePath
  <2>2. P!Last(<<x>>) = x
    BY DEF P!Last
  <2> QED
    BY <1>1, <2>1, <2>2
<1> QED
  BY <1>2, <1>3

\* The parent docker was given: a path, or the name of the slice the target is in.
LEMMA GivenParent ==
  ASSUME NEW s \in Setups, s.mode = "docker", NEW c, c = P!CgroupParent(s.own)
  PROVE  /\ c \in Seq(P!Segments) /\ P!driverForPath(c) = P!driverForPath(s.own)
         /\ ~P!Systemd(s.own) => c = P!Front(s.own)
         /\ P!Systemd(s.own) => \E x \in P!Slices : c = <<x>> /\ P!Front(s.own) = P!SlicePath[x]
<1>1. s.own \in Seq(P!Segments) /\ s.own # <<>> /\ P!Front(s.own) \in Seq(P!Segments)
  BY Situation, FrontOf
<1>2. /\ P!driverForPath(P!Front(s.own)) = P!driverForPath(s.own)
      /\ P!Systemd(s.own) => \E x \in P!Slices : P!Front(s.own) = P!SlicePath[x]
  BY SetupAssumption DEF P!WellFormed
<1>3. CASE ~P!Systemd(s.own)
  BY <1>1, <1>2, <1>3 DEF P!CgroupParent
<1>4. CASE P!Systemd(s.own)
  <2>1. PICK x \in P!Slices : P!Front(s.own) = P!SlicePath[x]
    BY <1>2, <1>4
  <2>2. c = <<x>> /\ x \in P!Segments
    BY <1>4, <2>1, SlicePaths DEF P!CgroupParent
  <2>3. P!Systemd(<<x>>)
    <3>1. 1 \in DOMAIN <<x>> /\ <<x>>[1] = x
      OBVIOUS
    <3> QED
      BY <3>1 DEF P!Systemd
  <2> QED
    BY <1>4, <2>1, <2>2, <2>3 DEF P!driverForPath
<1> QED
  BY <1>3, <1>4

\* docker's client, when it knows the parent: the sidecar gets there, and cg-inject too
\* unless the slice is a nested one.
LEMMA DockerAims ==
  ASSUME NEW s \in Setups, s.mode = "docker", NEW d, d = P!driverForPath(s.own),
         NEW p, NEW q,
         \/ s.custom /\ p = P!resolvePath(d, P!CgroupParent(s.own)) /\ q = P!sidecarParent(d, p)
         \/ ~s.custom /\ p = P!NoPath /\ q = P!sidecarParent(d, p)
  PROVE  /\ q \in Seq(P!Segments) /\ p \in Seq(P!Segments) \cup {P!NoPath}
         /\ d = "systemd" => \E x \in P!Slices : q = <<x>>
         /\ InjectAt(d, p) = s.own \/ Nested(s)
         /\ Near(s, Aim(s, d, p, q)) \/ Astray(s, Aim(s, d, p, q))
<1>1. s.own \in Seq(P!Segments) /\ s.own # <<>> /\ s.inject \in BOOLEAN
  BY Situation
<1>2. P!Last(s.own) = P!containerLeafCgroup(d)
  BY SetupAssumption DEF P!WellFormed
<1> PICK f : f = P!Front(s.own)
  OBVIOUS
<1>3. /\ f \in Seq(P!Segments) /\ P!Last(s.own) \in P!Segments /\ s.own = Append(f, P!Last(s.own))
      /\ Len(s.own) = Len(f) + 1
  BY <1>1, FrontOf, Rebuilt
<1>4. d = IF P!Systemd(s.own) THEN "systemd" ELSE "cgroupfs"
  BY DEF P!driverForPath
<1>5. s.own # P!NoPath /\ P!IsPrefix(s.own, s.own)
  BY <1>1, NotAPath, PrefixOfSelf
<1>6. CASE ~P!Systemd(s.own)
  <2>1. /\ q = s.own /\ p \in Seq(P!Segments) \cup {P!NoPath}
        /\ InjectAt(d, p) = s.own
    <3>1. CASE s.custom /\ p = P!resolvePath(d, P!CgroupParent(s.own)) /\ q = P!sidecarParent(d, p)
      <4>1. p = s.own
        BY <1>2, <1>3, <1>6, <3>1, GivenParent DEF P!resolvePath
      <4> QED
        BY <1>1, <1>4, <1>5, <1>6, <3>1, <4>1 DEF P!sidecarParent, InjectAt
    <3>2. CASE ~s.custom /\ p = P!NoPath /\ q = P!sidecarParent(d, p)
      <4>1. f = <<"docker">>
        BY <1>6, <3>2, SetupAssumption DEF P!WellFormed
      <4>2. s.own = <<"docker", "T">>
        BY <1>2, <1>3, <1>4, <1>6, <4>1 DEF P!containerLeafCgroup
      <4>3. q = <<"docker", "T">> /\ InjectAt(d, p) = <<"docker", "T">>
        BY <1>4, <1>6, <3>2 DEF P!sidecarParent, P!defaultCgroupParent, InjectAt
      <4> QED
        BY <3>2, <4>2, <4>3
    <3> QED
      BY <3>1, <3>2
  <2>2. Near(s, Aim(s, d, p, q))
    <3>1. CASE s.inject
      <4>1. Aim(s, d, p, q) = s.own
        BY <2>1, <3>1 DEF Aim
      <4> QED
        BY <1>5, <4>1 DEF Near
    <3>2. CASE ~s.inject
      <4>1. ~(s.mode = "docker" /\ d = "systemd")
        BY <1>4, <1>6
      <4> QED
        BY <1>1, <1>5, <2>1, <3>2, <4>1, AimNear
    <3> QED
      BY <1>1, <3>1, <3>2
  <2>3. d # "systemd"
    BY <1>4, <1>6
  <2> QED
    BY <1>1, <2>1, <2>2, <2>3
<1>7. CASE P!Systemd(s.own)
  <2>1. d = "systemd" /\ P!Last(s.own) = "T.scope"
    BY <1>2, <1>4, <1>7 DEF P!containerLeafCgroup
  <2>2. PICK x \in P!Slices : P!CgroupParent(s.own) = <<x>> /\ f = P!SlicePath[x]
    BY <1>7, GivenParent
  <2>3. x \in P!Segments /\ "T.scope" \in P!Segments
    BY <1>3, <2>1, <2>2, SlicePaths
  <2>4. /\ p \in Seq(P!Segments) \cup {P!NoPath}
        /\ q = <<x>>
        /\ InjectAt(d, p) = <<x, "T.scope">> /\ (~s.custom => f = <<x>>)
    <3>1. CASE s.custom /\ p = P!resolvePath(d, P!CgroupParent(s.own)) /\ q = P!sidecarParent(d, p)
      <4>1. p = <<x, "T.scope">>
        <5>1. p = Append(<<x>>, "T.scope")
          BY <2>1, <2>2, <3>1 DEF P!resolvePath, P!containerLeafCgroup
        <5> PICK z : z = <<x, "T.scope">>
          OBVIOUS
        <5>2. z = Append(<<x>>, "T.scope")
          BY <2>3
        <5> QED
          BY <5>1, <5>2
      <4>2. p \in Seq(P!Segments) /\ p # P!NoPath
        <5>1. <<x, "T.scope">> \in Seq(P!Segments)
          BY <2>3
        <5> QED
          BY <4>1, <5>1, NotAPath
      <4>3. P!Front(p) = <<x>>
        <5>1. p = Append(<<x>>, "T.scope") /\ <<x>> \in Seq(P!Segments)
          BY <2>3, <4>1
        <5> QED
          BY <2>3, <5>1, FrontOfAppend
      <4>4. q = <<x>>
        BY <2>1, <3>1, <4>2, <4>3 DEF P!sidecarParent
      <4> QED
        BY <3>1, <4>1, <4>2, <4>4 DEF InjectAt
    <3>2. CASE ~s.custom /\ p = P!NoPath /\ q = P!sidecarParent(d, p)
      <4>1. f = <<"system.slice">>
        BY <1>7, <3>2, SetupAssumption DEF P!WellFormed
      <4>2. x = "system.slice"
        <5>1. P!Last(f) = x
          BY <2>2, SlicePaths
        <5>2. P!Last(<<"system.slice">>) = "system.slice"
          BY DEF P!Last
        <5> QED
          BY <4>1, <5>1, <5>2
      <4>3. q = <<x>> /\ InjectAt(d, p) = <<x, "T.scope">>
        BY <2>1, <3>2, <4>2 DEF P!sidecarParent, P!defaultCgroupParent, InjectAt
      <4> QED
        BY <3>2, <4>1, <4>2, <4>3
    <3> QED
      BY <3>1, <3>2
  <2>5. q \in Seq(P!Segments)
    BY <2>3, <2>4
  <2>6. \/ f = <<x>> /\ s.own = <<x, "T.scope">>
        \/ Nested(s) /\ x = "kube-pod.slice"
    <3>1. CASE f = <<x>>
      BY <1>3, <2>1, <3>1
    <3>2. CASE x = "kube-pod.slice" /\ f = <<"kube.slice", x>>
      <4>1. Len(f) = 2 /\ f # <<x>>
        <5>1. Len(f) = 2 /\ Len(<<x>>) = 1
          BY <3>2
        <5> QED
          BY <5>1
      <4> QED
        BY <1>3, <1>7, <2>4, <3>2, <4>1, Situation DEF Nested
    <3> QED
      BY <2>2, <3>1, <3>2, SlicePaths
  <2>7. CASE s.inject
    <3>1. Aim(s, d, p, q) = <<x, "T.scope">>
      BY <2>4, <2>7 DEF Aim
    <3>2. InjectAt(d, p) = s.own \/ Nested(s)
      BY <2>4, <2>6
    <3>3. Near(s, <<x, "T.scope">>) \/ Astray(s, <<x, "T.scope">>)
      BY <1>5, <2>6, <2>7 DEF Near, Astray
    <3> QED
      BY <2>4, <2>5, <3>1, <3>2, <3>3
  <2>8. CASE ~s.inject
    <3>1. P!Last(q) = x
      BY <2>4 DEF P!Last
    <3>2. Aim(s, d, p, q) = Append(f, "S")
      BY <2>1, <2>2, <2>8, <3>1 DEF Aim, P!sidecarCgroup
    <3>3. Near(s, Append(f, "S"))
      BY <1>3, <1>7, <2>8, Appended, ChildNear
    <3> QED
      BY <2>4, <2>5, <2>6, <3>2, <3>3
  <2> QED
    BY <1>1, <2>7, <2>8
<1> QED
  BY <1>6, <1>7

\* Paths of different lengths, or with different first segments.
LEMMA LongerApart ==
  ASSUME NEW p, NEW q, Len(p) > 1, Len(q) = 1
  PROVE  p # q
OBVIOUS

LEMMA FirstApart ==
  ASSUME NEW S, NEW p \in Seq(S), NEW q \in Seq(S), Len(p) > 0, p[1] # q[1]
  PROVE  ~P!IsPrefix(p, q)
<1>1. P!IsPrefix(p, q) => \A i \in 1..Len(p) : p[i] = q[i]
  BY PrefixMeans
<1>2. 1 \in 1..Len(p)
  OBVIOUS
<1> QED
  BY <1>1, <1>2

\* Nothing is at the place a nested slice is looked for.
LEMMA AstrayShut ==
  ASSUME NEW s \in Setups, NEW p, Astray(s, p), NEW a, NEW b \in Seq(P!Segments)
  PROVE  ~Open(s, a, b, p)
<1>1. s.own \in Seq(P!Segments) /\ s.own # <<>> /\ s.mode = "docker"
  BY Situation DEF Astray, Nested
<1>2. P!Front(s.own) \in Seq(P!Segments) /\ Len(P!Front(s.own)) = Len(s.own) - 1 /\ Len(s.own) > 2
      /\ P!Front(s.own)[1] = s.own[1]
  <2>1. Len(s.own) > 2 /\ Len(s.own) \in Nat
    BY <1>1 DEF Astray, Nested
  <2> QED
    BY <1>1, <2>1, FrontOf
<1>3. PICK x \in P!Slices : P!Front(s.own) = P!SlicePath[x]
  BY <1>1, GivenParent DEF Astray, Nested
<1>4. P!SlicePath[x] = <<"kube.slice", x>>
  <2>1. Len(P!Front(s.own)) > 1
    <3>1. Len(s.own) \in Nat
      BY <1>1
    <3> QED
      BY <1>2, <3>1
  <2>2. Len(P!SlicePath[x]) > 1
    BY <1>3, <2>1
  <2>3. P!SlicePath[x] # <<x>>
    <3>1. Len(<<x>>) = 1
      OBVIOUS
    <3> QED
      BY <2>2, <3>1, LongerApart
  <2> QED
    BY <2>3, SlicePaths
<1>5. s.own[1] = "kube.slice"
  BY <1>2, <1>3, <1>4
<1> PICK w : w = s.own \o b
  OBVIOUS
<1>6. w \in Seq(P!Segments) /\ w[1] = "kube.slice"
  BY <1>1, <1>2, <1>5, ConcatProperties
<1> PICK y : y = <<"kube-pod.slice", "T.scope">>
  OBVIOUS
<1>7. y \in Seq(P!Segments) /\ Len(y) = 2 /\ y[1] = "kube-pod.slice" /\ y[2] = "T.scope"
  BY DEF P!Segments, P!Slices, P!Scopes
<1>8. ~P!IsPrefix(y, w)
  <2>1. Len(y) > 0 /\ y[1] # w[1]
    BY <1>6, <1>7
  <2> QED
    BY <1>6, <1>7, <2>1, FirstApart
<1>9. "X.scope" \notin P!ToSet(y)
  BY <1>7 DEF P!ToSet
<1> QED
  BY <1>8, <1>9 DEF Open, Astray

\* A path cut by podman's client is one, and so is its parent.
LEMMA TruncatedType ==
  ASSUME NEW p \in Seq(P!Segments), p # <<>>, NEW cut, cut = P!truncateToContainerScope(p)
  PROVE  cut \in Seq(P!Segments) /\ P!podmanParent(cut) \in Seq(P!Segments)
<1> PICK scope : scope = P!lastIndexIn(p, P!Scopes \ {"init.scope"})
  OBVIOUS
<1> PICK slice : slice = P!lastIndexIn(p, P!Slices)
  OBVIOUS
<1>1. scope = 0 \/ scope \in 1..Len(p)
  BY LastIn
<1>6. slice = 0 \/ slice \in 1..Len(p)
  BY LastIn
<1>2. cut = IF scope > 0 THEN SubSeq(p, 1, scope)
            ELSE IF slice > 0 THEN SubSeq(p, 1, slice) ELSE p
  BY DEF P!truncateToContainerScope
<1>3. ASSUME NEW k \in 1..Len(p), cut = SubSeq(p, 1, k)
      PROVE  cut \in Seq(P!Segments) /\ cut # <<>>
  <2>1. cut \in Seq(P!Segments) /\ Len(cut) = k
    BY <1>3
  <2> QED
    BY <2>1
<1>4. cut \in Seq(P!Segments) /\ cut # <<>>
  <2>1. CASE scope > 0
    <3>1. scope \in 1..Len(p)
      BY <1>1, <2>1
    <3>2. cut = SubSeq(p, 1, scope)
      BY <1>2, <2>1
    <3> QED
      BY <1>3, <3>1, <3>2
  <2>2. CASE ~(scope > 0) /\ slice > 0
    <3>1. slice \in 1..Len(p) /\ cut = SubSeq(p, 1, slice)
      BY <1>2, <1>6, <2>2
    <3> QED
      BY <1>3, <3>1
  <2>3. CASE ~(scope > 0) /\ ~(slice > 0)
    BY <1>2, <2>3
  <2> QED
    BY <2>1, <2>2, <2>3
<1>5. P!Front(cut) \in Seq(P!Segments)
  BY <1>4, FrontOf
<1> QED
  BY <1>4, <1>5 DEF P!podmanParent

\* podman's client, when it reads the path of the target.
LEMMA PodmanAims ==
  ASSUME NEW s \in Setups, s.mode = "podman", ~Bare(s), NEW x \in Seq(P!Segments),
         NEW raw, raw = s.own \o x, NEW cut, cut = P!truncateToContainerScope(raw),
         NEW d, NEW p \in {raw, cut}, NEW q, q = P!podmanParent(cut)
  PROVE  Near(s, Aim(s, d, p, q))
<1>1. /\ s.own \in Seq(P!Segments) /\ s.own # <<>> /\ P!Last(s.own) \in {"T", "T.scope"}
      /\ s.inject \in BOOLEAN
  BY Situation
<1>2. P!Last(s.own) = "T" => ~P!Systemd(s.own)
  BY DEF Bare
<1>3. /\ cut \in Seq(P!Segments) /\ P!IsPrefix(s.own, cut) /\ q \in Seq(P!Segments)
      /\ P!IsPrefix(s.own, q) \/ (q = P!Front(s.own) /\ P!Systemd(s.own))
  BY <1>1, <1>2, Truncated
<1>4. raw \in Seq(P!Segments) /\ P!IsPrefix(s.own, raw)
  BY <1>1, PrefixOfConcat
<1>5. CASE s.inject
  <2>1. p # P!NoPath
    BY <1>3, <1>4, NotAPath
  <2> QED
    BY <1>3, <1>4, <1>5, <2>1 DEF Aim, InjectAt, Near
<1>6. CASE ~s.inject
  BY <1>3, <1>6, AimNear
<1> QED
  BY <1>1, <1>5, <1>6

\* containerd's client, when it reads the path of the target.
LEMMA SidecarAims ==
  ASSUME NEW s \in Setups, s.mode = "sidecar", NEW x \in Seq(P!Segments),
         NEW raw, raw = s.own \o x, NEW d, NEW q, q = P!Front(raw)
  PROVE  Near(s, Aim(s, d, raw, q))
<1>1. s.own \in Seq(P!Segments) /\ s.own # <<>> /\ s.inject \in BOOLEAN
  BY Situation
<1>2. raw \in Seq(P!Segments) /\ P!IsPrefix(s.own, raw) /\ Len(raw) = Len(s.own) + Len(x)
  BY <1>1, PrefixOfConcat
<1>3. q \in Seq(P!Segments) /\ (P!IsPrefix(s.own, q) \/ q = P!Front(s.own))
  <2>1. CASE x = <<>>
    <3>1. raw = s.own
      BY <1>1, <2>1
    <3> QED
      BY <1>1, <3>1, FrontOf
  <2>2. CASE x # <<>>
    <3>1. Len(s.own) < Len(raw)
      BY <1>1, <1>2, <2>2, EmptySeq
    <3> QED
      BY <1>1, <1>2, <3>1, PrefixOfFront
  <2> QED
    BY <2>1, <2>2
<1>5. CASE s.inject
  <2>1. raw # P!NoPath
    BY <1>2, NotAPath
  <2> QED
    BY <1>2, <1>5, <2>1 DEF Aim, InjectAt, Near
<1>6. CASE ~s.inject
  BY <1>3, <1>6, AimNear
<1> QED
  BY <1>1, <1>5, <1>6

\* The cgroup of a process that is alive can be injected into.
LEMMA OpenAtProcess ==
  ASSUME NEW s \in Setups, NEW x \in Seq(P!Segments), NEW p, p = s.own \o x
  PROVE  Open(s, TRUE, x, p)
<1>1. s.own \in Seq(P!Segments)
  BY Situation
<1>2. p \in Seq(P!Segments) /\ P!IsPrefix(p, p) /\ Len(p) = Len(s.own) + Len(x)
  BY <1>1, PrefixOfConcat, PrefixOfSelf
<1>3. x # <<>> => p # s.own
  BY <1>1, <1>2, EmptySeq
<1> QED
  BY <1>2, <1>3 DEF Open

-----------------------------------------------------------------------------
(* The inductive invariant holds *)

\* The inductive invariant holds at the start.
LEMMA InitPInv == TestInit => PInv
<1> SUFFICES ASSUME TestInit
             PROVE  PInv
  OBVIOUS
<1>1. /\ setup \in Setups /\ mode = setup.mode
      /\ driver = "unknown" /\ path = P!NoPath /\ parent = P!NoPath
      /\ alive = TRUE /\ sub = setup.sub /\ excuse = {} /\ place = P!NoPath
  BY DEF TestInit, P!Init
<1>2. /\ setup.mode = "docker" => look = "driver"
      /\ setup.mode \in {"podman", "sidecar"} => look = "pid"
      /\ ~Placed(setup) => look = "ready"
  BY DEF TestInit, P!Init, Placed
<1>3. setup.mode \in {"docker", "podman", "sidecar"} \/ ~Placed(setup)
  BY DEF Placed
<1>4. look \in {"driver", "pid", "ready"} /\ (Placed(setup) => look \in {"driver", "pid"})
  BY <1>2 DEF Placed
<1>5. P!TypeOK
  BY <1>1, <1>4 DEF P!TypeOK
<1>6. InvTarget
  BY <1>1 DEF InvTarget
<1>7. InvStage
  BY <1>1, <1>2, <1>4 DEF InvStage, Placed
<1>8. InvDriver /\ InvStat
  BY <1>2, <1>4 DEF InvDriver, InvStat
<1>9. InvAim /\ InvReach
  BY <1>4 DEF InvAim, InvReach
<1>10. InvHits /\ InvInjected
  BY <1>1, <1>4 DEF InvHits, InvInjected
<1> QED
  BY <1>1, <1>5, <1>6, <1>7, <1>8, <1>9, <1>10 DEF PInv

\* Nothing is left to do for a step that leaves the look-ups alone.
LEMMA Still ==
  ASSUME PInv, UNCHANGED placement, mode' = mode
  PROVE  PInv'
<1>1. /\ setup' = setup /\ look' = look /\ driver' = driver /\ lines' = lines
      /\ path' = path /\ parent' = parent /\ alive' = alive /\ sub' = sub
      /\ excuse' = excuse /\ place' = place
  BY DEF placement
<1>2. P!TypeOK'
  BY <1>1 DEF PInv, P!TypeOK
<1>3. InvTarget' /\ InvStage' /\ InvDriver' /\ InvStat'
  BY <1>1 DEF PInv, InvTarget, InvStage, InvDriver, InvStat
<1>4. InvAim' /\ InvReach' /\ InvHits' /\ InvInjected'
  BY <1>1 DEF PInv, InvAim, InvReach, InvHits, InvInjected
<1> QED
  BY <1>1, <1>2, <1>3, <1>4 DEF PInv

\* A look-up that does not end them: what has to be shown.
LEMMA StillLooking ==
  ASSUME PInv, setup' = setup, alive' = alive, sub' = sub, place' = place, mode' = mode,
         excuse' \in {excuse, excuse \cup {"pid"}, excuse \cup {"inspect"}},
         path' = path, parent' = parent,
         look' \in {"inspect", "proc", "failed"}, Placed(setup),
         look' = "inspect" => setup.mode = "docker",
         look' = "proc" => setup.mode # "docker",
         driver' \in {"systemd", "cgroupfs", "unknown"},
         look' = "inspect" => driver' \in {"unknown", P!driverForPath(setup.own)},
         look # "placed"
  PROVE  PInv'
<1>1. P!TypeOK'
  BY DEF PInv, P!TypeOK
<1>2. InvTarget'
  BY DEF PInv, InvTarget
<1>3. InvStage'
  BY DEF PInv, InvStage
<1>4. InvDriver' /\ InvStat'
  BY DEF InvDriver, InvStat
<1>5. InvAim' /\ InvReach'
  BY DEF InvAim, InvReach
<1>6. InvHits' /\ InvInjected'
  BY DEF PInv, InvStage, InvHits, InvInjected
<1> QED
  BY <1>1, <1>2, <1>3, <1>4, <1>5, <1>6 DEF PInv

\* The look-up that ends them: what has to be shown.
LEMMA Resolves ==
  ASSUME PInv, setup' = setup, alive' = alive, sub' = sub, place' = place, mode' = mode,
         look # "placed", look' \in {"pull", "ready"}, Placed(setup),
         excuse' \in {excuse, excuse \cup {"pid"}, excuse \cup {"inspect"}},
         driver' \in {"systemd", "cgroupfs", "unknown"},
         setup.mode = "docker" => driver' = P!driverForPath(setup.own),
         setup.mode = "docker" /\ driver' = "systemd" => \E x \in P!Slices : parent' = <<x>>,
         path' \in Seq(P!Segments) \cup {P!NoPath}, parent' \in Seq(P!Segments),
         \/ excuse' \cap {"pid", "inspect"} # {} \/ Bare(setup) \/ Misreads(setup)
         \/ Near(setup, Aim(setup, driver', path', parent'))
         \/ Astray(setup, Aim(setup, driver', path', parent')),
         setup.inject /\ excuse' = {} =>
           \/ setup.mode = "docker" /\ setup.sub # <<>>
           \/ Nested(setup) \/ Misreads(setup) \/ Stuck(setup)
           \/ Open(setup, alive, sub, InjectAt(driver', path'))
  PROVE  PInv'
<1>1. P!TypeOK'
  BY DEF PInv, P!TypeOK
<1>2. InvTarget'
  BY DEF PInv, InvTarget
<1>3. InvStage'
  BY DEF PInv, InvStage
<1>4. InvDriver' /\ InvStat'
  BY DEF InvDriver, InvStat
<1>5. InvAim' /\ InvReach'
  BY DEF InvAim, InvReach
<1>6. InvHits' /\ InvInjected'
  BY DEF PInv, InvStage, InvHits, InvInjected
<1> QED
  BY <1>1, <1>2, <1>3, <1>4, <1>5, <1>6 DEF PInv

\* What a look-up leaves alone.
LEMMA LookUpLeaves ==
  ASSUME LookUp
  PROVE  setup' = setup /\ alive' = alive /\ sub' = sub /\ place' = place /\ mode' = mode
BY DEF LookUp, P!LookUp, P!target

\* GET /info keeps the invariant.
LEMMA CgroupDriverKeeps ==
  ASSUME PInv, LookUp, P!CgroupDriver
  PROVE  PInv'
<1>1. setup' = setup /\ alive' = alive /\ sub' = sub /\ place' = place /\ mode' = mode
  BY LookUpLeaves
<1>2. /\ look = "driver" /\ look' = "inspect"
      /\ excuse' = excuse /\ path' = path /\ parent' = parent
      /\ driver' \in {P!driverForPath(setup.own), "unknown"}
  BY DEF P!CgroupDriver
<1>3. setup \in Setups
  BY DEF PInv, P!TypeOK
<1>4. setup.mode = "docker"
  BY <1>2, <1>3 DEF PInv, InvStage, Placed
<1>5. driver' \in {"systemd", "cgroupfs", "unknown"}
  BY <1>2 DEF P!driverForPath
<1> QED
  BY <1>1, <1>2, <1>4, <1>5, StillLooking DEF Placed

\* The look-up of the pid keeps the invariant.
LEMMA TargetPidKeeps ==
  ASSUME PInv, LookUp, P!TargetPid
  PROVE  PInv'
<1>1. setup' = setup /\ alive' = alive /\ sub' = sub /\ place' = place /\ mode' = mode
  BY LookUpLeaves
<1>2. /\ look = "pid" /\ look' \in {"proc", "failed"}
      /\ excuse' = excuse /\ path' = path /\ parent' = parent /\ driver' = driver
  BY DEF P!TargetPid, P!Abandon, P!found
<1>3. setup \in Setups /\ driver \in {"systemd", "cgroupfs", "unknown"}
  BY DEF PInv, P!TypeOK
<1>4. setup.mode # "docker" /\ Placed(setup)
  BY <1>2, <1>3 DEF PInv, InvStage
<1> QED
  BY <1>1, <1>2, <1>3, <1>4, StillLooking

\* Pulling the image keeps the invariant.
LEMMA PullImageKeeps ==
  ASSUME PInv, LookUp, P!PullImage
  PROVE  PInv'
<1>1. setup' = setup /\ alive' = alive /\ sub' = sub /\ place' = place /\ mode' = mode
  BY LookUpLeaves
<1>2. /\ look = "pull" /\ look' \in {"ready", "failed"}
      /\ excuse' = excuse /\ path' = path /\ parent' = parent /\ driver' = driver
  BY DEF P!PullImage, P!Abandon, P!found
<1>3. /\ setup \in Setups /\ driver \in {"systemd", "cgroupfs", "unknown"}
      /\ path \in Seq(P!Segments) \cup {P!NoPath}
  BY DEF PInv, P!TypeOK
<1>4. Placed(setup)
  BY <1>2, <1>3 DEF PInv, InvStage
<1>5. CASE look' = "failed"
  BY <1>1, <1>2, <1>3, <1>4, <1>5, StillLooking
<1>6. CASE look' = "ready"
  <2>1. setup.mode = "docker" =>
          /\ driver = P!driverForPath(setup.own)
          /\ driver = "systemd" => \E x \in P!Slices : parent = <<x>>
    BY <1>2 DEF PInv, InvDriver
  <2>2. /\ parent \in Seq(P!Segments)
        /\ \/ excuse \cap {"pid", "inspect"} # {} \/ Bare(setup) \/ Misreads(setup)
           \/ Near(setup, Aim(setup, driver, path, parent))
           \/ Astray(setup, Aim(setup, driver, path, parent))
    BY <1>2, <1>4 DEF PInv, InvAim
  <2>3. setup.inject /\ excuse = {} =>
          \/ setup.mode = "docker" /\ setup.sub # <<>>
          \/ Nested(setup) \/ Misreads(setup) \/ Stuck(setup)
          \/ Open(setup, alive, sub, InjectAt(driver, path))
    BY <1>2, <1>4 DEF PInv, InvReach
  <2> QED
    BY <1>1, <1>2, <1>3, <1>4, <1>6, <2>1, <2>2, <2>3, Resolves
<1> QED
  BY <1>2, <1>5, <1>6

\* As long as nothing happened the target's process is alive in its cgroup.
LEMMA Undisturbed ==
  ASSUME PInv, excuse = {}
  PROVE  alive = TRUE /\ sub \in Seq(P!Segments) /\ setup \in Setups
<1>1. alive \in BOOLEAN /\ setup \in Setups
  BY DEF PInv, P!TypeOK
<1>2. alive
  BY DEF PInv, InvTarget
<1>3. setup.sub \in Seq(P!Segments) /\ <<>> \in Seq(P!Segments)
  BY <1>1, Situation
<1> QED
  BY <1>1, <1>2, <1>3 DEF PInv, InvTarget

\* The inspection of the target keeps the invariant.
LEMMA InspectKeeps ==
  ASSUME PInv, LookUp, P!InspectCgroupParent
  PROVE  PInv'
<1>1. setup' = setup /\ alive' = alive /\ sub' = sub /\ place' = place /\ mode' = mode
  BY LookUpLeaves
<1> PICK own : own = setup.own
  OBVIOUS
<1>2. look = "inspect" /\ setup \in Setups /\ driver \in {"systemd", "cgroupfs", "unknown"}
  BY DEF PInv, P!TypeOK, P!InspectCgroupParent
<1>3. setup.mode = "docker" /\ Placed(setup)
  BY <1>2 DEF PInv, InvStage, Placed
<1>4. own \in Seq(P!Segments) /\ own # <<>> /\ setup.custom \in BOOLEAN /\ setup.inject \in BOOLEAN
  BY <1>2, Situation
<1>5. driver \in {"unknown", P!driverForPath(own)}
  BY <1>2, <1>3 DEF PInv, InvDriver
<1> PICK given : given = P!CgroupParent(own)
  OBVIOUS
<1>6. given \in Seq(P!Segments) /\ P!driverForPath(given) = P!driverForPath(own)
  BY <1>2, <1>3, GivenParent
<1>7. P!driverForPath(own) \in {"systemd", "cgroupfs"}
  BY DEF P!driverForPath
<1>8. PICK ok \in BOOLEAN :
        LET p == IF ok /\ setup.custom THEN given ELSE P!NoPath
            d == IF driver = "unknown" THEN P!driverForPath(p) ELSE driver
            r == IF p = P!NoPath THEN P!NoPath ELSE P!resolvePath(d, p)
        IN  /\ IF driver = "unknown" /\ p = P!NoPath
                  THEN P!Abandon
                  ELSE /\ driver' = d
                       /\ P!Resolved(r, P!sidecarParent(d, r))
                       /\ UNCHANGED lines
            /\ excuse' = IF ~ok /\ setup.custom THEN excuse \cup {"inspect"} ELSE excuse
  BY DEF P!InspectCgroupParent
<1> PICK p : p = IF ok /\ setup.custom THEN given ELSE P!NoPath
  OBVIOUS
<1>9. given # P!NoPath
  BY <1>6, NotAPath
<1>10. excuse' \in {excuse, excuse \cup {"pid"}, excuse \cup {"inspect"}}
  BY <1>8
<1>11. CASE driver = "unknown" /\ p = P!NoPath
  <2>1. look' = "failed" /\ path' = path /\ parent' = parent /\ driver' = driver
    BY <1>8, <1>11 DEF P!Abandon, P!found
  <2> QED
    BY <1>1, <1>2, <1>3, <1>10, <2>1, StillLooking
<1>12. CASE ~(driver = "unknown" /\ p = P!NoPath)
  <2> PICK d : d = IF driver = "unknown" THEN P!driverForPath(p) ELSE driver
    OBVIOUS
  <2>1. d = P!driverForPath(own)
    BY <1>5, <1>6, <1>12
  <2> PICK r : r = IF p = P!NoPath THEN P!NoPath ELSE P!resolvePath(d, p)
    OBVIOUS
  <2>2. driver' = d /\ P!Resolved(r, P!sidecarParent(d, r))
    BY <1>8, <1>12
  <2>3. path' = r /\ parent' = P!sidecarParent(d, r) /\ look' \in {"pull", "ready"}
    BY <2>2 DEF P!Resolved
  <2>4. CASE (ok /\ setup.custom) \/ ~setup.custom
    <3>1. \/ setup.custom /\ r = P!resolvePath(d, P!CgroupParent(own))
          \/ ~setup.custom /\ r = P!NoPath
      BY <1>9, <2>4
    <3>2. /\ parent' \in Seq(P!Segments) /\ path' \in Seq(P!Segments) \cup {P!NoPath}
          /\ d = "systemd" => \E x \in P!Slices : parent' = <<x>>
          /\ InjectAt(d, path') = own \/ Nested(setup)
          /\ \/ Near(setup, Aim(setup, d, path', parent'))
             \/ Astray(setup, Aim(setup, d, path', parent'))
      BY <1>2, <1>3, <2>1, <2>3, <3>1, DockerAims
    <3>3. ASSUME excuse' = {}, setup.sub = <<>>, ~Nested(setup)
          PROVE  Open(setup, alive, sub, InjectAt(d, path'))
      <4>1. excuse = {}
        BY <1>10, <3>3
      <4>2. alive = TRUE
        BY <4>1, Undisturbed
      <4>3. sub = <<>> /\ <<>> \in Seq(P!Segments) /\ own = own \o <<>>
        BY <1>4, <3>3 DEF PInv, InvTarget
      <4> QED
        BY <1>2, <3>2, <3>3, <4>2, <4>3, OpenAtProcess
    <3>4. driver' = d /\ d \in {"systemd", "cgroupfs", "unknown"}
      BY <1>7, <2>1, <2>2
    <3>5. \/ Near(setup, Aim(setup, driver', path', parent'))
          \/ Astray(setup, Aim(setup, driver', path', parent'))
      BY <3>2, <3>4
    <3>6. setup.inject /\ excuse' = {} =>
            \/ setup.mode = "docker" /\ setup.sub # <<>>
            \/ Nested(setup) \/ Misreads(setup) \/ Stuck(setup)
            \/ Open(setup, alive, sub, InjectAt(driver', path'))
      BY <1>3, <3>3, <3>4
    <3> QED
      BY <1>1, <1>2, <1>3, <1>10, <2>1, <2>3, <3>2, <3>4, <3>5, <3>6, Resolves
  <2>5. CASE ~ok /\ setup.custom
    <3>1. p = P!NoPath /\ excuse' = excuse \cup {"inspect"}
      BY <1>8, <2>5
    <3>2. path' = P!NoPath /\ parent' = P!defaultCgroupParent(d)
      BY <2>3, <3>1 DEF P!sidecarParent
    <3>3. /\ parent' \in Seq(P!Segments)
          /\ d = "systemd" => \E x \in P!Slices : parent' = <<x>>
      BY <3>2, KnownPaths DEF P!defaultCgroupParent, P!Slices
    <3>4. excuse' \cap {"pid", "inspect"} # {} /\ excuse' # {}
      BY <3>1
    <3> QED
      BY <1>1, <1>2, <1>3, <1>7, <1>10, <2>1, <2>2, <2>3, <3>2, <3>3, <3>4, Resolves
  <2> QED
    BY <1>4, <2>4, <2>5
<1> QED
  BY <1>11, <1>12

\* A file that is gone says nothing.
LEMMA NothingRead ==
  P!RawCgroupPath(<<>>) = P!NoPath /\ P!resolveCgroupPath(<<>>) = P!NoPath
<1> PICK ls : ls = <<>>
  OBVIOUS
<1>1. Len(ls) = 0
  OBVIOUS
<1>2. \A k, over : P!FirstOf(ls, k, over) = P!NoPath
  BY <1>1, FirstIsALine
<1>3. P!resolveCgroupPath(ls) = P!NoPath
  BY <1>2 DEF P!resolveCgroupPath
<1>4. P!RawCgroupPath(ls) = P!NoPath
  BY <1>2 DEF P!RawCgroupPath, P!NoPath
<1> QED
  BY <1>3, <1>4

\* What the process of the pid shows: the target's path, a stranger's, or a misread view.
LEMMA Read ==
  ASSUME PInv, setup.mode \in {"podman", "sidecar"},
         NEW p \in IF alive THEN {setup.own \o sub}
                   ELSE {P!NoPath, <<"system.slice", "X.scope">>},
         NEW read, read = IF p = P!NoPath THEN <<>> ELSE P!ProcCgroup(p),
         NEW raw, raw = IF setup.mode = "podman" THEN P!RawCgroupPath(read)
                                                 ELSE P!resolveCgroupPath(read),
         raw # P!NoPath
  PROVE  /\ raw \in Seq(P!Segments) /\ raw # <<>>
         /\ alive => raw = setup.own \o sub \/ Misreads(setup)
<1>1. /\ setup \in Setups /\ sub \in {<<>>, setup.sub}
  BY DEF PInv, P!TypeOK, InvTarget
<1>2. /\ setup.own \in Seq(P!Segments) /\ setup.own # <<>> /\ setup.sub \in Seq(P!Segments)
      /\ setup.view \in {"v2", "v1", "hybrid", "private", "junk"}
  BY <1>1, Situation
<1>3. sub \in Seq(P!Segments)
  <2>1. <<>> \in Seq(P!Segments)
    OBVIOUS
  <2> QED
    BY <1>1, <1>2, <2>1
<1>4. p # P!NoPath /\ read = P!ProcCgroup(p)
  <2>1. ASSUME read = <<>>
        PROVE  FALSE
    <3>1. P!RawCgroupPath(read) = P!NoPath /\ P!resolveCgroupPath(read) = P!NoPath
      BY <2>1, NothingRead
    <3> QED
      BY <3>1
  <2> QED
    BY <2>1
<1>5. p \in Seq(P!Segments) /\ p # <<>>
  <2>1. CASE alive
    <3>1. p = setup.own \o sub /\ Len(p) = Len(setup.own) + Len(sub) /\ p \in Seq(P!Segments)
      BY <1>2, <1>3, <2>1, PrefixOfConcat
    <3> QED
      BY <1>2, <1>3, <3>1, EmptySeq
  <2>2. CASE ~alive
    <3>1. p = <<"system.slice", "X.scope">>
      BY <1>4, <2>2
    <3> QED
      BY <3>1, KnownPaths
  <2> QED
    BY <2>1, <2>2
<1>6. CASE setup.mode = "podman"
  <2>1. \/ raw = p
        \/ setup.view = "private" /\ raw = sub /\ sub \notin {<<>>, <<"container">>}
    BY <1>2, <1>4, <1>6, PodmanReads
  <2>2. CASE raw = p
    BY <1>5, <2>2
  <2>3. CASE setup.view = "private" /\ raw = sub /\ sub \notin {<<>>, <<"container">>}
    BY <1>1, <1>3, <1>6, <2>3 DEF Misreads
  <2> QED
    BY <2>1, <2>2, <2>3
<1>7. CASE setup.mode = "sidecar"
  <2>1. \/ raw = p
        \/ setup.view = "private" /\ raw = sub /\ sub # <<>>
    BY <1>2, <1>4, <1>7, ContainerdReads
  <2>2. CASE raw = p
    BY <1>5, <2>2
  <2>3. CASE setup.view = "private" /\ raw = sub /\ sub # <<>>
    BY <1>1, <1>3, <1>7, <2>3 DEF Misreads
  <2> QED
    BY <2>1, <2>2, <2>3
<1> QED
  BY <1>6, <1>7

\* Reading /proc/<pid>/cgroup keeps the invariant.
LEMMA ReadKeeps ==
  ASSUME PInv, LookUp, P!ReadCgroup
  PROVE  PInv'
<1>1. setup' = setup /\ alive' = alive /\ sub' = sub /\ place' = place /\ mode' = mode
  BY LookUpLeaves
<1>2. /\ look = "proc" /\ setup \in Setups /\ driver \in {"systemd", "cgroupfs", "unknown"}
      /\ alive \in BOOLEAN
  BY DEF PInv, P!TypeOK, P!ReadCgroup
<1>3. setup.mode \in {"podman", "sidecar"} /\ Placed(setup)
  BY <1>2 DEF PInv, InvStage, Placed
<1>4. PICK p \in IF alive THEN {setup.own \o sub}
                 ELSE {P!NoPath, <<"system.slice", "X.scope">>} :
        LET read == IF p = P!NoPath THEN <<>> ELSE P!ProcCgroup(p)
            raw  == IF setup.mode = "podman" THEN P!RawCgroupPath(read)
                                             ELSE P!resolveCgroupPath(read)
        IN  /\ excuse' = IF alive THEN excuse ELSE excuse \cup {"pid"}
            /\ IF raw = P!NoPath
                 THEN P!Abandon
                 ELSE /\ lines' = read
                      /\ IF setup.mode = "podman"
                           THEN look' = "stat" /\ UNCHANGED <<path, parent>>
                           ELSE P!Resolved(raw, P!Front(raw))
                      /\ UNCHANGED driver
  BY DEF P!ReadCgroup
<1> PICK read : read = IF p = P!NoPath THEN <<>> ELSE P!ProcCgroup(p)
  OBVIOUS
<1> PICK raw : raw = IF setup.mode = "podman" THEN P!RawCgroupPath(read)
                                              ELSE P!resolveCgroupPath(read)
  OBVIOUS
<1>5. /\ excuse' \in {excuse, excuse \cup {"pid"}, excuse \cup {"inspect"}}
      /\ alive => excuse' = excuse
      /\ ~alive => "pid" \in excuse'
  BY <1>4
<1>6. CASE raw = P!NoPath
  <2>1. look' = "failed" /\ path' = path /\ parent' = parent /\ driver' = driver
    BY <1>4, <1>6 DEF P!Abandon, P!found
  <2> QED
    BY <1>1, <1>2, <1>3, <1>5, <2>1, StillLooking
<1>7. CASE raw # P!NoPath
  <2>1. /\ raw \in Seq(P!Segments) /\ raw # <<>>
        /\ alive => raw = setup.own \o sub \/ Misreads(setup)
    BY <1>3, <1>7, Read
  <2>2. lines' = read /\ driver' = driver
    BY <1>4, <1>7
  <2>3. sub \in {<<>>, setup.sub} /\ setup.sub \in Seq(P!Segments) /\ <<>> \in Seq(P!Segments)
    BY <1>2, Situation DEF PInv, InvTarget
  <2>4. sub \in Seq(P!Segments)
    BY <2>3
  <2>5. CASE setup.mode = "podman"
    <3>1. look' = "stat" /\ path' = path /\ parent' = parent
      BY <1>4, <1>7, <2>5
    <3>2. P!TypeOK'
      BY <1>1, <1>5, <2>2, <3>1 DEF PInv, P!TypeOK
    <3>3. InvTarget' /\ InvStage'
      BY <1>1, <1>2, <1>3, <1>5, <2>5, <3>1 DEF PInv, InvTarget, InvStage
    <3>4. InvDriver' /\ InvAim' /\ InvReach' /\ InvInjected'
      BY <3>1 DEF InvDriver, InvAim, InvReach, InvInjected
    <3>5. InvHits'
      BY <1>1, <1>2 DEF PInv, InvStage, InvHits
    <3>6. raw = P!RawCgroupPath(lines')
      BY <2>2, <2>5
    <3>7. \/ "pid" \in excuse' \/ Misreads(setup)
          \/ \E x \in {<<>>, setup.sub} :
               raw = setup.own \o x /\ (x = setup.sub \/ sub = <<>>)
      BY <1>2, <1>5, <2>1, <2>3
    <3>8. InvStat'
      BY <1>1, <2>1, <2>5, <3>1, <3>6, <3>7 DEF InvStat
    <3> QED
      BY <1>1, <3>2, <3>3, <3>4, <3>5, <3>8 DEF PInv
  <2>6. CASE setup.mode = "sidecar"
    <3>1. path' = raw /\ parent' = P!Front(raw) /\ look' \in {"pull", "ready"}
      BY <1>4, <1>7, <2>6 DEF P!Resolved
    <3>2. parent' \in Seq(P!Segments) /\ path' # P!NoPath
      BY <1>7, <2>1, <3>1, FrontOf
    <3>3. CASE alive /\ raw = setup.own \o sub
      <4>1. Near(setup, Aim(setup, driver', path', parent'))
        BY <1>2, <2>4, <2>6, <3>1, <3>3, SidecarAims
      <4>2. InjectAt(driver', path') = raw
        BY <3>1, <3>2 DEF InjectAt
      <4>3. alive = TRUE
        BY <1>2, <3>3
      <4>4. Open(setup, alive, sub, InjectAt(driver', path'))
        BY <1>2, <2>4, <3>3, <4>2, <4>3, OpenAtProcess
      <4> QED
        BY <1>1, <1>2, <1>3, <1>5, <2>1, <2>2, <2>6, <3>1, <3>2, <4>1, <4>4, Resolves
    <3>4. CASE ~(alive /\ raw = setup.own \o sub)
      <4>1. Misreads(setup) \/ (excuse' \cap {"pid", "inspect"} # {} /\ excuse' # {})
        BY <1>5, <2>1, <3>4
      <4> QED
        BY <1>1, <1>2, <1>3, <1>5, <2>1, <2>2, <2>6, <3>1, <3>2, <4>1, Resolves
    <3> QED
      BY <3>3, <3>4
  <2> QED
    BY <1>3, <2>5, <2>6
<1> QED
  BY <1>6, <1>7

\* The last look of podman's client keeps the invariant.
LEMMA StatKeeps ==
  ASSUME PInv, LookUp, P!StatCgroup
  PROVE  PInv'
<1>1. setup' = setup /\ alive' = alive /\ sub' = sub /\ place' = place /\ mode' = mode
  BY LookUpLeaves
<1>2. /\ look = "stat" /\ setup \in Setups /\ driver \in {"systemd", "cgroupfs", "unknown"}
      /\ alive \in BOOLEAN /\ excuse' = excuse /\ driver' = driver
  BY DEF PInv, P!TypeOK, P!StatCgroup
<1> PICK raw : raw = P!RawCgroupPath(lines)
  OBVIOUS
<1> PICK cut : cut = P!truncateToContainerScope(raw)
  OBVIOUS
<1>3. /\ path' = IF P!Exists(raw) THEN raw ELSE cut
      /\ parent' = P!podmanParent(cut) /\ look' \in {"pull", "ready"}
  BY DEF P!StatCgroup, P!Resolved
<1>4. /\ setup.mode = "podman" /\ raw \in Seq(P!Segments) /\ raw # <<>>
      /\ \/ "pid" \in excuse \/ Misreads(setup)
         \/ \E x \in {<<>>, setup.sub} :
              raw = setup.own \o x /\ (x = setup.sub \/ sub = <<>>)
  BY <1>2 DEF PInv, InvStat
<1>5. cut \in Seq(P!Segments) /\ parent' \in Seq(P!Segments)
  BY <1>3, <1>4, TruncatedType
<1>6. path' \in {raw, cut} /\ path' \in Seq(P!Segments) /\ path' # P!NoPath
  BY <1>3, <1>4, <1>5, NotAPath
<1>7. InjectAt(driver', path') = path'
  BY <1>6 DEF InjectAt
<1>8. Placed(setup)
  BY <1>4 DEF Placed
<1>9. CASE "pid" \in excuse \/ Misreads(setup)
  <2>1. Misreads(setup) \/ (excuse' \cap {"pid", "inspect"} # {} /\ excuse' # {})
    BY <1>2, <1>9
  <2> QED
    BY <1>1, <1>2, <1>3, <1>4, <1>5, <1>6, <1>8, <2>1, Resolves
<1>10. ASSUME NEW x \in {<<>>, setup.sub}, raw = setup.own \o x, x = setup.sub \/ sub = <<>>
       PROVE  PInv'
  <2>1. /\ sub \in {<<>>, setup.sub} /\ setup.sub \in Seq(P!Segments)
        /\ <<>> \in Seq(P!Segments) /\ setup.own \in Seq(P!Segments)
    BY <1>2, Situation DEF PInv, InvTarget
  <2>2. x \in Seq(P!Segments) /\ sub \in Seq(P!Segments)
    BY <1>10, <2>1
  <2>3. Bare(setup) \/ Near(setup, Aim(setup, driver', path', parent'))
    BY <1>2, <1>3, <1>4, <1>6, <1>10, <2>2, PodmanAims
  <2>4. ASSUME excuse' = {}
        PROVE  Stuck(setup) \/ Open(setup, alive, sub, InjectAt(driver', path'))
    <3>1. alive = TRUE
      BY <1>2, <2>4, Undisturbed
    <3>2. CASE x = sub
      <4>1. Open(setup, TRUE, sub, raw)
        BY <1>2, <1>10, <2>2, <3>2, OpenAtProcess
      <4>2. P!Exists(raw)
        BY <3>1, <4>1 DEF Open, P!Exists
      <4> QED
        BY <1>3, <1>7, <3>1, <4>1, <4>2
    <3>3. CASE x # sub
      <4>1. x = setup.sub /\ sub = <<>>
        BY <1>10, <2>1, <3>3
      <4>2. setup.settles
        BY <3>1, <3>3, <4>1 DEF PInv, InvTarget
      <4>3. CASE P!Exists(raw)
        BY <1>3, <1>7, <4>1, <4>3 DEF Open, P!Exists
      <4>4. CASE ~P!Exists(raw) /\ cut = setup.own
        <5>1. setup.own = setup.own \o sub
          BY <2>1, <4>1
        <5>2. Open(setup, TRUE, sub, setup.own)
          BY <1>2, <2>2, <5>1, OpenAtProcess
        <5> QED
          BY <1>3, <1>7, <3>1, <4>4, <5>2
      <4>5. CASE cut # setup.own
        BY <1>4, <1>10, <4>1, <4>2, <4>5 DEF Stuck
      <4> QED
        BY <4>3, <4>4, <4>5
    <3> QED
      BY <3>2, <3>3
  <2> QED
    BY <1>1, <1>2, <1>3, <1>4, <1>5, <1>6, <1>8, <2>3, <2>4, Resolves
<1> QED
  BY <1>4, <1>9, <1>10

\* The sidecar is placed.
LEMMA PlaceKeeps ==
  ASSUME PInv, P!PlaceSidecar, Placed(setup), mode' = mode
  PROVE  PInv'
<1>1. /\ look = "ready" /\ look' = "placed" /\ place' = P!Landing
      /\ setup' = setup /\ driver' = driver /\ lines' = lines /\ path' = path
      /\ parent' = parent /\ alive' = alive /\ sub' = sub /\ excuse' = excuse
  BY DEF P!PlaceSidecar, P!found, P!target
<1>2. /\ setup \in Setups /\ path \in Seq(P!Segments) \cup {P!NoPath} /\ alive \in BOOLEAN
  BY DEF PInv, P!TypeOK
<1>3. setup.inject \in BOOLEAN
  BY <1>2, Situation
<1> PICK aim : aim = Aim(setup, driver, path, parent)
  OBVIOUS
<1>4. /\ parent \in Seq(P!Segments)
      /\ \/ excuse \cap {"pid", "inspect"} # {} \/ Bare(setup) \/ Misreads(setup)
         \/ Near(setup, aim) \/ Astray(setup, aim)
  BY <1>1 DEF PInv, InvAim
<1>5. aim \in Seq(P!Segments)
  <2>1. CASE setup.inject
    BY <1>2, <2>1, KnownPaths DEF Aim, InjectAt
  <2>2. CASE ~setup.inject
    <3>1. CASE setup.mode = "docker" /\ driver = "systemd"
      <4>1. PICK x \in P!Slices : parent = <<x>>
        BY <1>1, <3>1 DEF PInv, InvDriver
      <4>2. P!Last(parent) = x
        BY <4>1 DEF P!Last
      <4>3. aim = Append(P!SlicePath[x], "S")
        BY <2>2, <3>1, <4>2 DEF Aim, P!sidecarCgroup
      <4> QED
        BY <4>3, Appended, SlicePaths
    <3>2. CASE ~(setup.mode = "docker" /\ driver = "systemd")
      <4>1. PICK e \in P!Segments : aim = Append(parent, e)
        BY <2>2, <3>2, Appended DEF Aim, P!sidecarCgroup, P!cgroupChildPath
      <4> QED
        BY <1>4, <4>1
    <3> QED
      BY <3>1, <3>2
  <2> QED
    BY <1>3, <2>1, <2>2
<1>6. aim # P!NoPath
  BY <1>5, NotAPath
<1>7. P!InjectPath = InjectAt(driver, path)
  BY DEF P!InjectPath, InjectAt
<1>8. /\ ~setup.inject => P!Landing = aim
      /\ setup.inject => P!Landing = IF Open(setup, alive, sub, aim) THEN aim ELSE P!NoPath
  <2>1. CASE setup.inject
    <3>1. aim = InjectAt(driver, path)
      BY <2>1 DEF Aim
    <3> QED
      BY <1>7, <2>1, <3>1 DEF P!Landing, P!Exists, Open
  <2>2. CASE ~setup.inject
    BY <2>2 DEF P!Landing, Aim
  <2> QED
    BY <1>3, <2>1, <2>2
<1>9. place' = aim \/ place' = P!NoPath
  BY <1>1, <1>3, <1>8
<1>10. P!TypeOK'
  BY <1>1, <1>5, <1>9 DEF PInv, P!TypeOK
<1>11. InvTarget' /\ InvStage' /\ InvDriver' /\ InvStat'
  BY <1>1 DEF PInv, InvTarget, InvStage, InvDriver, InvStat
<1>12. InvAim' /\ InvReach'
  BY <1>1 DEF InvAim, InvReach
<1>13. InvHits'
  <2>1. ASSUME Astray(setup, aim)
        PROVE  place' = P!NoPath
    <3>1. sub \in Seq(P!Segments)
      <4>1. sub = <<>> \/ sub = setup.sub
        BY DEF PInv, InvTarget
      <4>2. setup.sub \in Seq(P!Segments) /\ <<>> \in Seq(P!Segments)
        BY <1>2, Situation
      <4> QED
        BY <4>1, <4>2
    <3>2. ~Open(setup, alive, sub, aim)
      BY <1>2, <2>1, <3>1, AstrayShut
    <3> QED
      BY <1>1, <1>8, <2>1, <3>2 DEF Astray
  <2> QED
    BY <1>1, <1>4, <1>9, <2>1 DEF InvHits
<1>14. InvInjected'
  <2> SUFFICES ASSUME place' = P!NoPath, excuse = {}
               PROVE  \/ setup.mode = "docker" /\ setup.sub # <<>>
                      \/ Nested(setup) \/ Misreads(setup) \/ Stuck(setup)
    BY <1>1 DEF InvInjected
  <2>1. setup.inject /\ ~Open(setup, alive, sub, aim)
    BY <1>1, <1>3, <1>6, <1>8
  <2>2. aim = InjectAt(driver, path)
    BY <2>1 DEF Aim
  <2> QED
    BY <1>1, <2>1, <2>2 DEF PInv, InvReach
<1> QED
  BY <1>1, <1>10, <1>11, <1>12, <1>13, <1>14 DEF PInv

\* What happens to the target keeps the invariant.
LEMMA EnvironmentKeeps ==
  ASSUME PInv, P!Environment, mode' = mode
  PROVE  PInv'
<1>1. /\ look \notin {"failed", "placed"} /\ sub' = <<>> /\ setup' = setup /\ look' = look
      /\ driver' = driver /\ lines' = lines /\ path' = path /\ parent' = parent
      /\ place' = place
  BY DEF P!Environment, P!TargetExits, P!SubCgroupGoes, P!found
<1>2. \/ alive' = FALSE /\ excuse' = excuse \cup {"exit"}
      \/ /\ alive' = alive /\ setup.settles
         /\ look \in {"pull", "ready"} => excuse' = excuse \cup {"settled"}
         /\ look \notin {"pull", "ready"} => excuse' = excuse
  BY DEF P!Environment, P!TargetExits, P!SubCgroupGoes
<1>3. /\ excuse \subseteq excuse' /\ (look \in {"pull", "ready"} => excuse' # {})
      /\ excuse' \subseteq excuse \cup {"exit", "settled"}
  BY <1>2
<1>4. P!TypeOK'
  BY <1>1, <1>2, <1>3 DEF PInv, P!TypeOK
<1>5. InvTarget'
  BY <1>1, <1>2, <1>3 DEF PInv, InvTarget
<1>6. InvStage' /\ InvDriver'
  BY <1>1 DEF PInv, InvStage, InvDriver
<1>7. InvStat'
  BY <1>1, <1>3 DEF PInv, InvStat
<1>8. InvAim'
  BY <1>1, <1>3 DEF PInv, InvAim
<1>9. InvReach'
  BY <1>1, <1>3 DEF InvReach
<1>10. InvHits' /\ InvInjected'
  BY <1>1 DEF PInv, InvStage, InvHits, InvInjected
<1> QED
  BY <1>1, <1>4, <1>5, <1>6, <1>7, <1>8, <1>9, <1>10 DEF PInv

\* Every step of the stress test keeps the invariant.
LEMMA PInvPreserved ==
  ASSUME PInv, IInv, [TestNext]_testVars
  PROVE  PInv'
<1>1. CASE LookUp
  <2>1. P!CgroupDriver \/ P!InspectCgroupParent \/ P!TargetPid \/ P!ReadCgroup
        \/ P!StatCgroup \/ P!PullImage
    BY <1>1 DEF LookUp, P!LookUp
  <2> QED
    BY <1>1, <2>1, CgroupDriverKeeps, InspectKeeps, TargetPidKeeps, ReadKeeps, StatKeeps,
       PullImageKeeps
<1>2. CASE UNCHANGED placement /\ mode' = mode
  BY <1>2, Still
<1>3. CASE Start
  <2>1. mode' = mode /\ pc = "start"
    BY <1>3 DEF Start, StartSidecar
  <2>2. CASE UNCHANGED placement
    BY <2>1, <2>2, Still
  <2>3. CASE P!PlaceSidecar
    <3>1. mode \notin {"dry", "direct"} /\ mode = setup.mode /\ setup \in Setups
      BY <2>1 DEF IInv, InvPlace, PInv, P!TypeOK
    <3>2. Placed(setup)
      BY <3>1, Situation DEF Placed
    <3> QED
      BY <2>1, <2>3, <3>2, PlaceKeeps
  <2> QED
    BY <1>3, <2>2, <2>3 DEF Start
<1>4. CASE P!Environment /\ mode' = mode
  BY <1>4, EnvironmentKeeps
<1>5. TestCaller => LookUp \/ Start \/ (UNCHANGED placement /\ mode' = mode)
  BY DEF TestCaller, Create, CreateSidecar, DryRun, AttachSidecar, StartReturns,
     LaunchGoroutine, Select, StopContainerWithID
<1>6. TestGoroutine \/ TestTimer \/ Exits => UNCHANGED placement /\ mode' = mode
  BY DEF TestGoroutine, TestTimer, Exits, Goroutine, DrainOutput, InspectExit, WaitSidecar,
     CleanupSidecar, WaitExec, SendResult, CloseChannel, TimerFires, WorkExits
<1>7. Around => (UNCHANGED placement /\ mode' = mode) \/ (P!Environment /\ mode' = mode)
  BY DEF Around, Cancel, AutoRemove, ProcessExits
<1>8. UNCHANGED testVars => UNCHANGED placement /\ mode' = mode
  BY DEF testVars, vars
<1> QED
  BY <1>1, <1>2, <1>3, <1>4, <1>5, <1>6, <1>7, <1>8 DEF TestNext

-----------------------------------------------------------------------------
(* Theorems *)

(***************************************************************************)
(* The inductive invariant of the look-ups holds of a stress test.         *)
(***************************************************************************)
THEOREM LookUpInvariance == TestSpec => []PInv
BY Invariance, InitPInv, PInvPreserved, PTL DEF TestSpec

(***************************************************************************)
(* The state of a stress test and of its look-ups keeps its type.          *)
(***************************************************************************)
THEOREM TestTypeCorrect == TestSpec => []TestTypeOK
<1>1. IInv /\ PInv => TestTypeOK
  BY DEF IInv, PInv, TestTypeOK
<1> QED
  BY Invariance, LookUpInvariance, <1>1, PTL

(***************************************************************************)
(* Whatever the driver, the path, the sub-cgroup and the order of events,  *)
(* stress-ng runs in, below or next to the target's cgroup, up to the      *)
(* exceptions StressHitsTarget names.                                      *)
(***************************************************************************)
THEOREM HitsTarget == TestSpec => []StressHitsTarget
<1>1. PInv => StressHitsTarget
  BY DEF PInv, InvHits, StressHitsTarget, P!StressHitsTarget, P!WithTarget, P!BareInSlice,
     P!Misread, Near, Bare, Misreads
<1> QED
  BY LookUpInvariance, <1>1, PTL

(***************************************************************************)
(* cg-inject is given a cgroup that exists and accepts processes, up to    *)
(* the exceptions InjectionFailsForAReason names.                          *)
(***************************************************************************)
THEOREM InjectsWhereItCan == TestSpec => []InjectionFailsForAReason
<1>1. PInv => InjectionFailsForAReason
  BY DEF PInv, InvInjected, InjectionFailsForAReason, P!InjectionFailsForAReason, P!Misread,
     P!NoWayBack, P!NestedSlice, Misreads, Stuck, Nested
<1> QED
  BY LookUpInvariance, <1>1, PTL
=============================================================================
