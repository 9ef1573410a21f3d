------------------------ MODULE GraphExecutor_proofs ------------------------
EXTENDS GraphExecutor, TLAPS, FiniteSetTheorems, FunctionTheorems,
        NaturalsInduction, WellFoundedInduction, SequenceTheorems

(* A set of naturals that contains 0 and with each element the next one.   *)
LEMMA AllNaturals ==
  ASSUME NEW S, 0 \in S, \A k \in Nat : k \in S => k + 1 \in S
  PROVE  Nat \subseteq S
<1> DEFINE R == OpToRel(<, Nat)
           Bad == Nat \ S
<1>1. IsWellFoundedOn(R, Nat)
  BY NatLessThanWellFounded
<1>2. \A m, n \in Nat : <<n, m>> \notin R => m <= n
  BY DEF OpToRel
<1> HIDE DEF R
<1> SUFFICES ASSUME Bad # {} PROVE FALSE
  OBVIOUS
<1>3. PICK m \in Bad : \A n \in Bad : <<n, m>> \notin R
  <2>1. Bad \subseteq Nat
    OBVIOUS
  <2> HIDE DEF Bad
  <2> QED
    BY <1>1, <2>1, WFMin, Zenon
<1>4. m \in Nat /\ m \notin S
  BY <1>3
<1>5. m # 0
  BY <1>4
<1>6. m - 1 \in Nat /\ m = (m - 1) + 1 /\ ~ (m <= m - 1)
  BY <1>4, <1>5
<1>7. m - 1 \in Bad
  BY <1>4, <1>6
<1> QED
  BY <1>2, <1>3, <1>4, <1>6, <1>7

(* A finite set of naturals has a greatest element, which Max chooses.     *)
LEMMA GreatestNatural ==
  ASSUME NEW S, S \subseteq Nat, S # {}, NEW b \in Nat, \A n \in S : n <= b
  PROVE  Max(S) \in S /\ \A n \in S : n <= Max(S)
<1>1. ASSUME NEW k \in Nat,
             \A n \in S : b - n <= k => \E m \in S : \A l \in S : l <= m,
             NEW n \in S, b - n <= k + 1
      PROVE  \E m \in S : \A l \in S : l <= m
  <2>1. CASE \A l \in S : l <= n
    BY <2>1
  <2>2. CASE \E l \in S : ~ (l <= n)
    <3>1. PICK l \in S : ~ (l <= n)
      BY <2>2
    <3>2. l \in Nat /\ n \in Nat /\ b - l <= k
      BY <3>1, <1>1
    <3> QED
      BY <1>1, <3>2
  <2> QED
    BY <2>1, <2>2
<1> DEFINE Good == {k \in Nat : \A n \in S : b - n <= k => \E m \in S : \A l \in S : l <= m}
<1>2. 0 \in Good
  <2> SUFFICES ASSUME NEW n \in S, b - n <= 0 PROVE \E m \in S : \A l \in S : l <= m
    OBVIOUS
  <2>1. n = b
    OBVIOUS
  <2> QED
    BY <2>1
<1>3. \A k \in Nat : k \in Good => k + 1 \in Good
  BY <1>1
<1>4. Nat \subseteq Good
  <2> HIDE DEF Good
  <2> QED
    BY <1>2, <1>3, AllNaturals
<1>5. \E m \in S : \A l \in S : m >= l
  <2>1. PICK n \in S : TRUE
    OBVIOUS
  <2>2. b - n \in Nat /\ b - n <= b - n
    BY <2>1
  <2>3. \E m \in S : \A l \in S : l <= m
    BY <1>4, <2>1, <2>2
  <2> QED
    BY <2>3
<1>6. Max(S) \in S /\ \A l \in S : Max(S) >= l
  BY <1>5 DEF Max
<1> QED
  BY <1>6

NoRepeats(q) == \A i, j \in 1 .. Len(q) : q[i] = q[j] => i = j

(* The sequence that a set is queued as. *)
LEMMA QueuedSet ==
  ASSUME NEW S, IsFiniteSet(S)
  PROVE  /\ SetToSeq(S) \in Seq(S) /\ ToSet(SetToSeq(S)) = S
         /\ NoRepeats(SetToSeq(S))
<1> DEFINE n == Cardinality(S)  f == SetToSeq(S)
<1>1. n \in Nat /\ ExistsBijection(1 .. n, S)
  BY FS_CardinalityType
<1>2. \E g \in [1 .. n -> S] : IsInjective(g)
  <2>1. PICK g \in Bijection(1 .. n, S) : TRUE
    BY <1>1 DEF ExistsBijection
  <2>2. g \in [1 .. n -> S] /\ \A a, b \in 1 .. n : g[a] = g[b] => a = b
    BY <2>1 DEF Bijection, Injection, IsInjective
  <2> QED
    BY <2>2 DEF IsInjective
<1>3. f \in [1 .. n -> S] /\ IsInjective(f)
  BY <1>2 DEF SetToSeq
<1>4. f \in Injection(1 .. n, S)
  BY <1>3 DEF Injection, IsInjective
<1>5. Cardinality(1 .. n) = n
  BY <1>1, FS_Interval
<1>6. f \in Surjection(1 .. n, S)
  BY <1>4, <1>5, FS_Injection
<1>7. \A x \in S : \E i \in 1 .. n : f[i] = x
  BY <1>6 DEF Surjection
<1> HIDE DEF f
<1>8. f \in Seq(S) /\ Len(f) = n /\ DOMAIN f = 1 .. n
  BY <1>1, <1>3
<1>9. ToSet(f) = S /\ NoRepeats(f)
  BY <1>3, <1>7, <1>8 DEF ToSet, NoRepeats, IsInjective
<1> QED
  BY <1>8, <1>9 DEF f

(* Working a queue off: its head leaves, new elements come to its end.     *)
LEMMA NextQueue ==
  ASSUME NEW S, NEW q \in Seq(S), NEW r \in Seq(S), q # <<>>,
         NoRepeats(q), NoRepeats(r), ToSet(q) \cap ToSet(r) = {}
  PROVE  /\ Tail(q) \o r \in Seq(S) /\ NoRepeats(Tail(q) \o r)
         /\ ToSet(Tail(q) \o r) = (ToSet(q) \ {Head(q)}) \cup ToSet(r)
         /\ Head(q) \in S /\ Head(q) \in ToSet(q)
<1> DEFINE t == Tail(q) \o r  l == Len(q) - 1
<1>1. Len(q) \in Nat /\ Len(q) # 0 /\ l \in Nat /\ Len(r) \in Nat
  OBVIOUS
<1>2. /\ t \in Seq(S) /\ Len(t) = l + Len(r)
      /\ \A i \in 1 .. Len(t) : t[i] = IF i <= l THEN q[i + 1] ELSE r[i - l]
  OBVIOUS
<1>3. /\ ToSet(q) = {q[i] : i \in 1 .. Len(q)}
      /\ ToSet(r) = {r[i] : i \in 1 .. Len(r)}
      /\ ToSet(t) = {t[i] : i \in 1 .. Len(t)}
  <2>1. \A s \in Seq(S) : ToSet(s) = {s[i] : i \in 1 .. Len(s)}
    BY DEF ToSet
  <2> HIDE DEF t
  <2> QED
    BY <1>2, <2>1
<1>4. Head(q) = q[1] /\ q[1] \in S /\ q[1] \in ToSet(q)
  BY <1>1, <1>3
<1> HIDE DEF t
<1>5. ASSUME NEW i \in 1 .. Len(t), i <= l
      PROVE  t[i] = q[i + 1] /\ i + 1 \in 1 .. Len(q) /\ t[i] \in ToSet(q)
  <2>1. t[i] = q[i + 1] /\ i + 1 \in 1 .. Len(q)
    BY <1>1, <1>2, <1>5
  <2> QED
    BY <1>3, <2>1
<1>6. ASSUME NEW i \in 1 .. Len(t), ~ (i <= l)
      PROVE  t[i] = r[i - l] /\ i - l \in 1 .. Len(r) /\ t[i] \in ToSet(r)
  <2>1. t[i] = r[i - l] /\ i - l \in 1 .. Len(r)
    BY <1>1, <1>2, <1>6
  <2> QED
    BY <1>3, <2>1
<1>7. NoRepeats(t)
  <2> SUFFICES ASSUME NEW i \in 1 .. Len(t), NEW j \in 1 .. Len(t), t[i] = t[j]
               PROVE  i = j
    BY DEF NoRepeats
  <2>1. CASE i <= l /\ j <= l
    <3>1. i + 1 \in 1 .. Len(q) /\ j + 1 \in 1 .. Len(q) /\ q[i + 1] = q[j + 1]
      BY <1>5, <2>1
    <3>2. i + 1 = j + 1
      BY <3>1 DEF NoRepeats
    <3> QED
      BY <1>2, <3>2
  <2>2. CASE ~ (i <= l) /\ ~ (j <= l)
    <3>1. i - l \in 1 .. Len(r) /\ j - l \in 1 .. Len(r) /\ r[i - l] = r[j - l]
      BY <1>6, <2>2
    <3>2. i - l = j - l
      BY <3>1 DEF NoRepeats
    <3> QED
      BY <1>1, <1>2, <3>2
  <2>3. CASE ~ (i <= l /\ j <= l) /\ ~ (~ (i <= l) /\ ~ (j <= l))
    BY <1>5, <1>6, <2>3
  <2> QED
    BY <2>1, <2>2, <2>3
<1>8. ToSet(t) \subseteq (ToSet(q) \ {Head(q)}) \cup ToSet(r)
  <2> SUFFICES ASSUME NEW i \in 1 .. Len(t)
               PROVE  t[i] \in (ToSet(q) \ {Head(q)}) \cup ToSet(r)
    BY <1>3
  <2>1. CASE i <= l
    <3>1. t[i] = q[i + 1] /\ i + 1 \in 1 .. Len(q) /\ t[i] \in ToSet(q)
      BY <1>5, <2>1
    <3>2. i + 1 # 1 /\ 1 \in 1 .. Len(q)
      BY <1>1, <1>2
    <3>3. q[i + 1] # q[1]
      BY <3>1, <3>2 DEF NoRepeats
    <3> QED
      BY <1>4, <3>1, <3>3
  <2>2. CASE ~ (i <= l)
    BY <1>6, <2>2
  <2> QED
    BY <2>1, <2>2
<1>9. \A x \in ToSet(q) \ {Head(q)} : x \in ToSet(t)
  <2> SUFFICES ASSUME NEW j \in 1 .. Len(q), q[j] # q[1] PROVE q[j] \in ToSet(t)
    BY <1>3, <1>4
  <2>1. j - 1 \in 1 .. Len(t) /\ j - 1 <= l /\ (j - 1) + 1 = j
    <3>1. j # 1
      OBVIOUS
    <3> QED
      BY <1>1, <1>2, <3>1
  <2>2. t[j - 1] = q[(j - 1) + 1]
    BY <1>5, <2>1
  <2> QED
    BY <1>3, <2>1, <2>2
<1>10. \A x \in ToSet(r) : x \in ToSet(t)
  <2> SUFFICES ASSUME NEW j \in 1 .. Len(r) PROVE r[j] \in ToSet(t)
    BY <1>3
  <2>1. j + l \in 1 .. Len(t) /\ ~ (j + l <= l) /\ (j + l) - l = j
    BY <1>1, <1>2
  <2>2. t[j + l] = r[(j + l) - l]
    BY <1>6, <2>1
  <2> QED
    BY <1>3, <2>1, <2>2
<1> QED
  BY <1>2, <1>4, <1>7, <1>8, <1>9, <1>10 DEF t
-----------------------------------------------------------------------------
(* The graph.                                                              *)

(* Its parts are finite, and its wires lead from a node to a node.          *)
LEMMA Wired ==
  ASSUME graph \in Graphs
  PROVE  /\ IsFiniteSet(Node) /\ IsFiniteSet(graph.wires)
         /\ Cardinality(Node) \in Nat
         /\ \A w \in graph.wires : w[1] \in Node /\ w[3] \in Node
<1>1. /\ IsFiniteSet(DOMAIN graph.type) /\ IsFiniteSet(graph.wires)
      /\ graph.wires \subseteq (DOMAIN graph.type) \X Nat \X (DOMAIN graph.type)
  BY GraphAssumption
<1> QED
  BY <1>1, FS_CardinalityType DEF Node

LEMMA Neighbours ==
  ASSUME graph \in Graphs
  PROVE  \A n \in Node : /\ Feeders(n) \subseteq Node /\ Targets(n) \subseteq Node
                         /\ \A p : Port(n, p) \subseteq Targets(n)
                         /\ \A f \in Node : f \in Feeders(n) <=> n \in Targets(f)
<1> SUFFICES ASSUME NEW n \in Node
             PROVE  /\ Feeders(n) \subseteq Node /\ Targets(n) \subseteq Node
                    /\ \A p : Port(n, p) \subseteq Targets(n)
                    /\ \A f \in Node : f \in Feeders(n) <=> n \in Targets(f)
  OBVIOUS
<1>1. Feeders(n) \subseteq Node /\ Targets(n) \subseteq Node
  BY Wired DEF Feeders, Targets
<1>2. \A p : Port(n, p) \subseteq Targets(n)
  BY DEF Port, Targets
<1>3. \A f \in Node : f \in Feeders(n) <=> n \in Targets(f)
  BY DEF Feeders, Targets
<1> QED
  BY <1>1, <1>2, <1>3
-----------------------------------------------------------------------------
(* topological_sort_waves.                                                 *)
KStart ==
  [queue |-> SetToSeq({n \in Node : Indegree[n] = 0}), degree |-> Indegree,
   visited |-> 0,
   level |-> [n \in Node |-> IF n \in {m \in Node : Indegree[m] = 0} THEN 1 ELSE 0]]

KNext(s) == IF s.queue = <<>> THEN s ELSE KahnStep(s)

Rounds(f) ==
  f = [k \in 0 .. Cardinality(Node) |->
         IF k = 0 THEN KStart
         ELSE IF f[k - 1].queue = <<>> THEN f[k - 1] ELSE KahnStep(f[k - 1])]

(* The function that Kahn recurs on exists: its prefixes do.               *)
LEMMA KahnRuns ==
  ASSUME graph \in Graphs
  PROVE  \E f : /\ Kahn = f[Cardinality(Node)]
                /\ f[0] = KStart
                /\ \A k \in 0 .. Cardinality(Node) - 1 : f[k + 1] = KNext(f[k])
<1> DEFINE N == Cardinality(Node)
           Prefix(k, f) ==
             f = [i \in 0 .. k |-> IF i = 0 THEN KStart ELSE KNext(f[i - 1])]
           Good == {k \in Nat : \E f : Prefix(k, f)}
<1>1. N \in Nat
  BY Wired
<1>2. 0 \in Good
  <2> DEFINE f == [i \in 0 .. 0 |-> KStart]
  <2>1. Prefix(0, f)
    <3> HIDE DEF KStart, KNext
    <3>1. \A i \in 0 .. 0 : i = 0
      OBVIOUS
    <3> QED
      BY <3>1
  <2> QED
    BY <2>1
<1>3. ASSUME NEW k \in Nat, k \in Good PROVE k + 1 \in Good
  <2>1. PICK f : Prefix(k, f)
    BY <1>3
  <2> DEFINE g == [i \in 0 .. k + 1 |-> IF i = k + 1 THEN KNext(f[k]) ELSE f[i]]
  <2>2. \A i \in 0 .. k : f[i] = IF i = 0 THEN KStart ELSE KNext(f[i - 1])
    <3> HIDE DEF KStart, KNext
    <3> QED
      BY <2>1
  <2>3. ASSUME NEW i \in 0 .. k + 1
        PROVE  g[i] = IF i = 0 THEN KStart ELSE KNext(g[i - 1])
    <3>1. CASE i = k + 1
      <4>1. i # 0 /\ i - 1 = k /\ k \in 0 .. k + 1 /\ k # k + 1
        BY <3>1
      <4>2. g[i] = KNext(f[k]) /\ g[i - 1] = f[k]
        <5> HIDE DEF KStart, KNext
        <5> QED
          BY <3>1, <4>1
      <4> QED
        BY <4>1, <4>2
    <3>2. CASE i # k + 1
      <4>1. i \in 0 .. k /\ (i # 0 => i - 1 \in 0 .. k + 1 /\ i - 1 # k + 1)
        BY <3>2
      <4>2. g[i] = f[i] /\ (i # 0 => g[i - 1] = f[i - 1])
        <5> HIDE DEF KStart, KNext
        <5> QED
          BY <3>2, <4>1
      <4> QED
        BY <2>2, <4>1, <4>2
    <3> QED
      BY <3>1, <3>2
  <2>4. g = [i \in 0 .. k + 1 |-> g[i]]
    OBVIOUS
  <2>5. Prefix(k + 1, g)
    <3> HIDE DEF g
    <3> QED
      BY <2>3, <2>4, Zenon
  <2>6. \E h : Prefix(k + 1, h)
    <3> HIDE DEF g, Prefix
    <3> QED
      BY <2>5
  <2> HIDE DEF Prefix
  <2> QED
    BY <2>6
<1>4. PICK f : Prefix(N, f)
  <2>1. Nat \subseteq Good
    <3> HIDE DEF Good
    <3> QED
      BY <1>2, <1>3, AllNaturals
  <2>2. N \in Good
    <3> HIDE DEF Good
    <3> QED
      BY <1>1, <2>1
  <2> QED
    BY <2>2, Zenon
<1>5. Rounds(f)
  BY <1>4, Zenon DEF Rounds, KNext
<1>6. \E h : Rounds(h) /\ Kahn = h[N]
  BY <1>5 DEF Kahn, Rounds, KStart
<1>7. PICK h : Rounds(h) /\ Kahn = h[N]
  BY <1>6
<1>8. \A i \in 0 .. N : h[i] = IF i = 0 THEN KStart ELSE KNext(h[i - 1])
  <2>1. h = [i \in 0 .. N |-> IF i = 0 THEN KStart ELSE KNext(h[i - 1])]
    BY <1>7, Zenon DEF Rounds, KNext
  <2> HIDE DEF KStart, KNext
  <2> QED
    BY <2>1
<1>9. h[0] = KStart
  <2>1. 0 \in 0 .. N
    BY <1>1
  <2> QED
    BY <1>8, <2>1, Zenon
<1>10. ASSUME NEW k \in 0 .. N - 1 PROVE h[k + 1] = KNext(h[k])
  <2>1. k + 1 \in 0 .. N /\ k + 1 # 0 /\ (k + 1) - 1 = k
    BY <1>1
  <2>2. h[k + 1] = KNext(h[(k + 1) - 1])
    BY <1>8, <2>1
  <2> QED
    BY <2>1, <2>2
<1> QED
  BY <1>7, <1>9, <1>10

(* The wires to m that the nodes of D, those already visited, do not use   *)
(* up.                                                                     *)
Open(D, m) == {w \in graph.wires : w[3] = m /\ w[1] \notin D}

(* What holds between two rounds, when the nodes of D have been visited:   *)
(* the queue holds the other nodes that wait for no further wire, and      *)
(* levels go by the feeders visited so far.                                *)
KQueue(s, D) ==
  /\ D \subseteq Node /\ s.visited = Cardinality(D)
  /\ s.queue \in Seq(Node) /\ NoRepeats(s.queue)
  /\ ToSet(s.queue) \cap D = {}
  /\ \A m \in Node : /\ s.degree[m] = Cardinality(Open(D, m))
                     /\ Open(D, m) = {} <=> m \in D \cup ToSet(s.queue)

KLevels(s, D) ==
  /\ s.level \in [Node -> Nat]
  /\ \A m \in Node :
       /\ s.level[m] <= Cardinality(D) + 1
       /\ m \in D => s.level[m] <= Cardinality(D)
       /\ \A f \in Feeders(m) \cap D : s.level[f] < s.level[m]
       /\ IF Feeders(m) = {} THEN s.level[m] = 1
          ELSE IF Feeders(m) \cap D = {} THEN s.level[m] = 0
          ELSE \E f \in Feeders(m) \cap D : s.level[m] = s.level[f] + 1

KSound(s, D) == KQueue(s, D) /\ KLevels(s, D)

LEMMA OpenWires ==
  ASSUME graph \in Graphs, NEW D, NEW m \in Node
  PROVE  /\ IsFiniteSet(Open(D, m)) /\ Cardinality(Open(D, m)) \in Nat
         /\ Cardinality(Open(D, m)) = 0 <=> Open(D, m) = {}
         /\ Open(D, m) = {} <=> Feeders(m) \subseteq D
<1>1. IsFiniteSet(Open(D, m))
  BY Wired, FS_Subset DEF Open
<1>2. Open(D, m) = {} <=> Feeders(m) \subseteq D
  BY DEF Open, Feeders
<1> QED
  BY <1>1, <1>2, FS_CardinalityType, FS_EmptySet

LEMMA KahnStarts ==
  ASSUME graph \in Graphs
  PROVE  KSound(KStart, {})
<1> DEFINE sources == {n \in Node : Indegree[n] = 0}
<1>1. \A m \in Node : Indegree[m] = Cardinality(Open({}, m))
  BY DEF Indegree, Open
<1>2. \A m \in Node : Open({}, m) = {} <=> Feeders(m) = {}
  BY OpenWires
<1>3. \A m \in Node : m \in sources <=> Open({}, m) = {}
  BY <1>1, OpenWires
<1>4. /\ SetToSeq(sources) \in Seq(sources) /\ ToSet(SetToSeq(sources)) = sources
      /\ NoRepeats(SetToSeq(sources))
  <2>1. IsFiniteSet(sources)
    BY Wired, FS_Subset
  <2> HIDE DEF sources
  <2> QED
    BY <2>1, QueuedSet
<1>5. SetToSeq(sources) \in Seq(Node)
  <2>1. sources \subseteq Node
    OBVIOUS
  <2> HIDE DEF sources
  <2> QED
    BY <1>4, <2>1
<1>6. /\ KStart.queue = SetToSeq(sources) /\ KStart.degree = Indegree
      /\ KStart.visited = 0
      /\ KStart.level = [n \in Node |-> IF n \in sources THEN 1 ELSE 0]
  BY DEF KStart
<1>7. Cardinality({}) = 0
  BY FS_EmptySet
<1> HIDE DEF sources
<1>8. KQueue(KStart, {})
  BY <1>1, <1>3, <1>4, <1>5, <1>6, <1>7 DEF KQueue
<1>9. KLevels(KStart, {})
  <2>1. \A m \in Node : KStart.level[m] = IF Feeders(m) = {} THEN 1 ELSE 0
    BY <1>2, <1>3, <1>6
  <2>2. KStart.level \in [Node -> Nat]
    BY <1>6
  <2> QED
    BY <1>7, <2>1, <2>2 DEF KLevels
<1> QED
  BY <1>8, <1>9 DEF KSound

LEMMA KahnVisits ==
  ASSUME graph \in Graphs, NEW s, NEW D, KSound(s, D), s.queue # <<>>
  PROVE  LET n == Head(s.queue) IN
         /\ n \in Node \ D /\ Open(D, n) = {}
         /\ KSound(KahnStep(s), D \cup {n})
<1> DEFINE n == Head(s.queue)  E == D \cup {n}  t == KahnStep(s)
           wires(m) == {w \in graph.wires : w[1] = n /\ w[3] = m}
           degree == [m \in Node |-> s.degree[m] - Cardinality(wires(m))]
           free == {m \in Targets(n) : degree[m] = 0}
<1>1. /\ t.queue = Tail(s.queue) \o SetToSeq(free) /\ t.degree = degree
      /\ t.level = [m \in Node |-> IF m \in Targets(n) /\ s.level[m] <= s.level[n]
                                   THEN s.level[n] + 1 ELSE s.level[m]]
      /\ t.visited = s.visited + 1
  BY DEF KahnStep
<1>2. /\ D \subseteq Node /\ s.visited = Cardinality(D)
      /\ s.queue \in Seq(Node) /\ NoRepeats(s.queue)
      /\ ToSet(s.queue) \cap D = {}
      /\ \A m \in Node : /\ s.degree[m] = Cardinality(Open(D, m))
                         /\ Open(D, m) = {} <=> m \in D \cup ToSet(s.queue)
  BY DEF KSound, KQueue
<1>3. n \in Node /\ n \in ToSet(s.queue)
  <2>1. s.queue[1] \in Node /\ 1 \in DOMAIN s.queue /\ n = s.queue[1]
    BY <1>2
  <2> QED
    BY <2>1 DEF ToSet
<1>4. n \notin D /\ Open(D, n) = {}
  BY <1>2, <1>3
<1>5. Cardinality(E) = Cardinality(D) + 1 /\ Cardinality(D) \in Nat
  <2>1. IsFiniteSet(D)
    BY <1>2, Wired, FS_Subset
  <2> QED
    BY <1>4, <2>1, FS_AddElement, FS_CardinalityType
<1>6. \A m \in Node : m \in Targets(n) <=> wires(m) # {}
  BY DEF Targets
<1>7. ASSUME NEW m \in Node
      PROVE  /\ Open(E, m) = Open(D, m) \ wires(m)
             /\ wires(m) \subseteq Open(D, m)
             /\ degree[m] = Cardinality(Open(E, m))
  <2>1. Open(E, m) = Open(D, m) \ wires(m) /\ wires(m) \subseteq Open(D, m)
    BY <1>4 DEF Open
  <2> HIDE DEF wires, E, n
  <2>2. /\ IsFiniteSet(Open(D, m)) /\ Cardinality(Open(D, m)) \in Nat
    BY OpenWires
  <2>3. IsFiniteSet(wires(m)) /\ Cardinality(wires(m)) \in Nat
    BY <2>1, <2>2, FS_Subset, FS_CardinalityType
  <2>4. Open(D, m) \cap wires(m) = wires(m)
    BY <2>1
  <2>5. Cardinality(Open(D, m) \ wires(m))
          = Cardinality(Open(D, m)) - Cardinality(wires(m))
    BY <2>2, <2>3, <2>4, FS_Difference
  <2> QED
    BY <1>2, <2>1, <2>5
<1>8. Targets(n) \subseteq Node
  BY <1>3, Neighbours
<1>9. \A m \in Targets(n) : /\ m \notin D \cup ToSet(s.queue)
                            /\ m \in free <=> Open(E, m) = {}
  <2> SUFFICES ASSUME NEW m \in Targets(n)
               PROVE  /\ m \notin D \cup ToSet(s.queue)
                      /\ m \in free <=> Open(E, m) = {}
    OBVIOUS
  <2>1. m \in Node /\ Open(D, m) # {}
    BY <1>6, <1>7, <1>8
  <2>2. m \in free <=> Cardinality(Open(E, m)) = 0
    BY <1>7, <2>1
  <2> HIDE DEF E, free
  <2> QED
    BY <1>2, <2>1, <2>2, OpenWires
<1>10. /\ SetToSeq(free) \in Seq(Node) /\ ToSet(SetToSeq(free)) = free
       /\ NoRepeats(SetToSeq(free))
  <2>1. free \subseteq Node /\ IsFiniteSet(free)
    BY <1>8, Wired, FS_Subset
  <2> HIDE DEF free
  <2>2. /\ SetToSeq(free) \in Seq(free) /\ ToSet(SetToSeq(free)) = free
        /\ NoRepeats(SetToSeq(free))
    BY <2>1, QueuedSet
  <2> QED
    BY <2>1, <2>2
<1>11. free \subseteq Targets(n)
  OBVIOUS
<1>12. /\ t.queue \in Seq(Node) /\ NoRepeats(t.queue)
       /\ ToSet(t.queue) = (ToSet(s.queue) \ {n}) \cup free
  <2> HIDE DEF free, t
  <2>1. ToSet(s.queue) \cap ToSet(SetToSeq(free)) = {}
    BY <1>9, <1>10, <1>11
  <2> QED
    BY <1>1, <1>2, <1>10, <2>1, NextQueue
<1>13. ASSUME NEW m \in Node
       PROVE  Open(E, m) = {} <=> m \in E \cup ToSet(t.queue)
  <2>1. CASE m \in Targets(n)
    <3>1. m \in free <=> Open(E, m) = {}
      BY <1>9, <2>1
    <3>2. m \notin D /\ m \notin ToSet(s.queue)
      BY <1>9, <2>1
    <3>3. m # n
      BY <1>3, <3>2
    <3> HIDE DEF free, t, n
    <3> QED
      BY <1>12, <3>1, <3>2, <3>3
  <2>2. CASE m \notin Targets(n)
    <3>1. Open(E, m) = Open(D, m)
      BY <1>6, <1>7, <2>2
    <3> HIDE DEF free, t, n
    <3> QED
      BY <1>2, <1>3, <1>11, <1>12, <2>2, <3>1
  <2> QED
    BY <2>1, <2>2
<1>14. KQueue(t, E)
  <2>1. E \subseteq Node
    BY <1>2, <1>3
  <2>2. ToSet(t.queue) \cap E = {}
    <3> HIDE DEF free, t, n
    <3> QED
      BY <1>2, <1>9, <1>11, <1>12, <1>3
  <2>3. t.visited = Cardinality(E)
    BY <1>1, <1>2, <1>5
  <2>4. \A m \in Node : t.degree[m] = Cardinality(Open(E, m))
    BY <1>1, <1>7
  <2> HIDE DEF t, E
  <2> QED
    BY <1>12, <1>13, <2>1, <2>2, <2>3, <2>4 DEF KQueue
<1>15. KLevels(t, E)
  <2>1. /\ s.level \in [Node -> Nat]
        /\ \A m \in Node :
             /\ s.level[m] <= Cardinality(D) + 1
             /\ m \in D => s.level[m] <= Cardinality(D)
             /\ \A f \in Feeders(m) \cap D : s.level[f] < s.level[m]
             /\ IF Feeders(m) = {} THEN s.level[m] = 1
                ELSE IF Feeders(m) \cap D = {} THEN s.level[m] = 0
                ELSE \E f \in Feeders(m) \cap D : s.level[m] = s.level[f] + 1
    BY DEF KSound, KLevels
  <2>2. /\ t.level \in [Node -> Nat]
        /\ \A m \in Node : t.level[m] = IF m \in Targets(n) /\ s.level[m] <= s.level[n]
                                        THEN s.level[n] + 1 ELSE s.level[m]
    <3> HIDE DEF n, t
    <3> QED
      BY <1>1, <1>3, <2>1
  <2>3. \A f \in E : f \in Node /\ t.level[f] = s.level[f]
    BY <1>2, <1>3, <1>9, <2>2
  <2>4. \A m \in Node : n \in Feeders(m) <=> m \in Targets(n)
    BY <1>3, Neighbours
  <2>5. \A m \in Node : m \in E => m \notin Targets(n)
    BY <1>3, <1>9
  <2> HIDE DEF n, t
  <2>6. ASSUME NEW m \in Node
        PROVE  /\ t.level[m] <= Cardinality(E) + 1
               /\ m \in E => t.level[m] <= Cardinality(E)
    BY <1>3, <1>5, <2>1, <2>2, <2>3, <2>5
  <2>7. ASSUME NEW m \in Node, NEW f \in Feeders(m) \cap E
        PROVE  t.level[f] < t.level[m]
    <3>1. t.level[f] = s.level[f] /\ f \in Node /\ s.level[f] \in Nat
      BY <2>1, <2>3
    <3>2. s.level[m] \in Nat /\ s.level[n] \in Nat
      BY <1>3, <2>1
    <3>3. CASE f = n
      BY <2>2, <2>4, <3>1, <3>2, <3>3
    <3>4. CASE f # n
      <4>1. s.level[f] < s.level[m]
        BY <2>1, <3>4
      <4> QED
        BY <2>2, <3>1, <3>2, <4>1
    <3> QED
      BY <3>3, <3>4
  <2>8. ASSUME NEW m \in Node
        PROVE  IF Feeders(m) = {} THEN t.level[m] = 1
               ELSE IF Feeders(m) \cap E = {} THEN t.level[m] = 0
               ELSE \E f \in Feeders(m) \cap E : t.level[m] = t.level[f] + 1
    <3>1. CASE m \in Targets(n) /\ s.level[m] <= s.level[n]
      <4>1. n \in Feeders(m) \cap E /\ t.level[m] = t.level[n] + 1
        BY <2>2, <2>3, <2>4, <3>1
      <4> QED
        BY <4>1
    <3>2. CASE m \in Targets(n) /\ ~ (s.level[m] <= s.level[n])
      <4>1. s.level[m] # 0 /\ n \in Feeders(m)
        BY <1>3, <2>1, <2>4, <3>2
      <4>2. PICK f \in Feeders(m) \cap D : s.level[m] = s.level[f] + 1
        BY <2>1, <4>1
      <4>3. f \in Feeders(m) \cap E /\ t.level[m] = t.level[f] + 1
        BY <2>2, <2>3, <3>2, <4>2
      <4> QED
        BY <4>3
    <3>3. CASE m \notin Targets(n)
      <4>1. t.level[m] = s.level[m] /\ Feeders(m) \cap E = Feeders(m) \cap D
        BY <2>2, <2>4, <3>3
      <4>2. \A f \in Feeders(m) \cap D : t.level[f] = s.level[f]
        BY <2>3
      <4> QED
        BY <2>1, <4>1, <4>2
    <3> QED
      BY <3>1, <3>2, <3>3
  <2> HIDE DEF E
  <2> QED
    BY <2>2, <2>6, <2>7, <2>8 DEF KLevels
<1> QED
  BY <1>3, <1>4, <1>14, <1>15 DEF KSound

Deepest(lv, n) == Max({0} \cup {lv[f] : f \in Feeders(n)})

Layers(lv) ==
  /\ lv \in [Node -> 0 .. Cardinality(Node)]
  /\ \A n \in Node : lv[n] = Deepest(lv, n) + 1

(* Layers make every wire lead upwards.                                    *)
LEMMA LayersRise ==
  ASSUME graph \in Graphs, NEW lv, Layers(lv)
  PROVE  /\ lv \in [Node -> Nat]
         /\ \A n \in Node : \A f \in Feeders(n) : lv[f] < lv[n]
<1>1. lv \in [Node -> 0 .. Cardinality(Node)] /\ Cardinality(Node) \in Nat
  BY Wired DEF Layers
<1>2. ASSUME NEW n \in Node, NEW f \in Feeders(n)
      PROVE  lv[f] < lv[n]
  <2> DEFINE S == {0} \cup {lv[g] : g \in Feeders(n)}
  <2>1. /\ S \subseteq Nat /\ S # {} /\ lv[f] \in S
        /\ \A k \in S : k <= Cardinality(Node)
    BY <1>1, Neighbours
  <2>2. lv[n] = Max(S) + 1
    BY DEF Layers, Deepest
  <2> HIDE DEF S
  <2>3. Max(S) \in S /\ \A k \in S : k <= Max(S)
    BY <1>1, <2>1, GreatestNatural
  <2>4. lv[f] <= Max(S) /\ lv[f] \in Nat /\ Max(S) \in Nat
    BY <2>1, <2>3
  <2> QED
    BY <2>2, <2>4
<1> QED
  BY <1>1, <1>2

LEMMA LevelsLayer ==
  ASSUME graph \in Graphs, NEW s, KLevels(s, Node)
  PROVE  Layers(s.level)
<1>1. /\ s.level \in [Node -> Nat] /\ Cardinality(Node) \in Nat
      /\ \A m \in Node :
           /\ s.level[m] <= Cardinality(Node)
           /\ \A f \in Feeders(m) : f \in Node /\ s.level[f] < s.level[m]
           /\ IF Feeders(m) = {} THEN s.level[m] = 1
              ELSE \E f \in Feeders(m) : s.level[m] = s.level[f] + 1
  <2>1. \A m \in Node : Feeders(m) \cap Node = Feeders(m)
    BY Neighbours
  <2> QED
    BY <2>1, Wired DEF KLevels
<1>2. s.level \in [Node -> 0 .. Cardinality(Node)]
  BY <1>1
<1>3. ASSUME NEW m \in Node PROVE s.level[m] = Deepest(s.level, m) + 1
  <2> DEFINE S == {0} \cup {s.level[g] : g \in Feeders(m)}
  <2>1. /\ S \subseteq Nat /\ S # {} /\ s.level[m] \in Nat
        /\ \A k \in S : k < s.level[m] /\ k <= s.level[m]
    <3>1. s.level[m] \in Nat /\ s.level[m] # 0
      <4>1. CASE Feeders(m) = {}
        BY <1>1, <4>1
      <4>2. CASE Feeders(m) # {}
        <5>1. PICK f \in Feeders(m) : s.level[m] = s.level[f] + 1
          BY <1>1, <4>2
        <5>2. s.level[f] \in Nat
          BY <1>1
        <5> QED
          BY <5>1, <5>2
      <4> QED
        BY <4>1, <4>2
    <3> QED
      BY <1>1, <3>1
  <2>2. \E k \in S : s.level[m] = k + 1
    <3>1. CASE Feeders(m) = {}
      BY <1>1, <3>1
    <3>2. CASE Feeders(m) # {}
      <4>1. PICK f \in Feeders(m) : s.level[m] = s.level[f] + 1
        BY <1>1, <3>2
      <4> QED
        BY <4>1
    <3> QED
      BY <3>1, <3>2
  <2>3. Deepest(s.level, m) = Max(S)
    BY DEF Deepest
  <2> HIDE DEF S
  <2>4. Max(S) \in S /\ \A k \in S : k <= Max(S)
    BY <2>1, GreatestNatural
  <2>5. PICK k \in S : s.level[m] = k + 1
    BY <2>2
  <2>6. k \in Nat /\ Max(S) \in Nat /\ k <= Max(S) /\ Max(S) < s.level[m]
    BY <2>1, <2>4
  <2> QED
    BY <2>3, <2>5, <2>6
<1> QED
  BY <1>2, <1>3 DEF Layers

LEMMA KahnEnds ==
  ASSUME graph \in Graphs
  PROVE  \E D : KSound(Kahn, D) /\ Kahn.queue = <<>>
<1> DEFINE N == Cardinality(Node)
           Sound(k, s) == \E D : KSound(s, D) /\ (s.queue = <<>> \/ Cardinality(D) = k)
<1>1. PICK f : /\ Kahn = f[N] /\ f[0] = KStart
               /\ \A k \in 0 .. N - 1 : f[k + 1] = KNext(f[k])
  BY KahnRuns
<1>2. N \in Nat
  BY Wired
<1> HIDE DEF N
<1> DEFINE Good == {k \in Nat : k <= N => Sound(k, f[k])}
<1>3. 0 \in Good
  <2>1. Sound(0, KStart)
    BY KahnStarts, FS_EmptySet
  <2> HIDE DEF Sound
  <2> QED
    BY <1>1, <2>1
<1>4. ASSUME NEW k \in Nat, k \in Good PROVE k + 1 \in Good
  <2> SUFFICES ASSUME k + 1 <= N PROVE Sound(k + 1, f[k + 1])
    OBVIOUS
  <2>1. k \in 0 .. N - 1 /\ k <= N
    BY <1>2
  <2>2. PICK D : KSound(f[k], D) /\ (f[k].queue = <<>> \/ Cardinality(D) = k)
    BY <1>4, <2>1
  <2>3. f[k + 1] = KNext(f[k])
    BY <1>1, <2>1
  <2>4. CASE f[k].queue = <<>>
    <3>1. f[k + 1] = f[k]
      BY <2>3, <2>4 DEF KNext
    <3> QED
      BY <2>2, <2>4, <3>1
  <2>5. CASE f[k].queue # <<>>
    <3> DEFINE n == Head(f[k].queue)
    <3>1. f[k + 1] = KahnStep(f[k])
      BY <2>3, <2>5 DEF KNext
    <3>2. n \in Node \ D /\ KSound(KahnStep(f[k]), D \cup {n})
      BY <2>2, <2>5, KahnVisits
    <3>3. IsFiniteSet(D)
      BY <2>2, Wired, FS_Subset DEF KSound, KQueue
    <3>4. Cardinality(D \cup {n}) = k + 1
      BY <2>2, <2>5, <3>2, <3>3, FS_AddElement
    <3> QED
      BY <3>1, <3>2, <3>4
  <2> QED
    BY <2>4, <2>5
<1>5. Sound(N, f[N])
  <2>1. Nat \subseteq Good
    <3> HIDE DEF Good
    <3> QED
      BY <1>3, <1>4, AllNaturals
  <2> QED
    BY <1>2, <2>1
<1>6. PICK D : KSound(Kahn, D) /\ (Kahn.queue = <<>> \/ Cardinality(D) = N)
  BY <1>1, <1>5
<1>7. ASSUME Kahn.queue # <<>> PROVE FALSE
  <2>1. D = Node
    <3>1. D \subseteq Node /\ Cardinality(D) = Cardinality(Node)
      BY <1>6, <1>7 DEF KSound, KQueue, N
    <3> QED
      BY <3>1, Wired, FS_Subset
  <2> QED
    BY <1>6, <1>7, <2>1, KahnVisits
<1> QED
  BY <1>6, <1>7

(* A graph is refused exactly if it has a cycle; else it is layered.       *)
LEMMA KahnSorts ==
  ASSUME graph \in Graphs
  PROVE  IF Kahn.visited = Cardinality(Node)
         THEN Layers(Kahn.level)
         ELSE \E cycle \in (SUBSET Node) \ {{}} :
                 \A n \in cycle : Feeders(n) \cap cycle # {}
<1>1. PICK D : KSound(Kahn, D) /\ Kahn.queue = <<>>
  BY KahnEnds
<1>2. /\ D \subseteq Node /\ Kahn.visited = Cardinality(D)
      /\ \A m \in Node : Open(D, m) = {} => m \in D
  <2>1. ToSet(Kahn.queue) = {}
    BY <1>1 DEF ToSet
  <2> QED
    BY <1>1, <2>1 DEF KSound, KQueue
<1>3. CASE Kahn.visited = Cardinality(Node)
  <2>1. D = Node
    BY <1>2, <1>3, Wired, FS_Subset
  <2> QED
    BY <1>1, <1>3, <2>1, LevelsLayer DEF KSound
<1>4. CASE Kahn.visited # Cardinality(Node)
  <2>1. D # Node
    BY <1>2, <1>4
  <2> DEFINE C == Node \ D
  <2>2. \A n \in C : Feeders(n) \cap C # {}
    <3> SUFFICES ASSUME NEW n \in C PROVE Feeders(n) \cap C # {}
      OBVIOUS
    <3>1. ~ (Feeders(n) \subseteq D)
      BY <1>2, OpenWires
    <3> QED
      BY <3>1, Neighbours
  <2>3. C \subseteq Node /\ C # {}
    BY <1>2, <2>1
  <2> HIDE DEF C
  <2> QED
    BY <1>4, <2>2, <2>3
<1> QED
  BY <1>3, <1>4
-----------------------------------------------------------------------------
(* The executor's steps, as far as waves and skipped nodes are concerned.   *)

NoPhaseYet == phase = "none" => pc \in {"new", "over"} /\ stack = <<>>

LEMMA PortsLead ==
  ASSUME graph \in Graphs, NEW n, NEW p
  PROVE  Port(n, p) \subseteq Node /\ Targets(n) \subseteq Node
BY Wired DEF Port, Targets

Marks == \/ SkipNothing
         \/ \E roots \in SUBSET Node : MarkSkipped(roots)

LEMMA InstantMarks ==
  ASSUME graph \in Graphs, NEW n, NEW rest, ExecuteInstantNode(n, rest)
  PROVE  Marks
<1>1. CASE ExecuteFanOut(n, rest)
  BY <1>1 DEF ExecuteFanOut, Marks
<1>2. CASE ExecuteText(n, rest)
  BY <1>2 DEF ExecuteText, Marks
<1>3. CASE ExecuteRaises(n)
  BY <1>3 DEF ExecuteRaises, Marks
<1>4. CASE ExecuteConditional(n, rest)
  <2>1. PICK taken : MarkSkipped(Port(n, 3 - taken) \ Port(n, taken))
    BY <1>4 DEF ExecuteConditional
  <2>2. Port(n, 3 - taken) \ Port(n, taken) \in SUBSET Node
    BY PortsLead
  <2> QED
    BY <2>1, <2>2 DEF Marks
<1>5. CASE ExecuteGenerator(n, rest)
  BY <1>5 DEF ExecuteGenerator, Marks
<1>6. CASE ExecutePlanApplier(n, rest)
  BY <1>6 DEF ExecutePlanApplier, Marks
<1>7. CASE ExecuteWaiting(n, rest)
  BY <1>7 DEF ExecuteWaiting, Marks
<1>8. CASE ExecuteUnknown(n, rest)
  BY <1>8 DEF ExecuteUnknown, Marks
<1> QED
  BY <1>1, <1>2, <1>3, <1>4, <1>5, <1>6, <1>7, <1>8 DEF ExecuteInstantNode

Moves ==
  /\ UNCHANGED <<graph, level>>
  /\ \/ phase = "none" /\ UNCHANGED <<phase, pc, stack, skipped, dropped>>
     \/ /\ phase # "none" /\ phase' # "none"
        /\ Marks \/ (skipped' = {} /\ dropped' = {})

LEMMA WaveLoopMoves ==
  ASSUME graph \in Graphs, NoPhaseYet,
         \/ EnterWave \/ InstantsDone \/ NodesStarted \/ WaitWakes \/ WaveDone
         \/ RetriesDone
         \/ \E n \in Node : RunInstant(n) \/ StartNode(n) \/ RetryNode(n)
  PROVE  Moves
<1>1. CASE EnterWave
  BY <1>1 DEF EnterWave, Finish, nodeVars, Moves, NoPhaseYet, Marks, SkipNothing
<1>2. CASE InstantsDone
  BY <1>2 DEF InstantsDone, Finish, nodeVars, Moves, NoPhaseYet, Marks, SkipNothing
<1>3. CASE NodesStarted
  BY <1>3 DEF NodesStarted, Finish, nodeVars, Moves, NoPhaseYet, Marks, SkipNothing
<1>4. CASE WaitWakes
  BY <1>4 DEF WaitWakes, nodeVars, loopVars, Moves, NoPhaseYet, Marks, SkipNothing
<1>5. CASE WaveDone
  <2>1. /\ pc = "waiting" /\ UNCHANGED <<graph, level, phase>>
        /\ \E nodes : MarkSkipped(UNION {NotRouted(n) : n \in
             {m \in nodes \cap DOMAIN results' : Type(m) = "router"}})
    BY <1>5 DEF WaveDone
  <2>2. PICK nodes : MarkSkipped(UNION {NotRouted(n) : n \in
             {m \in nodes \cap DOMAIN results' : Type(m) = "router"}})
    BY <2>1
  <2> DEFINE roots == UNION {NotRouted(n) : n \in
             {m \in nodes \cap DOMAIN results' : Type(m) = "router"}}
  <2>3. roots \subseteq Node
    BY Wired DEF NotRouted, Targets
  <2> HIDE DEF roots
  <2>4. Marks
    BY <2>2, <2>3 DEF Marks, roots
  <2> QED
    BY <2>1, <2>4 DEF Moves, NoPhaseYet
<1>6. CASE RetriesDone
  BY <1>6 DEF RetriesDone, Finish, nodeVars, Moves, NoPhaseYet, Marks, SkipNothing
<1>7. ASSUME NEW n \in Node, RunInstant(n) PROVE Moves
  <2>1. pc = "instants" /\ UNCHANGED <<graph, level, phase>> /\ Marks
    BY <1>7, InstantMarks DEF RunInstant
  <2> QED
    BY <2>1 DEF Moves, NoPhaseYet
<1>8. ASSUME NEW n \in Node, StartNode(n) PROVE Moves
  BY <1>8 DEF StartNode, Moves, NoPhaseYet, Marks, SkipNothing
<1>9. ASSUME NEW n \in Node, RetryNode(n) PROVE Moves
  BY <1>9 DEF RetryNode, nodeVars, Moves, NoPhaseYet, Marks, SkipNothing
<1> QED
  BY <1>1, <1>2, <1>3, <1>4, <1>5, <1>6, <1>7, <1>8, <1>9

LEMMA CallMoves ==
  ASSUME graph \in Graphs, NoPhaseYet, stack # <<>>,
         \/ GateWakes \/ PlanWakes \/ LoopTurn \/ RetryTurn \/ RevisionDone
         \/ RerunNode \/ RerunDone \/ StartRecheck \/ RecheckDone
         \/ ItemStarts \/ ItemsDone
  PROVE  Moves
<1>1. UNCHANGED <<graph, level, phase>>
  BY DEF GateWakes, PlanWakes, LoopTurn, RetryTurn, RevisionDone, RerunNode,
         RerunDone, StartRecheck, RecheckDone, ItemStarts, ItemsDone, nodeVars
<1>2. CASE GateWakes
  <2>1. SkipNothing \/ \E taken : MarkSkipped(Port(Caller.node, 3 - taken)
                                                \ Port(Caller.node, taken))
    BY <1>2 DEF GateWakes
  <2>2. \A p : Port(Caller.node, p) \subseteq Node
    BY PortsLead
  <2>3. \A p, q : Port(Caller.node, p) \ Port(Caller.node, q) \in SUBSET Node
    BY <2>2
  <2>4. Marks
    BY <2>1, <2>3, Zenon DEF Marks
  <2> QED
    BY <1>1, <2>4 DEF Moves, NoPhaseYet
<1>3. CASE LoopTurn
  <2>1. SkipNothing \/ \E port : MarkSkipped(Port(Caller.node, port))
    BY <1>3 DEF LoopTurn, SkipNothing
  <2>2. \A p : Port(Caller.node, p) \in SUBSET Node
    BY PortsLead
  <2>3. Marks
    BY <2>1, <2>2, Zenon DEF Marks
  <2> QED
    BY <1>1, <2>3 DEF Moves, NoPhaseYet
<1>4. CASE RerunNode
  <2>1. \/ SkipNothing
        \/ \E rest : ExecuteInstantNode(Head(Caller.queue), rest)
    BY <1>4 DEF RerunNode
  <2>2. Marks
    BY <2>1, InstantMarks DEF Marks
  <2> QED
    BY <1>1, <2>2 DEF Moves, NoPhaseYet
<1>5. CASE \/ PlanWakes \/ RetryTurn \/ RevisionDone \/ RerunDone
           \/ StartRecheck \/ RecheckDone \/ ItemStarts \/ ItemsDone
  <2>1. Marks
    BY <1>5 DEF PlanWakes, RetryTurn, RevisionDone, RerunDone, StartRecheck,
       RecheckDone, ItemStarts, ItemsDone, nodeVars, Marks, SkipNothing
  <2> QED
    BY <1>1, <2>1 DEF Moves, NoPhaseYet
<1> QED
  BY <1>2, <1>3, <1>4, <1>5

LEMMA OtherMoves ==
  ASSUME graph \in Graphs, NoPhaseYet,
         \/ StrayStarts \/ UserAnswers \/ UserCancels \/ Crash \/ FlowDies
         \/ ResumeFlow
         \/ \E t \in DOMAIN rows :
               RowEnds(t) \/ RowFails(t) \/ RowRequeued(t) \/ RowStopped(t)
               \/ RowContinued(t)
  PROVE  Moves
<1> USE DEF Moves, NoPhaseYet, Marks, SkipNothing, nodeVars, loopVars, callVars
<1>1. CASE StrayStarts
  BY <1>1 DEF StrayStarts
<1>2. CASE UserAnswers
  BY <1>2 DEF UserAnswers, Inside
<1>3. CASE UserCancels
  BY <1>3 DEF UserCancels
<1>4. CASE Crash \/ FlowDies
  BY <1>4 DEF Crash, FlowDies, Gone, Alive
<1>5. CASE ResumeFlow
  BY <1>5 DEF ResumeFlow
<1>6. ASSUME NEW t \in DOMAIN rows,
             \/ RowEnds(t) \/ RowFails(t) \/ RowRequeued(t) \/ RowStopped(t)
             \/ RowContinued(t)
      PROVE  Moves
  <2>1. UNCHANGED <<graph, nodeVars, loopVars, callVars>>
    BY <1>6 DEF RowEnds, RowCompletes, TurnEnds, RowFails, RowRequeued,
       RowStopped, RowContinued, Turned
  <2> QED
    BY <2>1
<1> QED
  BY <1>1, <1>2, <1>3, <1>4, <1>5, <1>6

LEMMA StepMoves ==
  ASSUME graph \in Graphs, NoPhaseYet, ExecutorNext
  PROVE  Execute \/ Moves
<1>1. CASE ExecutorStep
  <2>1. CASE \/ GateWakes \/ PlanWakes \/ LoopTurn \/ RetryTurn \/ RevisionDone
             \/ RerunNode \/ RerunDone \/ StartRecheck \/ RecheckDone
             \/ ItemStarts \/ ItemsDone
    <3>1. stack # <<>>
      BY <2>1 DEF GateWakes, PlanWakes, LoopTurn, RetryTurn, RevisionDone,
         RerunNode, RerunDone, StartRecheck, RecheckDone, ItemStarts, ItemsDone,
         Inside
    <3> QED
      BY <2>1, <3>1, CallMoves
  <2>2. CASE StrayStarts
    BY <2>2, OtherMoves
  <2>3. CASE \/ EnterWave \/ InstantsDone \/ NodesStarted \/ WaitWakes \/ WaveDone
             \/ RetriesDone
             \/ \E n \in Node : RunInstant(n) \/ StartNode(n) \/ RetryNode(n)
    BY <2>3, WaveLoopMoves
  <2> QED
    BY <1>1, <2>1, <2>2, <2>3 DEF ExecutorStep
<1>2. CASE \/ UserAnswers \/ UserCancels \/ Crash \/ FlowDies \/ ResumeFlow
           \/ \E t \in DOMAIN rows :
                 RowEnds(t) \/ RowFails(t) \/ RowRequeued(t) \/ RowStopped(t)
                 \/ RowContinued(t)
  BY <1>2, OtherMoves
<1> QED
  BY <1>1, <1>2 DEF ExecutorNext
-----------------------------------------------------------------------------
(* The waves.                                                              *)
Cyclic == \E cycle \in (SUBSET Node) \ {{}} :
             \A n \in cycle : Feeders(n) \cap cycle # {}

Layout ==
  /\ graph \in Graphs /\ NoPhaseYet
  /\ pc = "over" /\ phase = "none" => Cyclic
  /\ phase # "none" => Layers(level)

LEMMA LayoutStep ==
  ASSUME Layout, ExecutorNext
  PROVE  Layout'
<1>1. graph \in Graphs /\ NoPhaseYet
  BY DEF Layout
<1>2. ASSUME UNCHANGED graph
      PROVE  /\ Node' = Node
             /\ \A n : Feeders(n)' = Feeders(n)
             /\ \A lv : Layers(lv)' <=> Layers(lv)
             /\ Cyclic' = Cyclic
  <2>1. Node' = Node /\ \A n : Feeders(n)' = Feeders(n)
    BY <1>2 DEF Node, Feeders
  <2>2. \A lv : Layers(lv)' <=> Layers(lv)
    BY <2>1 DEF Layers, Deepest
  <2>3. Cyclic' = Cyclic
    BY <2>1 DEF Cyclic
  <2> QED
    BY <2>1, <2>2, <2>3
<1>3. CASE Moves
  BY <1>1, <1>2, <1>3 DEF Layout, Moves, NoPhaseYet
<1>4. CASE Execute
  <2>1. UNCHANGED <<graph, stack>> /\ pc = "new"
    BY <1>4 DEF Execute, callVars
  <2>2. CASE Kahn.visited = Cardinality(Node)
    <3>1. level' = Kahn.level /\ pc' = "wave" /\ phase' = "open"
      BY <1>4, <2>2 DEF Execute
    <3>2. Layers(Kahn.level)
      BY <1>1, <2>2, KahnSorts
    <3> QED
      BY <1>1, <1>2, <2>1, <3>1, <3>2 DEF Layout, NoPhaseYet
  <2>3. CASE Kahn.visited # Cardinality(Node)
    <3>1. pc' = "over" /\ UNCHANGED <<level, phase>>
      BY <1>4, <2>3 DEF Execute
    <3>2. Cyclic
      BY <1>1, <2>3, KahnSorts DEF Cyclic
    <3> QED
      BY <1>1, <1>2, <2>1, <3>1, <3>2 DEF Layout, NoPhaseYet
  <2> QED
    BY <2>2, <2>3
<1> QED
  BY <1>1, <1>3, <1>4, StepMoves

LEMMA LayoutStart == ExecutorInit => Layout
BY DEF ExecutorInit, Layout, NoPhaseYet

LEMMA LayoutStutter == Layout /\ UNCHANGED graphVars => Layout'
BY DEF graphVars, nodeVars, loopVars, callVars, Layout, NoPhaseYet, Cyclic,
   Layers, Deepest, Feeders, Node

LEMMA LayoutAlways == ExecutorSpec => []Layout
<1>1. Layout /\ [ExecutorNext]_graphVars => Layout'
  BY LayoutStep, LayoutStutter
<1> QED
  BY <1>1, LayoutStart, PTL DEF ExecutorSpec

(* A graph is refused exactly if it has a cycle, and otherwise every node   *)
(* is in the earliest wave that its wires allow (WavesLayered).             *)
THEOREM Layered == ExecutorSpec => []WavesLayered
<1>1. Layout => WavesLayered
  BY DEF Layout, Cyclic, Layers, Deepest, WavesLayered
<1> QED
  BY <1>1, LayoutAlways, PTL
-----------------------------------------------------------------------------
(* What is skipped.                                                        *)
Closed(s, roots) ==
  /\ roots \subseteq s
  /\ \A n \in Node : Feeders(n) \in (SUBSET s) \ {{}} => n \in s

Least(s, roots) ==
  /\ Closed(s, roots)
  /\ \A t \in SUBSET s : Closed(t, roots) => t = s

(* An element of a set of nodes that no element of the set feeds.          *)
LEMMA Lowest ==
  ASSUME graph \in Graphs, Layers(level), NEW S, S \subseteq Node, S # {}
  PROVE  \E n \in S : Feeders(n) \cap S = {}
<1> DEFINE Good == {k \in Nat : \A n \in S : level[n] <= k =>
                                  \E m \in S : Feeders(m) \cap S = {}}
<1>1. /\ level \in [Node -> Nat]
      /\ \A n \in Node : \A f \in Feeders(n) : level[f] < level[n]
  BY LayersRise
<1>2. ASSUME NEW k \in Nat, NEW n \in S, level[n] <= k,
             \A l \in S : level[l] < level[n] => \E m \in S : Feeders(m) \cap S = {}
      PROVE  \E m \in S : Feeders(m) \cap S = {}
  BY <1>1, <1>2
<1>3. 0 \in Good
  <2> SUFFICES ASSUME NEW n \in S, level[n] <= 0
               PROVE  \E m \in S : Feeders(m) \cap S = {}
    OBVIOUS
  <2>1. \A l \in S : ~ (level[l] < level[n])
    BY <1>1
  <2> QED
    BY <1>2, <2>1
<1>4. ASSUME NEW k \in Nat, k \in Good PROVE k + 1 \in Good
  <2> SUFFICES ASSUME NEW n \in S, level[n] <= k + 1
               PROVE  \E m \in S : Feeders(m) \cap S = {}
    OBVIOUS
  <2>1. \A l \in S : level[l] < level[n] => level[l] <= k
    BY <1>1
  <2> QED
    BY <1>2, <1>4, <2>1
<1>5. Nat \subseteq Good
  <2> HIDE DEF Good
  <2> QED
    BY <1>3, <1>4, AllNaturals
<1>6. PICK n \in S : TRUE
  OBVIOUS
<1>7. level[n] \in Nat /\ level[n] <= level[n]
  BY <1>1
<1> QED
  BY <1>5, <1>6, <1>7

LEMMA BelowFollows ==
  ASSUME graph \in Graphs, NEW roots
  PROVE  /\ Below(roots) \subseteq Node \ roots
         /\ \A m \in roots \cup Below(roots) :
               Targets(m) \ roots \subseteq Below(roots)
         /\ \A n \in Below(roots) : Feeders(n) # {}
<1> DEFINE closed(s) == \A m \in s \cup roots : Targets(m) \subseteq s
<1>1. Below(roots) = {n \in Node \ roots : \A s \in SUBSET Node : closed(s) => n \in s}
  BY DEF Below
<1>2. ASSUME NEW m \in roots \cup Below(roots), NEW n \in Targets(m) \ roots
      PROVE  n \in Below(roots)
  <2>1. n \in Node \ roots
    BY PortsLead
  <2>2. \A s \in SUBSET Node : closed(s) => n \in s
    BY <1>1
  <2> QED
    BY <1>1, <2>1, <2>2
<1>3. ASSUME NEW n \in Below(roots), Feeders(n) = {}
      PROVE  FALSE
  <2>1. \A m : n \notin Targets(m)
    BY <1>3 DEF Feeders, Targets
  <2>2. closed(Node \ {n})
    BY <2>1, PortsLead
  <2> QED
    BY <1>1, <2>2
<1> QED
  BY <1>1, <1>2, <1>3

LEMMA PrunedStuck ==
  ASSUME graph \in Graphs, NEW roots
  PROVE  /\ Pruned(roots) \subseteq Below(roots)
         /\ \A n \in Pruned(roots) :
               Feeders(n) \subseteq Pruned(roots) \cup roots \cup skipped
         /\ \A n \in Below(roots) :
               Feeders(n) \subseteq Pruned(roots) \cup roots \cup skipped
                 => n \in Pruned(roots)
<1> DEFINE stuck(s) == \A n \in s : Feeders(n) \subseteq s \cup roots \cup skipped
<1>1. Pruned(roots) = UNION {s \in SUBSET Below(roots) : stuck(s)}
  BY DEF Pruned
<1>2. Pruned(roots) \subseteq Below(roots)
  BY <1>1
<1>3. ASSUME NEW n \in Pruned(roots)
      PROVE  Feeders(n) \subseteq Pruned(roots) \cup roots \cup skipped
  <2>1. PICK s \in SUBSET Below(roots) : stuck(s) /\ n \in s
    BY <1>1
  <2>2. s \subseteq Pruned(roots)
    BY <1>1, <2>1
  <2> QED
    BY <2>1, <2>2
<1>4. ASSUME NEW n \in Below(roots),
             Feeders(n) \subseteq Pruned(roots) \cup roots \cup skipped
      PROVE  n \in Pruned(roots)
  <2> DEFINE s == Pruned(roots) \cup {n}
  <2>1. s \in SUBSET Below(roots)
    BY <1>2
  <2>2. stuck(s)
    BY <1>3, <1>4
  <2> HIDE DEF s
  <2>3. s \subseteq Pruned(roots)
    BY <1>1, <2>1, <2>2
  <2> QED
    BY <2>3 DEF s
<1> QED
  BY <1>2, <1>3, <1>4

(* _mark_skipped keeps what is skipped the least closed set.               *)
LEMMA MarkedLeast ==
  ASSUME graph \in Graphs, Layers(level), Least(skipped, dropped),
         NEW roots \in SUBSET Node
  PROVE  Least(skipped \cup roots \cup Pruned(roots), dropped \cup roots)
<1> DEFINE P == Pruned(roots)  S == skipped \cup roots \cup P
           D == dropped \cup roots
<1>1. /\ P \subseteq Below(roots)
      /\ \A n \in P : Feeders(n) \subseteq P \cup roots \cup skipped
      /\ \A n \in Below(roots) :
            Feeders(n) \subseteq P \cup roots \cup skipped => n \in P
  BY PrunedStuck
<1>2. /\ Below(roots) \subseteq Node \ roots
      /\ \A m \in roots \cup Below(roots) : Targets(m) \ roots \subseteq Below(roots)
      /\ \A n \in Below(roots) : Feeders(n) # {}
  BY BelowFollows
<1>3. /\ dropped \subseteq skipped
      /\ \A n \in Node : Feeders(n) \in (SUBSET skipped) \ {{}} => n \in skipped
      /\ \A t \in SUBSET skipped : Closed(t, dropped) => t = skipped
  BY DEF Least, Closed
<1> HIDE DEF P
<1>4. Closed(S, D)
  <2> SUFFICES ASSUME NEW n \in Node, Feeders(n) \subseteq S, Feeders(n) # {}
               PROVE  n \in S
    BY <1>3 DEF Closed
  <2>1. CASE Feeders(n) \subseteq skipped
    BY <1>3, <2>1
  <2>2. CASE ~ (Feeders(n) \subseteq skipped)
    <3>1. PICK f \in Feeders(n) : f \in roots \cup Below(roots)
      BY <1>1, <2>2
    <3>2. f \in Node /\ n \in Targets(f)
      BY Neighbours
    <3>3. n \in roots \/ n \in Below(roots)
      BY <1>2, <3>1, <3>2
    <3> QED
      BY <1>1, <3>3
  <2> QED
    BY <2>1, <2>2
<1>5. ASSUME NEW t \in SUBSET S, Closed(t, D)
      PROVE  t = S
  <2>1. /\ D \subseteq t
        /\ \A n \in Node : Feeders(n) \in (SUBSET t) \ {{}} => n \in t
    BY <1>5 DEF Closed
  <2>2. skipped \subseteq t
    <3>1. Closed(skipped \cap t, dropped)
      BY <1>3, <2>1 DEF Closed
    <3> QED
      BY <1>3, <3>1
  <2>3. P \subseteq t
    <3> SUFFICES ASSUME P \ t # {} PROVE FALSE
      OBVIOUS
    <3>1. P \ t \subseteq Node
      BY <1>1, <1>2
    <3>2. PICK n \in P \ t : Feeders(n) \cap (P \ t) = {}
      BY <3>1, Lowest
    <3>3. Feeders(n) \subseteq t /\ Feeders(n) # {} /\ n \in Node
      BY <1>1, <1>2, <2>1, <2>2, <3>2
    <3> QED
      BY <2>1, <3>2, <3>3
  <2> QED
    BY <2>1, <2>2, <2>3
<1> QED
  BY <1>4, <1>5 DEF Least, P

SkipInv == Layout /\ Least(skipped, dropped)

LEMMA SkipStep ==
  ASSUME SkipInv, ExecutorNext
  PROVE  SkipInv'
<1>1. Layout /\ graph \in Graphs /\ NoPhaseYet /\ Least(skipped, dropped)
  BY DEF SkipInv, Layout
<1>2. Layout'
  BY <1>1, LayoutStep
<1>3. ASSUME UNCHANGED graph
      PROVE  \A s, d : Least(s, d)' <=> Least(s, d)
  BY <1>3 DEF Least, Closed, Feeders, Node
<1>4. UNCHANGED graph
  BY <1>1, StepMoves DEF Execute, Moves
<1>5. CASE UNCHANGED <<skipped, dropped>>
  <2>1. Least(skipped, dropped)'
    BY <1>1, <1>3, <1>4, <1>5
  <2> QED
    BY <1>2, <2>1 DEF SkipInv
<1>6. CASE phase # "none" /\ \E roots \in SUBSET Node : MarkSkipped(roots)
  <2>1. PICK roots \in SUBSET Node : MarkSkipped(roots)
    BY <1>6
  <2>2. Layers(level)
    BY <1>1, <1>6 DEF Layout
  <2>3. Least(skipped \cup roots \cup Pruned(roots), dropped \cup roots)
    BY <1>1, <2>2, MarkedLeast
  <2>4. Least(skipped, dropped)'
    BY <1>3, <1>4, <2>1, <2>3 DEF MarkSkipped
  <2> QED
    BY <1>2, <2>4 DEF SkipInv
<1>7. CASE skipped' = {} /\ dropped' = {}
  <2>1. Least({}, {})
    BY DEF Least, Closed
  <2>2. Least(skipped, dropped)'
    BY <1>3, <1>4, <1>7, <2>1
  <2> QED
    BY <1>2, <2>2 DEF SkipInv
<1>8. CASE Execute
  BY <1>5, <1>8 DEF Execute
<1>9. CASE Moves
  BY <1>5, <1>6, <1>7, <1>9 DEF Moves, Marks, SkipNothing
<1> QED
  BY <1>1, <1>8, <1>9, StepMoves

LEMMA SkipAlways == ExecutorSpec => []SkipInv
<1>1. ExecutorInit => SkipInv
  BY LayoutStart DEF ExecutorInit, SkipInv, Least, Closed
<1>2. SkipInv /\ UNCHANGED graphVars => SkipInv'
  <2> SUFFICES ASSUME SkipInv, UNCHANGED graphVars PROVE SkipInv'
    OBVIOUS
  <2>1. Layout'
    BY LayoutStutter DEF SkipInv
  <2>2. Least(skipped, dropped)'
    BY DEF SkipInv, graphVars, nodeVars, Least, Closed, Feeders, Node
  <2> QED
    BY <2>1, <2>2 DEF SkipInv
<1>3. SkipInv /\ [ExecutorNext]_graphVars => SkipInv'
  BY <1>2, SkipStep
<1> QED
  BY <1>1, <1>3, PTL DEF ExecutorSpec

(* Skipped are the targets of the ports not taken and what they alone feed, *)
(* however many nodes decided, in which order and how often (SkipExact).    *)
THEOREM Skipped == ExecutorSpec => []SkipExact
<1>1. SkipInv => SkipExact
  BY DEF SkipInv, Least, Closed, SkipExact
<1> QED
  BY <1>1, SkipAlways, PTL
-----------------------------------------------------------------------------
(* Types.                                                                  *)
Ops == {"human_gate", "plan", "loop", "revising", "rerun", "fan_out", "retry",
        "recheck", "checking"}

Frames == [op : Ops, node : Node, round : Nat, queue : Seq(Node),
           seen : SUBSET (Node \cup Nat), llm : Node, row : Nat]

Rows == [node : Node, role : {"node", "revision", "recheck", "item"},
         status : RowStatus, text : Text \cup {NoText}, route : 1 .. 2]

(* The node that a call is for, and the rows that it knows.                *)
FrameOK(f) ==
  /\ f.op = "human_gate" => Type(f.node) = "human_gate"
  /\ f.op = "plan" => Type(f.node) = "plan_applier"
  /\ f.op = "fan_out" => Type(f.node) = "fan_out" /\ f.seen \subseteq DOMAIN rows
  /\ f.op = "loop" => Type(f.node) = "loop"
  /\ f.op \in {"retry", "recheck", "checking"} => Type(f.node) = "checker"
  /\ f.op = "revising" => Type(f.node) \in {"loop", "checker"}
  /\ f.op \in {"revising", "checking"} => f.row \in DOMAIN rows

(* The agents of the wave that this executor has to start.                 *)
New == (batch \cap LLM) \ restored

NodesTyped ==
  /\ level \in [Node -> 0 .. Cardinality(Node)]
  /\ DOMAIN results \subseteq Node
  /\ \A n \in DOMAIN results : results[n] \in Text
  /\ skipped \cup dropped \cup batch \cup todo \cup restored \subseteq Node
  /\ wave \in Nat \ {0}

RowsTyped ==
  /\ rows \in Seq(Rows)
  /\ task \in [Node -> 0 .. Len(rows)]
  /\ wait \cup lost \subseteq DOMAIN rows
  /\ stray \in Nat /\ (stray > 0 => \E n \in Node : Type(n) = "fan_out")

Stack(s) == s \in Seq(Frames) /\ \A i \in DOMAIN s : FrameOK(s[i])

Tasked ==
  /\ pc = "starting" => failed \/ \A n \in New \ todo : task[n] # 0
  /\ pc = "waiting" => \A n \in New : task[n] # 0
  /\ pc = "retrying" => \A n \in todo : Type(n) = "checker"
  /\ phase \in {"none", "open", "failed", "complete"}
  /\ stack # <<>> => pc \in {"instants", "retrying"}

Typed == Layout /\ NodesTyped /\ RowsTyped /\ Stack(stack) /\ Tasked
-----------------------------------------------------------------------------
(* Stacks.                                                                 *)
LEMMA Pushed ==
  ASSUME NEW S, NEW s \in Seq(S), NEW f \in S
  PROVE  /\ <<f>> \o s \in Seq(S) /\ <<f>> \o s # <<>>
         /\ Head(<<f>> \o s) = f /\ Tail(<<f>> \o s) = s
         /\ Len(<<f>> \o s) = Len(s) + 1
         /\ \A i \in DOMAIN (<<f>> \o s) :
               (<<f>> \o s)[i] = f \/ \E j \in DOMAIN s : (<<f>> \o s)[i] = s[j]
         /\ Last(<<f>> \o s) = IF s = <<>> THEN f ELSE Last(s)
<1> DEFINE q == <<f>> \o s
<1>1. q \in Seq(S) /\ Len(q) = Len(s) + 1 /\ DOMAIN q = 1 .. Len(s) + 1
  OBVIOUS
<1>2. \A i \in 1 .. Len(s) + 1 : q[i] = IF i = 1 THEN f ELSE s[i - 1]
  OBVIOUS
<1>3. Len(s) \in Nat /\ (s = <<>> <=> Len(s) = 0) /\ DOMAIN s = 1 .. Len(s)
  OBVIOUS
<1>4. Tail(q) = s
  OBVIOUS
<1>5. Head(q) = f /\ q # <<>>
  OBVIOUS
<1> HIDE DEF q
<1>6. Last(q) = IF s = <<>> THEN f ELSE Last(s)
  BY <1>1, <1>2, <1>3 DEF Last
<1>7. \A i \in DOMAIN q : q[i] = f \/ \E j \in DOMAIN s : q[i] = s[j]
  <2> SUFFICES ASSUME NEW i \in 1 .. Len(s) + 1, i # 1
               PROVE  \E j \in DOMAIN s : q[i] = s[j]
    BY <1>1, <1>2
  <2>1. i - 1 \in DOMAIN s /\ q[i] = s[i - 1]
    BY <1>2, <1>3
  <2> QED
    BY <2>1
<1> QED
  BY <1>1, <1>4, <1>5, <1>6, <1>7 DEF q

LEMMA Popped ==
  ASSUME NEW S, NEW s \in Seq(S), s # <<>>
  PROVE  /\ Head(s) \in S /\ Tail(s) \in Seq(S) /\ s = <<Head(s)>> \o Tail(s)
         /\ Head(s) = s[1] /\ 1 \in DOMAIN s
         /\ \A i \in DOMAIN Tail(s) : i + 1 \in DOMAIN s /\ Tail(s)[i] = s[i + 1]
OBVIOUS

LEMMA StackPops ==
  ASSUME NEW s, Stack(s), s # <<>>
  PROVE  /\ Stack(Tail(s)) /\ Head(s) \in Frames /\ FrameOK(Head(s))
         /\ s = <<Head(s)>> \o Tail(s) /\ Tail(s) \in Seq(Frames)
  BY Popped DEF Stack

(* Two calls on top of a stack.                                            *)
LEMMA TwoPushed ==
  ASSUME NEW S, NEW s \in Seq(S), NEW f \in S, NEW g \in S
  PROVE  <<f, g>> \o s = <<f>> \o (<<g>> \o s)
<1>1. \A a, b, c \in Seq(S) : (a \o b) \o c = a \o (b \o c)
  BY ConcatAssociative
<1>2. <<f>> \in Seq(S) /\ <<g>> \in Seq(S) /\ <<f, g>> = <<f>> \o <<g>>
  <2>1. <<f>> \in Seq(S) /\ <<g>> \in Seq(S) /\ <<f, g>> \in Seq(S)
    OBVIOUS
  <2>2. <<f, g>> = Append(<<f>>, g)
    OBVIOUS
  <2>3. Append(<<f>>, g) = <<f>> \o <<g>>
    BY <2>1, AppendIsConcat
  <2> QED
    BY <2>1, <2>2, <2>3
<1> DEFINE a == <<f>>  b == <<g>>  c == <<f, g>>
<1>3. a \in Seq(S) /\ b \in Seq(S) /\ c = a \o b
  BY <1>2
<1> HIDE DEF a, b, c
<1>4. c \o s = a \o (b \o s)
  BY <1>1, <1>3
<1> QED
  BY <1>4 DEF a, b, c

LEMMA FramesKept ==
  ASSUME UNCHANGED graph, DOMAIN rows \subseteq DOMAIN rows'
  PROVE  /\ Node' = Node /\ Frames' = Frames /\ LLM' = LLM /\ Instant' = Instant
         /\ \A n : Type(n)' = Type(n)
         /\ \A f : FrameOK(f) => FrameOK(f)'
         /\ \A s : Stack(s) => Stack(s)'
<1>1. Node' = Node /\ \A n : Type(n)' = Type(n)
  BY DEF Node, Type
<1>2. Frames' = Frames
  BY <1>1 DEF Frames
<1>3. LLM' = LLM /\ Instant' = Instant
  BY <1>1 DEF LLM, Instant
<1>4. ASSUME NEW f, FrameOK(f) PROVE FrameOK(f)'
  BY <1>1, <1>4 DEF FrameOK
<1>5. ASSUME NEW s, Stack(s) PROVE Stack(s)'
  BY <1>2, <1>4, <1>5 DEF Stack
<1> QED
  BY <1>1, <1>2, <1>3, <1>4, <1>5
-----------------------------------------------------------------------------
(* What becomes of the rows.                                               *)
Roles == {"node", "revision", "recheck", "item"}

Ended == {"completed", "failed", "cancelled", "pending"}

RowAdded(n, role) ==
  /\ n \in Node /\ role \in Roles
  /\ rows' = Append(rows, NewRow(n, role))

RowTurned(t) ==
  \E r \in Rows : /\ r.node = rows[t].node /\ r.role = rows[t].role
                  /\ rows[t].status \notin Ended
                  /\ rows' = [rows EXCEPT ![t] = r]

RowsCrash ==
  rows' = [t \in DOMAIN rows |->
             IF Active(t) \/ rows[t].status = "awaiting_input"
             THEN [rows[t] EXCEPT !.status = "failed", !.text = {"FAILED"}]
             ELSE rows[t]]

RowsMove ==
  \/ UNCHANGED rows
  \/ \E n, role : RowAdded(n, role)
  \/ \E t \in DOMAIN rows : RowTurned(t)
  \/ RowsCrash

LEMMA Nearest == ASSUME NEW n, NEW l \in NearestLLM(n) PROVE l \in Node /\ l \in LLM
BY DEF NearestLLM, LLM

LEMMA RevisionRows ==
  ASSUME NEW n, NEW l \in NearestLLM(n), StartRevision(l)
  PROVE  UNCHANGED rows \/ RowAdded(l, "revision")
BY Nearest DEF StartRevision, StartTask, RowAdded, Roles

LEMMA CallerTyped ==
  ASSUME Typed, stack # <<>>
  PROVE  /\ Caller \in Frames /\ Caller.node \in Node /\ Caller.llm \in Node
         /\ FrameOK(Caller) /\ Stack(Tail(stack)) /\ stack = <<Caller>> \o Tail(stack)
         /\ pc \in {"instants", "retrying"}
<1>1. Stack(stack) /\ pc \in {"instants", "retrying"}
  BY DEF Typed, Tasked
<1>2. Caller \in Frames /\ FrameOK(Caller) /\ Stack(Tail(stack)) /\ stack = <<Caller>> \o Tail(stack)
  BY <1>1, StackPops DEF Caller
<1> QED
  BY <1>1, <1>2 DEF Frames

LEMMA RowTurns ==
  ASSUME Typed, NEW t \in DOMAIN rows,
         \/ RowEnds(t) \/ RowFails(t) \/ RowRequeued(t) \/ RowStopped(t)
         \/ RowContinued(t)
  PROVE  RowTurned(t)
<1>1. rows \in Seq(Rows) /\ rows[t] \in Rows
  BY DEF Typed, RowsTyped
<1>2. \A r \in Rows : r.text \in Text \cup {NoText}
  BY DEF Rows
<1>3. {} \in Text /\ {"issue"} \in Text /\ {"FAILED"} \in Text
  BY DEF Text
<1>4. ASSUME NEW status \in RowStatus, NEW text \in Text \cup {NoText}
      PROVE  [rows[t] EXCEPT !.status = status, !.text = text] \in Rows
  BY <1>1, <1>4 DEF Rows
<1>5. ASSUME NEW status \in RowStatus, NEW text \in Text \cup {NoText}, NEW event,
             Turned(t, status, text, event), rows[t].status \notin Ended
      PROVE  RowTurned(t)
  <2> DEFINE r == [rows[t] EXCEPT !.status = status, !.text = text]
  <2>1. r \in Rows /\ r.node = rows[t].node /\ r.role = rows[t].role
    BY <1>1, <1>4 DEF Rows
  <2>2. rows' = [rows EXCEPT ![t] = r]
    BY <1>5 DEF Turned
  <2> HIDE DEF r
  <2> QED
    BY <1>5, <2>1, <2>2 DEF RowTurned
<1>6. CASE RowCompletes(t)
  <2>1. PICK text \in {{}, {"issue"}}, route \in 1 .. 2 :
          rows' = [rows EXCEPT ![t].status = "completed", ![t].text = text,
                               ![t].route = route]
    BY <1>6 DEF RowCompletes
  <2> DEFINE r == [rows[t] EXCEPT !.status = "completed", !.text = text, !.route = route]
  <2>2. r \in Rows /\ r.node = rows[t].node /\ r.role = rows[t].role
    BY <1>1, <1>3 DEF Rows, RowStatus
  <2>3. rows' = [rows EXCEPT ![t] = r]
    BY <2>1
  <2>4. rows[t].status \notin Ended
    BY <1>6 DEF RowCompletes, Ended
  <2> HIDE DEF r
  <2> QED
    BY <2>2, <2>3, <2>4 DEF RowTurned
<1>7. CASE TurnEnds(t)
  BY <1>3, <1>5, <1>7 DEF TurnEnds, Active, Ended, RowStatus
<1>8. CASE RowFails(t)
  BY <1>3, <1>5, <1>8 DEF RowFails, Active, Ended, RowStatus
<1>9. CASE RowRequeued(t)
  BY <1>3, <1>5, <1>9 DEF RowRequeued, Ended, RowStatus
<1>10. CASE RowStopped(t)
  BY <1>1, <1>2, <1>5, <1>10 DEF RowStopped, Active, Ended, RowStatus
<1>11. CASE RowContinued(t)
  <2> DEFINE r == [rows[t] EXCEPT !.status = "continuing"]
  <2>1. r \in Rows /\ r.node = rows[t].node /\ r.role = rows[t].role
    BY <1>1 DEF Rows, RowStatus
  <2>2. rows' = [rows EXCEPT ![t] = r] /\ rows[t].status \notin Ended
    BY <1>11 DEF RowContinued, Ended
  <2> HIDE DEF r
  <2> QED
    BY <2>1, <2>2 DEF RowTurned
<1> QED
  BY <1>6, <1>7, <1>8, <1>9, <1>10, <1>11 DEF RowEnds

LEMMA StepRows ==
  ASSUME Typed, ExecutorNext
  PROVE  RowsMove
<1>1. ASSUME NEW n \in Node, StartNode(n)
      PROVE  RowsMove
  BY <1>1 DEF StartNode, StartTask, RowsMove, RowAdded, Roles
<1>2. CASE LoopTurn \/ RetryTurn
  <2>1. UNCHANGED rows \/ \E n : \E l \in NearestLLM(n) : StartRevision(l)
    BY <1>2 DEF LoopTurn, RetryTurn
  <2> QED
    BY <2>1, RevisionRows DEF RowsMove
<1>3. CASE StartRecheck
  <2>1. Caller.node \in Node
    BY <1>3, CallerTyped DEF StartRecheck, Inside
  <2> QED
    BY <1>3, <2>1 DEF StartRecheck, StartTask, RowsMove, RowAdded, Roles
<1>4. CASE ItemStarts
  <2>1. Caller.node \in Node
    BY <1>4, CallerTyped DEF ItemStarts, Inside
  <2> QED
    BY <1>4, <2>1 DEF ItemStarts, StartTask, RowsMove, RowAdded, Roles
<1>5. CASE StrayStarts
  <2>1. \E n \in Node : Type(n) = "fan_out"
    BY <1>5 DEF StrayStarts, Typed, RowsTyped
  <2>2. (CHOOSE n \in Node : Type(n) = "fan_out") \in Node
    BY <2>1
  <2> QED
    BY <1>5, <2>2 DEF StrayStarts, StartTask, RowsMove, RowAdded, Roles
<1>6. CASE Crash
  BY <1>6 DEF Crash, RowsMove, RowsCrash
<1>7. ASSUME NEW t \in DOMAIN rows,
             \/ RowEnds(t) \/ RowFails(t) \/ RowRequeued(t) \/ RowStopped(t)
             \/ RowContinued(t)
      PROVE  RowsMove
  BY <1>7, RowTurns DEF RowsMove
<1>8. CASE \/ Execute \/ EnterWave \/ InstantsDone \/ NodesStarted \/ WaitWakes
           \/ WaveDone \/ RetriesDone \/ GateWakes \/ PlanWakes \/ RevisionDone
           \/ RerunNode \/ RerunDone \/ RecheckDone \/ ItemsDone
           \/ \E n \in Node : RunInstant(n) \/ RetryNode(n)
           \/ UserAnswers \/ UserCancels \/ FlowDies \/ ResumeFlow
  <2>1. UNCHANGED rows
    BY <1>8 DEF Execute, EnterWave, InstantsDone, NodesStarted, WaitWakes,
       WaveDone, RetriesDone, GateWakes, PlanWakes, RevisionDone, RerunNode,
       RerunDone, RecheckDone, ItemsDone, RunInstant, RetryNode, UserAnswers,
       UserCancels, FlowDies, ResumeFlow
  <2> QED
    BY <2>1 DEF RowsMove
<1> QED
  BY <1>1, <1>2, <1>3, <1>4, <1>5, <1>6, <1>7, <1>8 DEF ExecutorNext, ExecutorStep

(* Rows are never removed, a row stays with its node, and one that ended    *)
(* stays as it is.                                                         *)
LEMMA RowsKept ==
  ASSUME Typed, RowsMove, UNCHANGED graph
  PROVE  /\ rows' \in Seq(Rows) /\ Len(rows) <= Len(rows')
         /\ DOMAIN rows \subseteq DOMAIN rows'
         /\ \A t \in DOMAIN rows :
               /\ rows[t] \in Rows /\ rows'[t] \in Rows
               /\ rows'[t].node = rows[t].node /\ rows'[t].role = rows[t].role
               /\ rows[t].status \in Ended => rows'[t] = rows[t]
<1>1. /\ rows \in Seq(Rows) /\ Len(rows) \in Nat /\ DOMAIN rows = 1 .. Len(rows)
      /\ \A t \in DOMAIN rows : rows[t] \in Rows
  BY DEF Typed, RowsTyped
<1>2. CASE UNCHANGED rows
  BY <1>1, <1>2
<1>3. ASSUME NEW n, NEW role, RowAdded(n, role)
      PROVE  /\ rows' \in Seq(Rows) /\ Len(rows') = Len(rows) + 1
             /\ \A t \in DOMAIN rows : rows'[t] = rows[t]
  <2>1. NewRow(n, role) \in Rows
    BY <1>3 DEF RowAdded, NewRow, Rows, Roles, RowStatus
  <2> QED
    BY <1>1, <1>3, <2>1 DEF RowAdded
<1>4. ASSUME NEW n, NEW role, RowAdded(n, role)
      PROVE  DOMAIN rows \subseteq DOMAIN rows' /\ Len(rows) <= Len(rows')
  BY <1>1, <1>3, <1>4
<1>5. ASSUME NEW u \in DOMAIN rows, RowTurned(u)
      PROVE  /\ rows' \in Seq(Rows) /\ Len(rows') = Len(rows)
             /\ \A t \in DOMAIN rows :
                  /\ rows'[t].node = rows[t].node /\ rows'[t].role = rows[t].role
                  /\ rows[t].status \in Ended => rows'[t] = rows[t]
  <2>1. PICK r \in Rows : /\ r.node = rows[u].node /\ r.role = rows[u].role
                          /\ rows[u].status \notin Ended
                          /\ rows' = [rows EXCEPT ![u] = r]
    BY <1>5 DEF RowTurned
  <2>2. rows' \in Seq(Rows) /\ Len(rows') = Len(rows)
    BY <1>1, <2>1
  <2>3. \A t \in DOMAIN rows : rows'[t] = IF t = u THEN r ELSE rows[t]
    BY <1>1, <2>1
  <2> QED
    BY <1>1, <2>1, <2>2, <2>3
<1>6. ASSUME RowsCrash
      PROVE  /\ rows' \in Seq(Rows) /\ Len(rows') = Len(rows)
             /\ \A t \in DOMAIN rows :
                  /\ rows'[t].node = rows[t].node /\ rows'[t].role = rows[t].role
                  /\ rows[t].status \in Ended => rows'[t] = rows[t]
  <2>1. ASSUME NEW t \in DOMAIN rows
        PROVE  /\ rows'[t] \in Rows
               /\ rows'[t].node = rows[t].node /\ rows'[t].role = rows[t].role
               /\ rows[t].status \in Ended => rows'[t] = rows[t]
    <3>1. rows'[t] = IF Active(t) \/ rows[t].status = "awaiting_input"
                     THEN [rows[t] EXCEPT !.status = "failed", !.text = {"FAILED"}]
                     ELSE rows[t]
      BY <1>6 DEF RowsCrash
    <3>2. rows[t] \in Rows /\ {"FAILED"} \in Text
      BY <1>1 DEF Text
    <3> QED
      BY <3>1, <3>2 DEF Rows, RowStatus, Active, Ended
  <2>2. rows' = [t \in 1 .. Len(rows) |-> rows'[t]]
    BY <1>1, <1>6 DEF RowsCrash
  <2>3. rows' \in Seq(Rows) /\ Len(rows') = Len(rows)
    BY <1>1, <2>1, <2>2
  <2> QED
    BY <2>1, <2>3
<1>7. CASE \E n, role : RowAdded(n, role)
  BY <1>1, <1>3, <1>4, <1>7
<1>8. CASE \E t \in DOMAIN rows : RowTurned(t)
  BY <1>1, <1>5, <1>8
<1>9. CASE RowsCrash
  BY <1>1, <1>6, <1>9
<1> QED
  BY <1>2, <1>7, <1>8, <1>9 DEF RowsMove

LEMMA GraphStays ==
  ASSUME Typed, ExecutorNext
  PROVE  /\ UNCHANGED graph /\ RowsMove /\ Layout'
         /\ DOMAIN rows \subseteq DOMAIN rows' /\ Len(rows) <= Len(rows')
<1>1. Layout /\ graph \in Graphs /\ NoPhaseYet
  BY DEF Typed, Layout
<1>2. UNCHANGED graph /\ Layout'
  BY <1>1, StepMoves, LayoutStep DEF Execute, Moves
<1> QED
  BY <1>2, StepRows, RowsKept

LEMMA LastRowThere ==
  ASSUME Typed, NEW n
  PROVE  /\ LastRow(n) \in 0 .. Len(rows)
         /\ LastRow(n) # 0 => /\ LastRow(n) \in DOMAIN rows
                              /\ level[rows[LastRow(n)].node] = level[n]
                              /\ RowName(rows[LastRow(n)].node) = graph.name[n]
<1> DEFINE S == {0} \cup {t \in DOMAIN rows :
                            /\ rows[t].role = "node"
                            /\ level[rows[t].node] = level[n]
                            /\ RowName(rows[t].node) = graph.name[n]}
<1>1. DOMAIN rows = 1 .. Len(rows) /\ Len(rows) \in Nat
  BY DEF Typed, RowsTyped
<1>2. S \subseteq Nat /\ S # {} /\ S \subseteq 0 .. Len(rows) /\ \A k \in S : k <= Len(rows)
  BY <1>1
<1>3. LastRow(n) = Max(S)
  BY DEF LastRow
<1>7. \A t \in S : t # 0 => /\ level[rows[t].node] = level[n]
                            /\ RowName(rows[t].node) = graph.name[n]
  OBVIOUS
<1> HIDE DEF S
<1>4. PICK b \in Nat : \A k \in S : k <= b
  BY <1>1, <1>2
<1>5. Max(S) \in S /\ \A k \in S : k <= Max(S)
  <2>1. S \subseteq Nat /\ S # {}
    BY <1>2
  <2> QED
    BY <1>4, <2>1, GreatestNatural
<1>6. LastRow(n) \in 0 .. Len(rows)
  <2>1. Max(S) \in 0 .. Len(rows)
    BY <1>2, <1>5
  <2> QED
    BY <1>3, <2>1
<1>8. LastRow(n) \in S
  BY <1>3, <1>5
<1> HIDE DEF LastRow
<1> QED
  BY <1>1, <1>6, <1>7, <1>8

(* Where the tasks that are waited for come from.                          *)
LEMMA AddedRow ==
  ASSUME Typed, Len(rows) \in Nat, NEW n, NEW role,
         rows' = Append(rows, NewRow(n, role))
  PROVE  NewId \in DOMAIN rows' /\ NewId <= Len(rows') /\ NewId \in Nat \ {0}
BY DEF NewId, Typed, RowsTyped

LEMMA StepWaits ==
  ASSUME Typed, ExecutorNext
  PROVE  wait' \cup lost' \subseteq DOMAIN rows'
<1>1. /\ wait \cup lost \subseteq DOMAIN rows /\ DOMAIN rows \subseteq DOMAIN rows'
      /\ rows \in Seq(Rows) /\ Len(rows) \in Nat /\ DOMAIN rows = 1 .. Len(rows)
  BY GraphStays DEF Typed, RowsTyped
<1>2. ASSUME NEW l, StartRevision(l)
      PROVE  wait' \cup lost' \subseteq DOMAIN rows'
  BY <1>1, <1>2, AddedRow DEF StartRevision, StartTask, WaitFor, waitVars
<1>3. CASE LoopTurn \/ RetryTurn
  <2>1. UNCHANGED waitVars \/ \E l : StartRevision(l)
    BY <1>3 DEF LoopTurn, RetryTurn
  <2> QED
    BY <1>1, <1>2, <2>1 DEF waitVars
<1>4. CASE StartRecheck
  BY <1>1, <1>4, AddedRow DEF StartRecheck, StartTask, WaitFor, waitVars
<1>5. CASE ItemStarts
  BY <1>1, <1>5, AddedRow DEF ItemStarts, StartTask, waitVars
<1>6. CASE NodesStarted
  <2>1. CASE failed
    BY <1>1, <1>6, <2>1 DEF NodesStarted, waitVars
  <2>2. CASE ~ failed
    <3>1. wait' = {task[n] : n \in New} /\ lost' = {}
      BY <1>6, <2>2 DEF NodesStarted, WaitFor, New
    <3>2. \A n \in New : task[n] # 0
      BY <1>6, <2>2 DEF NodesStarted, Typed, Tasked
    <3>3. \A n \in New : n \in Node /\ task[n] \in 0 .. Len(rows)
      BY DEF Typed, RowsTyped, New, LLM
    <3> QED
      BY <1>1, <3>1, <3>2, <3>3
  <2> QED
    BY <2>1, <2>2
<1>7. CASE WaitWakes
  <2>1. wait' \subseteq wait /\ lost' \subseteq lost \cup wait
    BY <1>7 DEF WaitWakes
  <2> QED
    BY <1>1, <2>1
<1>8. CASE Crash \/ FlowDies
  BY <1>1, <1>8 DEF Crash, FlowDies, Gone
<1>9. CASE ResumeFlow
  BY <1>9 DEF ResumeFlow, WaitFor
<1>10. ASSUME NEW n, NEW rest, ExecuteInstantNode(n, rest)
       PROVE  UNCHANGED waitVars \/ WaitFor({})
  BY <1>10 DEF ExecuteInstantNode, ExecuteFanOut
<1>11. CASE RerunNode \/ \E n \in Node : RunInstant(n)
  <2>1. UNCHANGED waitVars \/ WaitFor({})
    BY <1>10, <1>11 DEF RerunNode, RunInstant
  <2> QED
    BY <1>1, <2>1 DEF waitVars, WaitFor
<1>12. ASSUME NEW t \in DOMAIN rows,
              \/ RowEnds(t) \/ RowFails(t) \/ RowRequeued(t) \/ RowStopped(t)
              \/ RowContinued(t)
       PROVE  UNCHANGED <<wait, lost>>
  BY <1>12 DEF RowEnds, RowCompletes, TurnEnds, RowFails, RowRequeued,
     RowStopped, RowContinued, Turned, waitVars
<1>13. CASE \/ Execute \/ EnterWave \/ InstantsDone \/ WaveDone \/ RetriesDone
            \/ GateWakes \/ PlanWakes \/ RevisionDone \/ RerunDone \/ RecheckDone
            \/ ItemsDone \/ StrayStarts \/ UserAnswers \/ UserCancels
            \/ \E n \in Node : StartNode(n) \/ RetryNode(n)
  <2>1. UNCHANGED <<wait, lost>>
    BY <1>13 DEF Execute, EnterWave, InstantsDone, WaveDone, RetriesDone,
       GateWakes, PlanWakes, RevisionDone, RerunDone, RecheckDone, ItemsDone,
       StrayStarts, UserAnswers, UserCancels, StartNode, RetryNode, waitVars, callVars
  <2> QED
    BY <1>1, <2>1
<1> QED
  BY <1>1, <1>3, <1>4, <1>5, <1>6, <1>7, <1>8, <1>9, <1>11, <1>12, <1>13
     DEF ExecutorNext, ExecutorStep

LEMMA StepTasks ==
  ASSUME Typed, ExecutorNext
  PROVE  /\ task' \in [Node -> 0 .. Len(rows')]
         /\ \/ UNCHANGED task
            \/ \E n \in Node : StartNode(n) /\ task' = [task EXCEPT ![n] = NewId]
            \/ ResumeFlow
<1>1. /\ task \in [Node -> 0 .. Len(rows)] /\ Len(rows) <= Len(rows')
      /\ rows \in Seq(Rows) /\ Len(rows) \in Nat /\ Len(rows') \in Nat
  <2>1. Len(rows') \in Nat
    BY StepRows, GraphStays, RowsKept
  <2> QED
    BY <2>1, GraphStays DEF Typed, RowsTyped
<1>2. ASSUME NEW n \in Node, StartNode(n)
      PROVE  \/ UNCHANGED task
             \/ /\ task' = [task EXCEPT ![n] = NewId]
                /\ task' \in [Node -> 0 .. Len(rows')]
  <2>1. CASE StartTask(n, "node") /\ task' = [task EXCEPT ![n] = NewId]
    <3>1. NewId <= Len(rows') /\ NewId \in Nat
      BY <1>1, <2>1, AddedRow DEF StartTask
    <3> QED
      BY <1>1, <2>1, <3>1
  <2> QED
    BY <1>2, <2>1 DEF StartNode
<1>3. CASE ResumeFlow
  <2>1. /\ task' = [n \in Node |-> IF n \in Restorable THEN LastRow(n) ELSE 0]
        /\ rows' = rows
    BY <1>3 DEF ResumeFlow
  <2>2. \A n \in Node : LastRow(n) \in 0 .. Len(rows)
    BY LastRowThere
  <2> QED
    BY <1>1, <1>3, <2>1, <2>2
<1>4. ASSUME NEW t \in DOMAIN rows,
             \/ RowEnds(t) \/ RowFails(t) \/ RowRequeued(t) \/ RowStopped(t)
             \/ RowContinued(t)
       PROVE  UNCHANGED task
  BY <1>4 DEF RowEnds, RowCompletes, TurnEnds, RowFails, RowRequeued,
     RowStopped, RowContinued, Turned, nodeVars
<1>5. ASSUME \/ Execute \/ EnterWave \/ InstantsDone \/ NodesStarted \/ WaitWakes
             \/ WaveDone \/ RetriesDone \/ UserAnswers \/ UserCancels \/ Crash
             \/ FlowDies \/ \E n \in Node : RunInstant(n) \/ RetryNode(n)
      PROVE  UNCHANGED task
  BY <1>5 DEF Execute, EnterWave, InstantsDone, NodesStarted, WaitWakes,
     WaveDone, RetriesDone, UserAnswers, UserCancels, Crash, FlowDies, Gone,
     RunInstant, RetryNode, nodeVars
<1>7. ASSUME \/ GateWakes \/ PlanWakes \/ LoopTurn \/ RetryTurn \/ RevisionDone
             \/ RerunNode \/ RerunDone \/ StartRecheck \/ RecheckDone
             \/ ItemStarts \/ StrayStarts \/ ItemsDone
      PROVE  UNCHANGED task
  BY <1>7 DEF GateWakes, PlanWakes, LoopTurn, RetryTurn, RevisionDone,
     RerunNode, RerunDone, StartRecheck, RecheckDone, ItemStarts, StrayStarts,
     ItemsDone, nodeVars
<1>6. UNCHANGED task => task' \in [Node -> 0 .. Len(rows')]
  BY <1>1
<1> QED
  BY <1>2, <1>3, <1>4, <1>5, <1>6, <1>7 DEF ExecutorNext, ExecutorStep

LEMMA StepStray ==
  ASSUME Typed, ExecutorNext
  PROVE  stray' \in Nat /\ (stray' > 0 => \E n \in Node : Type(n) = "fan_out")
<1>1. stray \in Nat /\ (stray > 0 => \E n \in Node : Type(n) = "fan_out")
  BY DEF Typed, RowsTyped
<1>2. CASE ItemStarts
  <2>1. Caller.round \in Nat /\ Type(Caller.node) = "fan_out" /\ Caller.node \in Node
    BY <1>2, CallerTyped DEF ItemStarts, Inside, FrameOK, Frames, Caller
  <2>2. \/ UNCHANGED stray
        \/ Caller.round > 0 /\ stray' = [Caller EXCEPT !.round = @ - 1].round
    BY <1>2 DEF ItemStarts, flowVars
  <2>3. Caller \in Frames
    BY <1>2, CallerTyped DEF ItemStarts, Inside
  <2>4. [Caller EXCEPT !.round = @ - 1].round = Caller.round - 1
    BY <2>3 DEF Frames
  <2> QED
    BY <1>1, <2>1, <2>2, <2>4
<1>3. CASE StrayStarts
  <2>1. stray > 0 /\ stray' = stray - 1
    BY <1>3 DEF StrayStarts
  <2> QED
    BY <1>1, <2>1
<1>4. CASE Crash \/ FlowDies
  <2>1. stray' = 0
    BY <1>4 DEF Crash, FlowDies, Gone
  <2> QED
    BY <2>1
<1>5. ASSUME NEW t \in DOMAIN rows,
             \/ RowEnds(t) \/ RowFails(t) \/ RowRequeued(t) \/ RowStopped(t)
             \/ RowContinued(t)
       PROVE  UNCHANGED stray
  BY <1>5 DEF RowEnds, RowCompletes, TurnEnds, RowFails, RowRequeued,
     RowStopped, RowContinued, Turned, flowVars
<1>6. CASE \/ Execute \/ EnterWave \/ InstantsDone \/ NodesStarted \/ WaitWakes
           \/ WaveDone \/ RetriesDone \/ GateWakes \/ PlanWakes \/ LoopTurn
           \/ RetryTurn \/ RevisionDone \/ RerunNode \/ RerunDone \/ StartRecheck
           \/ RecheckDone \/ ItemsDone
           \/ \E n \in Node : RunInstant(n) \/ StartNode(n) \/ RetryNode(n)
           \/ UserAnswers \/ UserCancels \/ ResumeFlow
  <2>1. UNCHANGED stray
    BY <1>6 DEF Execute, EnterWave, InstantsDone, NodesStarted, WaitWakes,
     WaveDone, RetriesDone, GateWakes, PlanWakes, LoopTurn, RetryTurn,
     RevisionDone, RerunNode, RerunDone, StartRecheck, RecheckDone,
     ItemsDone, RunInstant, StartNode, RetryNode, UserAnswers, UserCancels,
     ResumeFlow, flowVars
  <2> QED
    BY <1>1, <2>1
<1> QED
  BY <1>1, <1>2, <1>3, <1>4, <1>5, <1>6 DEF ExecutorNext, ExecutorStep

LEMMA StepRowsTyped ==
  ASSUME Typed, ExecutorNext
  PROVE  RowsTyped'
<1>1. UNCHANGED graph
  BY GraphStays
<1>2. Node' = Node /\ Rows' = Rows /\ \A n : Type(n)' = Type(n)
  BY <1>1 DEF Node, Rows, Type
<1>3. rows' \in Seq(Rows)
  BY GraphStays, RowsKept
<1> QED
  BY <1>2, <1>3, StepWaits, StepTasks, StepStray DEF RowsTyped
-----------------------------------------------------------------------------
(* What the execution of an instant node may do.                           *)
MarksBelow(n) ==
  SkipNothing \/ \E roots \in SUBSET Targets(n) : MarkSkipped(roots)

InstantDone(n, rest) ==
  /\ \/ \E text \in Text : results' = Store(results, n, text)
     \/ Type(n) = "unknown" /\ UNCHANGED results
  /\ stack' = rest
  /\ UNCHANGED <<failed, waitVars>>
  /\ MarksBelow(n)

InstantRaises ==
  /\ Raises
  /\ UNCHANGED <<results, waitVars>>
  /\ SkipNothing

InstantWaits(n, rest) ==
  /\ \E f \in Frames :
        /\ f.op \in {"human_gate", "plan", "loop", "fan_out"} /\ f.node = n
        /\ FrameOK(f)
        /\ stack' = <<f>> \o rest
  /\ UNCHANGED <<results, failed>>
  /\ UNCHANGED waitVars \/ WaitFor({})
  /\ SkipNothing

LEMMA TextsTyped ==
  ASSUME NodesTyped, NEW n
  PROVE  Upstream(n) \in Text /\ {} \in Text /\ \A text \in Text : text # NoText
BY DEF NodesTyped, Upstream, Text, NoText

LEMMA FrameTyped ==
  ASSUME Typed, NEW n \in Node, NEW op \in Ops
  PROVE  /\ Frame(op, n) \in Frames /\ Frame(op, n).op = op
         /\ Frame(op, n).node = n /\ Frame(op, n).seen = {}
BY DEF Frame, Frames

LEMMA InstantEffects ==
  ASSUME Typed, NEW n \in Node, NEW rest, ExecuteInstantNode(n, rest)
  PROVE  \/ InstantDone(n, rest) \/ InstantRaises \/ InstantWaits(n, rest)
<1>1. NodesTyped /\ graph \in Graphs /\ Upstream(n) \in Text /\ {} \in Text
  BY TextsTyped DEF Typed, Layout
<1>2. CASE ExecuteFanOut(n, rest)
  <2>1. PICK items \in 0 .. MaxItem :
           IF items = 0
           THEN Keep(n, {}, rest) /\ UNCHANGED waitVars
           ELSE /\ stack' = <<[Frame("fan_out", n) EXCEPT !.round = items]>> \o rest
                /\ WaitFor({})
                /\ UNCHANGED <<results, failed, bell, applied, happened>>
    BY <1>2 DEF ExecuteFanOut
  <2>2. CASE items = 0
    BY <1>1, <1>2, <2>1, <2>2 DEF ExecuteFanOut, Keep, InstantDone, MarksBelow
  <2>3. CASE items # 0
    <3> DEFINE f == [Frame("fan_out", n) EXCEPT !.round = items]
    <3>1. Type(n) = "fan_out"
      BY <1>2 DEF ExecuteFanOut
    <3>2. /\ f \in Frames /\ f.op = "fan_out" /\ f.node = n /\ f.seen = {}
      <4>1. items \in Nat
        BY GraphAssumption
      <4>2. /\ Frame("fan_out", n) \in Frames /\ Frame("fan_out", n).op = "fan_out"
            /\ Frame("fan_out", n).node = n /\ Frame("fan_out", n).seen = {}
        BY FrameTyped DEF Ops
      <4> QED
        BY <4>1, <4>2 DEF Frames
    <3> HIDE DEF f
    <3>3. FrameOK(f)
      BY <3>1, <3>2 DEF FrameOK
    <3>4. stack' = <<f>> \o rest
      BY <2>1, <2>3 DEF f
    <3> QED
      BY <1>2, <2>1, <2>3, <3>2, <3>3, <3>4 DEF ExecuteFanOut, InstantWaits
  <2> QED
    BY <2>2, <2>3
<1>3. CASE ExecuteText(n, rest) /\ UNCHANGED waitVars
  <2>1. PICK text \in TextOf(n) : Keep(n, text, rest)
    BY <1>3 DEF ExecuteText
  <2>2. text \in Text
    BY <1>1, <1>3, <2>1 DEF ExecuteText, TextOf, Text
  <2> QED
    BY <1>3, <2>1, <2>2 DEF ExecuteText, Keep, InstantDone, MarksBelow
<1>4. CASE ExecuteRaises(n) /\ UNCHANGED waitVars
  BY <1>4 DEF ExecuteRaises, InstantRaises
<1>5. CASE ExecuteConditional(n, rest) /\ UNCHANGED waitVars
  <2>1. PICK taken : MarkSkipped(Port(n, 3 - taken) \ Port(n, taken))
    BY <1>5 DEF ExecuteConditional
  <2>2. Port(n, 3 - taken) \ Port(n, taken) \in SUBSET Targets(n)
    BY <1>1, Neighbours
  <2> QED
    BY <1>1, <1>5, <2>1, <2>2 DEF ExecuteConditional, Keep, InstantDone, MarksBelow
<1>6. CASE ExecuteGenerator(n, rest) /\ UNCHANGED waitVars
  BY <1>1, <1>6 DEF ExecuteGenerator, Keep, InstantDone, MarksBelow
<1>7. CASE ExecutePlanApplier(n, rest) /\ UNCHANGED waitVars
  <2>1. CASE resumed
    BY <1>1, <1>7, <2>1 DEF ExecutePlanApplier, Apply, InstantDone, MarksBelow
  <2>2. CASE ~ resumed
    <3> DEFINE f == Frame("plan", n)
    <3>1. f \in Frames /\ f.op = "plan" /\ f.node = n
      BY FrameTyped DEF Ops
    <3>2. Type(n) = "plan_applier" /\ stack' = <<f>> \o rest
      BY <1>7, <2>2 DEF ExecutePlanApplier
    <3> HIDE DEF f
    <3>3. FrameOK(f)
      BY <3>1, <3>2 DEF FrameOK
    <3> QED
      BY <1>7, <2>2, <3>1, <3>2, <3>3 DEF ExecutePlanApplier, InstantWaits
  <2> QED
    BY <2>1, <2>2
<1>8. CASE ExecuteWaiting(n, rest) /\ UNCHANGED waitVars
  <2> DEFINE f == Frame(Type(n), n)
  <2>1. Type(n) \in {"human_gate", "loop"} /\ stack' = <<f>> \o rest
    BY <1>8 DEF ExecuteWaiting
  <2>2. f \in Frames /\ f.op = Type(n) /\ f.node = n
    BY <2>1, FrameTyped DEF Ops
  <2> HIDE DEF f
  <2>3. FrameOK(f)
    BY <2>1, <2>2 DEF FrameOK
  <2> QED
    BY <1>8, <2>1, <2>2, <2>3 DEF ExecuteWaiting, InstantWaits
<1>9. CASE ExecuteUnknown(n, rest) /\ UNCHANGED waitVars
  BY <1>9 DEF ExecuteUnknown, InstantDone, MarksBelow
<1> QED
  BY <1>2, <1>3, <1>4, <1>5, <1>6, <1>7, <1>8, <1>9 DEF ExecuteInstantNode
-----------------------------------------------------------------------------
(* A revision starts its task for the caller, or raises.                   *)
LEMMA RevisionStack ==
  ASSUME Typed, stack # <<>>, NEW l \in Node, Type(Caller.node) \in {"loop", "checker"},
         StartRevision(l), UNCHANGED graph
  PROVE  \/ stack' = <<>>
         \/ \E f \in Frames :
              /\ f.op = "revising" /\ f.node = Caller.node /\ FrameOK(f)'
              /\ stack' = <<f>> \o Tail(stack)
<1>1. CASE Raises
  BY <1>1 DEF Raises
<1>2. CASE /\ StartTask(l, "revision")
           /\ Replace(<<[Caller EXCEPT !.op = "revising", !.llm = l, !.row = NewId]>>)
  <2>1. PICK id \in DOMAIN rows' : id = NewId /\ id \in Nat
    BY <1>2, AddedRow DEF StartTask, Typed, RowsTyped
  <2>2. PICK f : f = [Caller EXCEPT !.op = "revising", !.llm = l, !.row = id]
    OBVIOUS
  <2>3. f \in Frames /\ f.op = "revising" /\ f.node = Caller.node /\ f.row = id
    BY <2>1, <2>2, CallerTyped DEF Frames, Ops
  <2>4. stack' = <<f>> \o Tail(stack)
    BY <1>2, <2>1, <2>2 DEF Replace
  <2>5. Type(f.node)' \in {"loop", "checker"}
    BY <2>3 DEF Type
  <2>6. FrameOK(f)'
    BY <2>1, <2>3, <2>5 DEF FrameOK
  <2> QED
    BY <2>3, <2>4, <2>6
<1> QED
  BY <1>1, <1>2 DEF StartRevision

(* How a call ends, changes or calls.                                      *)
CallMove ==
  \/ Raises
  \/ /\ stack' = Tail(stack) /\ UNCHANGED failed
     /\ Caller.op \in {"rerun", "retry"} \/ Caller.node \in DOMAIN results'
  \/ \E f \in Frames :
       /\ FrameOK(f)' /\ f.node = Caller.node
       /\ f.op = "rerun" => Caller.op = "rerun"
       /\ stack' = <<f>> \o Tail(stack) /\ UNCHANGED failed
  \/ \E f, g \in Frames :
       /\ FrameOK(f)' /\ FrameOK(g)'
       /\ f.node \in {Caller.node} \cup redone' /\ g.node = Caller.node
       /\ g.op = "rerun" => Caller.op = "rerun"
       /\ stack' = <<f>> \o (<<g>> \o Tail(stack)) /\ UNCHANGED failed

LEMMA StoreKeeps ==
  ASSUME NEW n, NEW text, results' = Store(results, n, text)
  PROVE  /\ DOMAIN results \subseteq DOMAIN results'
         /\ DOMAIN results' \subseteq DOMAIN results \cup {n}
         /\ text # NoText => n \in DOMAIN results'
         /\ \A m \in DOMAIN results' :
               results'[m] = text \/ (m \in DOMAIN results /\ results'[m] = results[m])
BY DEF Store

LEMMA Queued ==
  ASSUME graph \in Graphs, NEW S, S \subseteq Node, NEW q \in SetToSeqs(S)
  PROVE  q \in Seq(Node)
<1>1. IsFiniteSet(S) /\ Cardinality(S) \in Nat
  BY Wired, FS_Subset, FS_CardinalityType
<1>2. q \in [1 .. Cardinality(S) -> S]
  BY DEF SetToSeqs
<1>3. q \in Seq(S)
  BY <1>1, <1>2
<1> QED
  BY <1>3

LEMMA RevisionMove ==
  ASSUME Typed, ExecutorNext, stack # <<>>, NEW n, NEW l \in NearestLLM(n),
         Caller.op \in {"loop", "retry"}, StartRevision(l)
  PROVE  CallMove
<1>1. Type(Caller.node) \in {"loop", "checker"} /\ Caller \in Frames
  BY CallerTyped DEF FrameOK
<1>2. CASE Raises
  BY <1>2 DEF CallMove
<1>3. CASE StartTask(l, "revision") /\ ~ Raises
  <2>1. UNCHANGED graph /\ l \in Node
    BY GraphStays, Nearest
  <2>2. UNCHANGED failed /\ stack' # <<>>
    <3>1. UNCHANGED failed /\ stack' = <<[Caller EXCEPT !.op = "revising", !.llm = l, !.row = NewId]>> \o Tail(stack)
      BY <1>3 DEF StartRevision, Replace
    <3>2. \A f, s : s \in Seq(Frames) /\ f \in Frames => <<f>> \o s # <<>>
      BY Pushed
    <3>3. Tail(stack) \in Seq(Frames)
      BY CallerTyped DEF Stack
    <3>4. [Caller EXCEPT !.op = "revising", !.llm = l, !.row = NewId] \in Frames
      <4>1. NewId \in Nat
        BY DEF NewId, Typed, RowsTyped
      <4> QED
        BY <1>1, <2>1, <4>1 DEF Frames, Ops
    <3> QED
      BY <3>1, <3>2, <3>3, <3>4
  <2>3. \E f \in Frames :
              /\ f.op = "revising" /\ f.node = Caller.node /\ FrameOK(f)'
              /\ stack' = <<f>> \o Tail(stack)
    BY <1>1, <2>1, <2>2, RevisionStack
  <2> QED
    BY <2>2, <2>3 DEF CallMove
<1> QED
  BY <1>2, <1>3 DEF StartRevision

LEMMA ReturnMove ==
  ASSUME Typed, stack # <<>>, stack' = Tail(stack), UNCHANGED failed,
         \/ Caller.op \in {"rerun", "retry"}
         \/ \E text \in Text : results' = Store(results, Caller.node, text)
  PROVE  CallMove
<1>1. NodesTyped
  BY DEF Typed
<1> QED
  BY <1>1, TextsTyped, StoreKeeps DEF CallMove

(* A call that goes on. *)
LEMMA SwapMove ==
  ASSUME stack # <<>>, NEW f \in Frames, FrameOK(f)', f.node = Caller.node,
         f.op = "rerun" => Caller.op = "rerun",
         stack' = <<f>> \o Tail(stack), UNCHANGED failed
  PROVE  CallMove
BY DEF CallMove

LEMMA WakeMoves ==
  ASSUME Typed, ExecutorNext, GateWakes \/ PlanWakes \/ LoopTurn \/ RetryTurn
  PROVE  CallMove
<1>1. stack # <<>> /\ Upstream(Caller.node) \in Text /\ {} \in Text
  BY TextsTyped DEF Typed, GateWakes, PlanWakes, LoopTurn, RetryTurn, Inside
<1>2. CASE GateWakes
  <2>1. CASE Raises
    BY <2>1 DEF CallMove
  <2>2. CASE ~ Raises
    <3>1. /\ results' = Store(results, Caller.node, Upstream(Caller.node))
          /\ stack' = Tail(stack) /\ UNCHANGED failed
      BY <1>2, <2>2 DEF GateWakes, Return
    <3> QED
      BY <1>1, <3>1, ReturnMove
  <2> QED
    BY <2>1, <2>2
<1>3. CASE PlanWakes
  <2>1. /\ results' = Store(results, Caller.node, {})
        /\ stack' = Tail(stack) /\ UNCHANGED failed
    BY <1>3 DEF PlanWakes, Apply
  <2> QED
    BY <1>1, <2>1, ReturnMove
<1>4. CASE LoopTurn
  <2>1. Caller.op = "loop"
    BY <1>4 DEF LoopTurn, Inside, Caller
  <2>2. \/ Raises
        \/ /\ results' = Store(results, Caller.node, Upstream(Caller.node))
           /\ stack' = Tail(stack) /\ UNCHANGED failed
        \/ \E l \in NearestLLM(Caller.node) : StartRevision(l)
    BY <1>4 DEF LoopTurn, Return
  <2>3. CASE Raises
    BY <2>3 DEF CallMove
  <2>4. CASE /\ results' = Store(results, Caller.node, Upstream(Caller.node))
             /\ stack' = Tail(stack) /\ UNCHANGED failed
    BY <1>1, <2>4, ReturnMove
  <2>5. CASE \E l \in NearestLLM(Caller.node) : StartRevision(l)
    BY <1>1, <2>1, <2>5, RevisionMove
  <2> QED
    BY <2>2, <2>3, <2>4, <2>5
<1>5. CASE RetryTurn
  <2>1. Caller.op = "retry"
    BY <1>5 DEF RetryTurn, Inside, Caller
  <2>2. \/ stack' = Tail(stack) /\ UNCHANGED failed
        \/ \E l \in NearestLLM(Caller.node) : StartRevision(l)
    BY <1>5 DEF RetryTurn, Return
  <2>3. CASE stack' = Tail(stack) /\ UNCHANGED failed
    BY <1>1, <2>1, <2>3, ReturnMove
  <2>4. CASE \E l \in NearestLLM(Caller.node) : StartRevision(l)
    BY <1>1, <2>1, <2>4, RevisionMove
  <2> QED
    BY <2>2, <2>3, <2>4
<1> QED
  BY <1>2, <1>3, <1>4, <1>5

LEMMA RevisionDoneMove ==
  ASSUME Typed, ExecutorNext, RevisionDone
  PROVE  CallMove
<1>1. stack # <<>> /\ Caller.op = "revising" /\ graph \in Graphs /\ UNCHANGED graph
  BY GraphStays DEF RevisionDone, Inside, Caller, Typed, Layout
<1>2. Caller \in Frames /\ Caller.node \in Node /\ FrameOK(Caller) /\ Caller.llm \in Node
  BY <1>1, CallerTyped
<1>3. Type(Caller.node) \in {"loop", "checker"}
  BY <1>1, <1>2 DEF FrameOK
<1>0. PICK again, round :
        /\ again = IF Type(Caller.node) = "loop" THEN "loop" ELSE "recheck"
        /\ round = Caller.round + 1
  OBVIOUS
<1>4. PICK queue \in SetToSeqs(Targets(Caller.llm)) :
        /\ again = IF Type(Caller.node) = "loop" THEN "loop" ELSE "recheck"
        /\ round = Caller.round + 1
        /\ Replace(<<[Frame("rerun", Caller.node) EXCEPT !.queue = queue],
                     [Caller EXCEPT !.op = again, !.round = round]>>)
  BY <1>0 DEF RevisionDone
<1>5. PICK n : n = Caller.node
  OBVIOUS
<1>6. PICK f : f = [Frame("rerun", n) EXCEPT !.queue = queue]
  OBVIOUS
<1>7. PICK g : g = [Caller EXCEPT !.op = again, !.round = round]
  OBVIOUS
<1>8. queue \in Seq(Node)
  BY <1>1, Queued, PortsLead
<1>9. f \in Frames /\ f.op = "rerun" /\ f.node = n
  <2>1. /\ Frame("rerun", n) \in Frames /\ Frame("rerun", n).op = "rerun"
        /\ Frame("rerun", n).node = n
    BY <1>2, <1>5, FrameTyped DEF Ops
  <2> QED
    BY <1>6, <1>8, <2>1 DEF Frames
<1>10. g \in Frames /\ g.op = again /\ g.node = n
  <2>1. round \in Nat /\ again \in Ops
    BY <1>2, <1>4 DEF Frames, Ops
  <2> QED
    BY <1>2, <1>5, <1>7, <2>1 DEF Frames
<1>11. Type(n)' = Type(n) /\ Type(n) \in {"loop", "checker"}
  BY <1>1, <1>3, <1>5 DEF Type
<1>12. FrameOK(f)'
  BY <1>9 DEF FrameOK
<1>13. FrameOK(g)' /\ g.op # "rerun"
  BY <1>4, <1>5, <1>10, <1>11 DEF FrameOK
<1>14. stack' = <<f, g>> \o Tail(stack) /\ UNCHANGED failed
  BY <1>4, <1>5, <1>6, <1>7 DEF Replace
<1>15. <<f, g>> \o Tail(stack) = <<f>> \o (<<g>> \o Tail(stack))
  BY <1>1, <1>9, <1>10, CallerTyped, TwoPushed DEF Stack
<1> QED
  BY <1>5, <1>9, <1>10, <1>12, <1>13, <1>14, <1>15 DEF CallMove

LEMMA RerunMoves ==
  ASSUME Typed, ExecutorNext, RerunNode
  PROVE  /\ CallMove
         /\ \/ UNCHANGED <<results, redone>> /\ SkipNothing
            \/ \E n \in Node : \E rest : /\ redone' = redone \cup {n}
                                         /\ ExecuteInstantNode(n, rest)
<1>1. /\ stack # <<>> /\ Caller.op = "rerun" /\ Caller.queue # <<>>
      /\ graph \in Graphs /\ UNCHANGED graph
  BY GraphStays DEF RerunNode, Inside, Caller, Typed, Layout
<1>2. Caller \in Frames /\ FrameOK(Caller)
  BY <1>1, CallerTyped
<1>3. /\ Caller.queue \in Seq(Node) /\ Caller.seen \in SUBSET (Node \cup Nat)
      /\ Head(Caller.queue) \in Node /\ Tail(Caller.queue) \in Seq(Node)
  BY <1>1, <1>2 DEF Frames
<1>4. PICK n \in Node : n = Head(Caller.queue)
  BY <1>3
<1>5. PICK tail : tail = [Caller EXCEPT !.queue = Tail(@)]
  OBVIOUS
<1>6. tail \in Frames /\ tail.op = "rerun" /\ tail.node = Caller.node /\ tail.queue \in Seq(Node)
      /\ tail.seen = Caller.seen
  BY <1>1, <1>2, <1>3, <1>5 DEF Frames
<1>7. CASE /\ Replace(<<tail>>)
           /\ SkipNothing
           /\ UNCHANGED <<results, bell, applied, redone, waitVars, happened>>
  <2>1. FrameOK(tail)'
    BY <1>6 DEF FrameOK
  <2>2. stack' = <<tail>> \o Tail(stack) /\ UNCHANGED failed
    BY <1>7 DEF Replace
  <2> QED
    BY <1>1, <1>6, <1>7, <2>1, <2>2, SwapMove
<1>8. CASE /\ \E more \in SetToSeqs(Targets(n)) :
                 ExecuteInstantNode(n, <<[tail EXCEPT !.queue = @ \o more,
                                                      !.seen = @ \cup {n}]>> \o Tail(stack))
           /\ redone' = redone \cup {n}
  <2>1. PICK more \in SetToSeqs(Targets(n)) :
                 ExecuteInstantNode(n, <<[tail EXCEPT !.queue = @ \o more,
                                                      !.seen = @ \cup {n}]>> \o Tail(stack))
    BY <1>8
  <2>2. more \in Seq(Node)
    BY <1>1, Queued, PortsLead
  <2>3. PICK g : g = [tail EXCEPT !.queue = @ \o more, !.seen = @ \cup {n}]
    OBVIOUS
  <2>4. tail.queue \o more \in Seq(Node)
    BY <1>6, <2>2
  <2>5. g \in Frames /\ g.op = "rerun" /\ g.node = Caller.node
    BY <1>3, <1>6, <2>3, <2>4 DEF Frames
  <2>6. PICK rest : rest = <<g>> \o Tail(stack)
    OBVIOUS
  <2>7. ExecuteInstantNode(n, rest)
    BY <2>1, <2>3, <2>6
  <2>8. FrameOK(g)'
    BY <2>5 DEF FrameOK
  <2>9. CASE InstantDone(n, rest)
    <3>1. stack' = <<g>> \o Tail(stack) /\ UNCHANGED failed
      BY <2>6, <2>9 DEF InstantDone
    <3> QED
      BY <1>1, <1>8, <2>5, <2>7, <2>8, <3>1, SwapMove
  <2>10. CASE InstantRaises
    BY <1>8, <2>7, <2>10 DEF InstantRaises, CallMove
  <2>11. CASE InstantWaits(n, rest)
    <3>1. PICK f \in Frames : /\ FrameOK(f) /\ f.node = n
                              /\ stack' = <<f>> \o (<<g>> \o Tail(stack))
      BY <2>6, <2>11 DEF InstantWaits
    <3>2. UNCHANGED failed
      BY <2>11 DEF InstantWaits
    <3>3. FrameOK(f)'
      BY <3>1, GraphStays, FramesKept
    <3>4. f.node \in redone'
      BY <1>8, <3>1
    <3> QED
      BY <1>1, <1>8, <2>5, <2>7, <2>8, <3>1, <3>2, <3>3, <3>4 DEF CallMove
  <2> QED
    BY <2>7, <2>9, <2>10, <2>11, InstantEffects
<1> QED
  BY <1>4, <1>5, <1>7, <1>8 DEF RerunNode

LEMMA OtherCallMoves ==
  ASSUME Typed, ExecutorNext,
         RerunDone \/ StartRecheck \/ RecheckDone \/ ItemStarts \/ ItemsDone
  PROVE  CallMove
<1>1. stack # <<>> /\ UNCHANGED graph
  BY GraphStays DEF RerunDone, StartRecheck, RecheckDone, ItemStarts, ItemsDone, Inside
<1>2. Caller \in Frames /\ FrameOK(Caller) /\ Caller.node \in Node
  BY <1>1, CallerTyped
<1>3. Type(Caller.node)' = Type(Caller.node)' /\ \A n : Type(n)' = Type(n)
  BY <1>1 DEF Type
<1>4. PICK n : n = Caller.node
  OBVIOUS
<1>5. CASE RerunDone
  <2>1. Caller.op = "rerun" /\ stack' = Tail(stack) /\ UNCHANGED failed
    BY <1>5 DEF RerunDone, Inside, Caller, Return
  <2> QED
    BY <1>1, <2>1, ReturnMove
<1>6. CASE StartRecheck
  <2>1. Caller.op = "recheck" /\ Type(n) = "checker"
    BY <1>2, <1>4, <1>6 DEF StartRecheck, Inside, Caller, FrameOK
  <2>2. CASE Raises
    BY <2>2 DEF CallMove
  <2>3. CASE ~ Raises
    <3>1. /\ StartTask(Caller.node, "recheck")
          /\ Replace(<<[Caller EXCEPT !.op = "checking", !.row = NewId]>>)
      BY <1>6, <2>3 DEF StartRecheck
    <3>2. PICK id \in DOMAIN rows' : id = NewId /\ id \in Nat
      BY <3>1, AddedRow DEF StartTask, Typed, RowsTyped
    <3>3. PICK f : f = [Caller EXCEPT !.op = "checking", !.row = id]
      OBVIOUS
    <3>4. f \in Frames /\ f.op = "checking" /\ f.node = n /\ f.row = id
      BY <1>2, <1>4, <3>2, <3>3 DEF Frames, Ops
    <3>5. FrameOK(f)'
      BY <1>3, <2>1, <3>2, <3>4 DEF FrameOK
    <3>6. stack' = <<f>> \o Tail(stack) /\ UNCHANGED failed
      BY <3>1, <3>2, <3>3 DEF Replace
    <3> QED
      BY <1>1, <1>4, <3>4, <3>5, <3>6, SwapMove
  <2> QED
    BY <2>2, <2>3
<1>7. CASE RecheckDone
  <2>1. Caller.op = "checking" /\ Type(n) = "checker"
    BY <1>2, <1>4, <1>7 DEF RecheckDone, Inside, Caller, FrameOK
  <2>2. PICK f : f = [Caller EXCEPT !.op = "retry"]
    OBVIOUS
  <2>3. f \in Frames /\ f.op = "retry" /\ f.node = n
    BY <1>2, <1>4, <2>2 DEF Frames, Ops
  <2>4. FrameOK(f)'
    BY <1>3, <2>1, <2>3 DEF FrameOK
  <2>5. stack' = <<f>> \o Tail(stack) /\ UNCHANGED failed
    BY <1>7, <2>2 DEF RecheckDone, Replace
  <2> QED
    BY <1>1, <1>4, <2>3, <2>4, <2>5, SwapMove
<1>8. CASE ItemStarts
  <2>1. /\ Caller.op = "fan_out" /\ Type(n) = "fan_out"
        /\ Caller.seen \subseteq DOMAIN rows /\ Caller.round \in Nat /\ Caller.round > 0
    BY <1>2, <1>4, <1>8 DEF ItemStarts, Inside, Caller, FrameOK, Frames
  <2>2. PICK fewer : fewer = [Caller EXCEPT !.round = @ - 1]
    OBVIOUS
  <2>3. /\ fewer \in Frames /\ fewer.op = "fan_out" /\ fewer.node = n
        /\ fewer.seen = Caller.seen
    <3>1. Caller.round - 1 \in Nat
      BY <2>1
    <3> QED
      BY <1>2, <1>4, <2>1, <2>2, <3>1 DEF Frames
  <2>4. \/ Replace(<<fewer>>)
        \/ /\ StartTask(Caller.node, "item")
           /\ Replace(<<[fewer EXCEPT !.seen = @ \cup {NewId}]>>)
        \/ Raises
    BY <1>8, <2>2 DEF ItemStarts
  <2>5. DOMAIN rows \subseteq DOMAIN rows'
    BY GraphStays
  <2>6. CASE Replace(<<fewer>>)
    <3>1. FrameOK(fewer)'
      BY <1>3, <2>1, <2>3, <2>5 DEF FrameOK
    <3>2. stack' = <<fewer>> \o Tail(stack) /\ UNCHANGED failed
      BY <2>6 DEF Replace
    <3> QED
      BY <1>1, <1>4, <2>3, <3>1, <3>2, SwapMove
  <2>7. CASE /\ StartTask(Caller.node, "item")
             /\ Replace(<<[fewer EXCEPT !.seen = @ \cup {NewId}]>>)
    <3>1. PICK id \in DOMAIN rows' : id = NewId /\ id \in Nat
      BY <2>7, AddedRow DEF StartTask, Typed, RowsTyped
    <3>2. PICK f : f = [fewer EXCEPT !.seen = @ \cup {id}]
      OBVIOUS
    <3>3. /\ f \in Frames /\ f.op = "fan_out" /\ f.node = n
          /\ f.seen = fewer.seen \cup {id}
      BY <2>3, <3>1, <3>2 DEF Frames
    <3>4. f.seen \subseteq DOMAIN rows'
      BY <2>1, <2>3, <2>5, <3>1, <3>3
    <3>5. FrameOK(f)'
      BY <1>3, <2>1, <3>3, <3>4 DEF FrameOK
    <3>6. stack' = <<f>> \o Tail(stack) /\ UNCHANGED failed
      BY <2>7, <3>1, <3>2 DEF Replace
    <3> QED
      BY <1>1, <1>4, <3>3, <3>5, <3>6, SwapMove
  <2>8. CASE Raises
    BY <2>8 DEF CallMove
  <2> QED
    BY <2>4, <2>6, <2>7, <2>8
<1>9. CASE ItemsDone
  <2>1. Caller.seen \subseteq DOMAIN rows
    BY <1>2, <1>9 DEF ItemsDone, Inside, Caller, FrameOK
  <2>2. UNION {rows[i].text \ NoText : i \in Caller.seen} \in Text
    <3>1. \A i \in Caller.seen : rows[i] \in Rows
      BY <2>1 DEF Typed, RowsTyped
    <3>2. \A i \in Caller.seen : rows[i].text \ NoText \subseteq {"issue", "FAILED"}
      BY <3>1 DEF Rows, Text, NoText
    <3> QED
      BY <3>2 DEF Text
  <2>3. stack' = Tail(stack) /\ UNCHANGED failed
    BY <1>9 DEF ItemsDone, Return
  <2>4. \E text \in Text : results' = Store(results, Caller.node, text)
    BY <1>9, <2>2 DEF ItemsDone
  <2> QED
    BY <1>1, <2>3, <2>4, ReturnMove
<1> QED
  BY <1>5, <1>6, <1>7, <1>8, <1>9
-----------------------------------------------------------------------------
(* What becomes of the results.                                            *)
LEMMA StepResults ==
  ASSUME Typed, ExecutorNext
  PROVE  \/ UNCHANGED results
         \/ \E n \in Node, text \in Text \cup {NoText} :
               results' = Store(results, n, text)
         \/ WaveDone
         \/ ResumeFlow
<1> DEFINE Goal == \/ UNCHANGED results
                   \/ \E n \in Node, text \in Text \cup {NoText} :
                         results' = Store(results, n, text)
                   \/ WaveDone
                   \/ ResumeFlow
<1>1. ASSUME NEW n \in Node, NEW rest, ExecuteInstantNode(n, rest)
      PROVE  Goal
  BY <1>1, InstantEffects DEF InstantDone, InstantRaises, InstantWaits
<1>2. CASE \E n \in Node : RunInstant(n)
  BY <1>1, <1>2 DEF RunInstant
<1>3. CASE RerunNode
  BY <1>1, <1>3, RerunMoves
<1>4. CASE GateWakes \/ PlanWakes \/ LoopTurn
  <2>1. stack # <<>>
    BY <1>4 DEF GateWakes, PlanWakes, LoopTurn, Inside
  <2>2. Caller.node \in Node /\ Upstream(Caller.node) \in Text /\ {} \in Text
    BY <2>1, CallerTyped, TextsTyped DEF Typed
  <2>3. UNCHANGED results \/ results' = Store(results, Caller.node, {})
          \/ results' = Store(results, Caller.node, Upstream(Caller.node))
    BY <1>4 DEF GateWakes, PlanWakes, LoopTurn, Apply
  <2> QED
    BY <2>2, <2>3
<1>5. CASE RevisionDone \/ RecheckDone
  <2>1. stack # <<>> /\ Caller.op \in {"revising", "checking"}
    BY <1>5 DEF RevisionDone, RecheckDone, Inside, Caller
  <2>2. Caller.node \in Node /\ Caller.llm \in Node /\ Caller.row \in DOMAIN rows
    BY <2>1, CallerTyped DEF FrameOK
  <2>3. rows[Caller.row] \in Rows
    BY <2>2 DEF Typed, RowsTyped
  <2>4. rows[Caller.row].text \in Text \cup {NoText}
    BY <2>3 DEF Rows
  <2>5. \E n \in {Caller.node, Caller.llm} :
           results' = Store(results, n, rows[Caller.row].text)
    BY <1>5 DEF RevisionDone, RecheckDone
  <2> QED
    BY <2>2, <2>4, <2>5
<1>6. CASE ItemsDone
  <2>1. stack # <<>> /\ Caller.op = "fan_out"
    BY <1>6 DEF ItemsDone, Inside, Caller
  <2>2. Caller.node \in Node /\ Caller.seen \subseteq DOMAIN rows
    BY <2>1, CallerTyped DEF FrameOK
  <2>3. \A i \in Caller.seen : rows[i] \in Rows
    BY <2>2 DEF Typed, RowsTyped
  <2>4. \A i \in Caller.seen : rows[i].text \ NoText \subseteq {"issue", "FAILED"}
    BY <2>3 DEF Rows, Text, NoText
  <2>5. UNION {rows[i].text \ NoText : i \in Caller.seen} \in Text
    BY <2>4 DEF Text
  <2>6. results' = Store(results, Caller.node,
                         UNION {rows[i].text \ NoText : i \in Caller.seen})
    BY <1>6 DEF ItemsDone
  <2> QED
    BY <2>2, <2>5, <2>6
<1>7. ASSUME \/ Execute \/ EnterWave \/ InstantsDone \/ NodesStarted \/ WaitWakes
             \/ RetriesDone \/ RetryTurn \/ RerunDone \/ StartRecheck
             \/ ItemStarts \/ StrayStarts \/ UserAnswers \/ UserCancels
             \/ \E n \in Node : StartNode(n) \/ RetryNode(n)
      PROVE  UNCHANGED results
  BY <1>7 DEF Execute, EnterWave, InstantsDone, NodesStarted, WaitWakes,
     RetriesDone, RetryTurn, RerunDone, StartRecheck, ItemStarts, StrayStarts,
     UserAnswers, UserCancels, StartNode, RetryNode, nodeVars
<1>8. CASE Crash \/ FlowDies
  BY <1>8 DEF Crash, FlowDies, Gone, nodeVars
<1>9. ASSUME NEW t \in DOMAIN rows,
             \/ RowEnds(t) \/ RowFails(t) \/ RowRequeued(t) \/ RowStopped(t)
             \/ RowContinued(t)
      PROVE  UNCHANGED results
  BY <1>9 DEF RowEnds, RowCompletes, TurnEnds, RowFails, RowRequeued,
     RowStopped, RowContinued, Turned, nodeVars
<1> QED
  BY <1>2, <1>3, <1>4, <1>5, <1>6, <1>7, <1>8, <1>9 DEF ExecutorNext, ExecutorStep

LEMMA Collects ==
  ASSUME Typed, pc = "waiting", NEW nodes \in SUBSET New, results' = Collected(nodes)
  PROVE  /\ DOMAIN results' \subseteq Node /\ DOMAIN results \subseteq DOMAIN results'
         /\ \A n \in DOMAIN results' : results'[n] \in Text
         /\ DOMAIN results' \subseteq DOMAIN results \cup nodes
<1> DEFINE told == {n \in nodes : rows[task[n]].text # NoText}
<1>1. results' = [n \in DOMAIN results \cup told |->
                    IF n \in told THEN rows[task[n]].text ELSE results[n]]
  BY DEF Collected
<1>2. \A n \in nodes : n \in Node /\ task[n] \in DOMAIN rows
  BY DEF Typed, RowsTyped, Tasked, New, LLM
<1>3. \A n \in nodes : rows[task[n]] \in Rows
  BY <1>2 DEF Typed, RowsTyped
<1>4. \A n \in told : rows[task[n]].text \in Text
  BY <1>3 DEF Rows
<1>5. told \subseteq nodes
  OBVIOUS
<1> HIDE DEF told
<1> QED
  BY <1>1, <1>2, <1>4, <1>5 DEF Typed, NodesTyped

LEMMA Restores ==
  ASSUME Typed
  PROVE  /\ Restorable \subseteq LLM
         /\ \A n \in Restorable : /\ LastRow(n) \in DOMAIN rows
                                  /\ rows[LastRow(n)].status = "completed"
                                  /\ rows[LastRow(n)].text \in Text
<1>1. \A n \in Restorable : /\ n \in LLM /\ LastRow(n) # 0
                            /\ rows[LastRow(n)].status = "completed"
                            /\ rows[LastRow(n)].text # NoText
  BY DEF Restorable
<1>2. \A n \in Restorable : LastRow(n) \in DOMAIN rows
  BY <1>1, LastRowThere
<1>3. \A n \in Restorable : rows[LastRow(n)] \in Rows
  BY <1>2 DEF Typed, RowsTyped
<1> QED
  BY <1>1, <1>2, <1>3 DEF Rows

LEMMA StepNodesTyped ==
  ASSUME Typed, ExecutorNext
  PROVE  NodesTyped'
<1>1. UNCHANGED graph /\ graph \in Graphs /\ NodesTyped /\ Layout /\ Layout'
  BY GraphStays DEF Typed, Layout
<1>2. Node' = Node /\ LLM' = LLM /\ Instant' = Instant
  BY <1>1 DEF Node, LLM, Instant, Type
<1>3. level' \in [Node -> 0 .. Cardinality(Node)]
  <2>1. CASE Layers(level)'
    BY <1>2, <2>1 DEF Layers
  <2>2. CASE phase' = "none"
    <3>1. UNCHANGED level
      BY <1>1, <2>2, StepMoves DEF Execute, Moves, Layout
    <3> QED
      BY <1>1, <3>1 DEF NodesTyped
  <2> QED
    BY <1>1, <2>1, <2>2 DEF Layout
<1>4. DOMAIN results' \subseteq Node /\ \A n \in DOMAIN results' : results'[n] \in Text
  <2>1. CASE UNCHANGED results
    BY <1>1, <2>1 DEF NodesTyped
  <2>2. ASSUME NEW n \in Node, NEW text \in Text \cup {NoText},
               results' = Store(results, n, text)
        PROVE  DOMAIN results' \subseteq Node /\ \A m \in DOMAIN results' : results'[m] \in Text
    <3>1. CASE text = NoText
      BY <1>1, <2>2, <3>1 DEF NodesTyped, Store
    <3>2. CASE text \in Text
      BY <1>1, <2>2, <3>2, StoreKeeps DEF NodesTyped
    <3> QED
      BY <3>1, <3>2
  <2>3. CASE WaveDone
    <3>1. pc = "waiting" /\ results' = Collected(New)
      BY <2>3 DEF WaveDone, New
    <3> QED
      BY <3>1, Collects
  <2>4. CASE ResumeFlow
    <3>1. results' = [n \in Restorable |-> rows[LastRow(n)].text]
      BY <2>4 DEF ResumeFlow
    <3> QED
      BY <3>1, Restores DEF LLM
  <2> QED
    BY <2>1, <2>2, <2>3, <2>4, StepResults
<1>5. skipped' \cup dropped' \subseteq Node
  <2>1. ASSUME NEW roots \in SUBSET Node, MarkSkipped(roots)
        PROVE  skipped' \cup dropped' \subseteq Node
    <3>1. Pruned(roots) \subseteq Below(roots) /\ Below(roots) \subseteq Node
      BY <1>1, PrunedStuck, BelowFollows
    <3> QED
      BY <1>1, <2>1, <3>1 DEF MarkSkipped, NodesTyped
  <2> QED
    BY <1>1, <2>1, StepMoves DEF Execute, Moves, Marks, SkipNothing, NodesTyped, Layout
<1>6. batch' \cup todo' \cup restored' \subseteq Node /\ wave' \in Nat \ {0}
  <2>1. batch \cup todo \cup restored \subseteq Node /\ wave \in Nat \ {0}
    BY <1>1 DEF NodesTyped
  <2>2. CASE EnterWave
    BY <2>1, <2>2 DEF EnterWave, InLevel, Instant, flowVars
  <2>3. CASE RetriesDone
    <3>1. wave' \in {wave, wave + 1} /\ UNCHANGED <<batch, todo, restored>>
      BY <2>3 DEF RetriesDone, flowVars
    <3> QED
      BY <2>1, <3>1
  <2>4. CASE InstantsDone \/ NodesStarted \/ WaveDone
    BY <2>1, <2>4 DEF InstantsDone, NodesStarted, WaveDone, flowVars
  <2>5. CASE ResumeFlow
    BY <2>1, <2>5, Restores DEF ResumeFlow, LLM
  <2>6. CASE \E n \in Node : RunInstant(n) \/ StartNode(n) \/ RetryNode(n)
    BY <2>1, <2>6 DEF RunInstant, StartNode, RetryNode, flowVars
  <2>7. ASSUME NEW t \in DOMAIN rows,
               \/ RowEnds(t) \/ RowFails(t) \/ RowRequeued(t) \/ RowStopped(t)
               \/ RowContinued(t)
        PROVE  UNCHANGED <<batch, todo, restored, wave>>
    BY <2>7 DEF RowEnds, RowCompletes, TurnEnds, RowFails, RowRequeued,
       RowStopped, RowContinued, Turned, loopVars, flowVars
  <2>8. ASSUME \/ Execute \/ WaitWakes \/ UserAnswers \/ UserCancels \/ Crash
               \/ FlowDies \/ StrayStarts
        PROVE  UNCHANGED <<batch, todo, restored, wave>>
    BY <2>8 DEF Execute, WaitWakes, UserAnswers, UserCancels, Crash, FlowDies,
       Gone, StrayStarts, loopVars, flowVars
  <2>9. ASSUME \/ GateWakes \/ PlanWakes \/ LoopTurn \/ RetryTurn \/ RevisionDone
               \/ RerunNode \/ RerunDone \/ StartRecheck \/ RecheckDone
               \/ ItemStarts \/ ItemsDone
        PROVE  UNCHANGED <<batch, todo, restored, wave>>
    BY <2>9 DEF GateWakes, PlanWakes, LoopTurn, RetryTurn, RevisionDone,
       RerunNode, RerunDone, StartRecheck, RecheckDone, ItemStarts, ItemsDone,
       flowVars
  <2> QED
    BY <2>1, <2>2, <2>3, <2>4, <2>5, <2>6, <2>7, <2>8, <2>9 DEF ExecutorNext, ExecutorStep
<1> QED
  BY <1>2, <1>3, <1>4, <1>5, <1>6 DEF NodesTyped
-----------------------------------------------------------------------------
(* The steps inside a call, and those beside the wave loop.                *)
CallStep ==
  \/ GateWakes \/ PlanWakes \/ LoopTurn \/ RetryTurn \/ RevisionDone
  \/ RerunNode \/ RerunDone \/ StartRecheck \/ RecheckDone
  \/ ItemStarts \/ ItemsDone

RowStep(t) ==
  RowEnds(t) \/ RowFails(t) \/ RowRequeued(t) \/ RowStopped(t) \/ RowContinued(t)

AsideStep ==
  \/ WaitWakes \/ StrayStarts \/ UserAnswers \/ UserCancels
  \/ \E t \in DOMAIN rows : RowStep(t)

Steady == UNCHANGED <<graph, level, task, phase, pc, wave, batch, todo, restored>>

LEMMA CallsSteady ==
  ASSUME Typed, ExecutorNext, CallStep
  PROVE  /\ Steady /\ CallMove
         /\ stack # <<>> /\ Caller \in Frames /\ FrameOK(Caller)
         /\ Stack(Tail(stack)) /\ stack = <<Caller>> \o Tail(stack)
         /\ pc \in {"instants", "retrying"}
         /\ redone \subseteq redone'
<1>1. Steady
  BY DEF CallStep, GateWakes, PlanWakes, LoopTurn, RetryTurn, RevisionDone,
     RerunNode, RerunDone, StartRecheck, RecheckDone, ItemStarts, ItemsDone,
     flowVars, nodeVars, Steady
<1>2. CallMove
  BY WakeMoves, RevisionDoneMove, RerunMoves, OtherCallMoves DEF CallStep
<1>3. stack # <<>>
  BY DEF CallStep, GateWakes, PlanWakes, LoopTurn, RetryTurn, RevisionDone,
     RerunNode, RerunDone, StartRecheck, RecheckDone, ItemStarts, ItemsDone, Inside
<1>4. redone \subseteq redone'
  <2>1. CASE RerunNode
    BY <2>1, RerunMoves
  <2>2. CASE ~ RerunNode
    BY <2>2 DEF CallStep, GateWakes, PlanWakes, LoopTurn, RetryTurn, RevisionDone,
       RerunDone, StartRecheck, RecheckDone, ItemStarts, ItemsDone, flowVars
  <2> QED
    BY <2>1, <2>2
<1> QED
  BY <1>1, <1>2, <1>3, <1>4, CallerTyped

LEMMA AsidesSteady ==
  ASSUME AsideStep
  PROVE  Steady /\ UNCHANGED <<results, skipped, dropped, stack, failed, redone>>
<1>1. ASSUME NEW t \in DOMAIN rows, RowStep(t)
      PROVE  Steady /\ UNCHANGED <<results, skipped, dropped, stack, failed, redone>>
  BY <1>1 DEF RowStep, RowEnds, RowCompletes, TurnEnds, RowFails, RowRequeued,
       RowStopped, RowContinued, Turned, loopVars, flowVars, nodeVars, callVars,
       Steady
<1>2. CASE WaitWakes \/ StrayStarts \/ UserAnswers \/ UserCancels
  BY <1>2 DEF WaitWakes, StrayStarts, UserAnswers, UserCancels, loopVars,
     flowVars, nodeVars, callVars, Steady
<1> QED
  BY <1>1, <1>2 DEF AsideStep

(* A step is inside a call, beside the wave loop or one of the wave loop's. *)
LEMMA StepKinds ==
  ASSUME ExecutorNext
  PROVE  \/ CallStep \/ AsideStep
         \/ Execute \/ EnterWave \/ InstantsDone \/ NodesStarted \/ WaveDone
         \/ RetriesDone
         \/ \E n \in Node : RunInstant(n) \/ StartNode(n) \/ RetryNode(n)
         \/ Crash \/ FlowDies \/ ResumeFlow
BY DEF ExecutorNext, ExecutorStep, CallStep, AsideStep, RowStep

LEMMA MovedStack ==
  ASSUME Typed, ExecutorNext, CallStep
  PROVE  Stack(stack)'
<1>1. /\ CallMove /\ Stack(Tail(stack)) /\ Tail(stack) \in Seq(Frames)
      /\ UNCHANGED graph /\ DOMAIN rows \subseteq DOMAIN rows'
  BY CallsSteady, GraphStays DEF Stack
<1>3. PICK s : s = Tail(stack)
  OBVIOUS
<1>4. /\ Frames' = Frames /\ \A t : Stack(t) => Stack(t)'
  BY <1>1, FramesKept
<1>5. s \in Seq(Frames) /\ Stack(s)'
  BY <1>1, <1>3, <1>4
<1>6. ASSUME NEW f \in Frames, FrameOK(f)', NEW t, Stack(t)'
      PROVE  Stack(<<f>> \o t)'
  <2>1. t \in Seq(Frames) /\ \A i \in DOMAIN t : FrameOK(t[i])'
    BY <1>4, <1>6 DEF Stack
  <2>2. /\ <<f>> \o t \in Seq(Frames)
        /\ \A i \in DOMAIN (<<f>> \o t) :
               (<<f>> \o t)[i] = f \/ \E j \in DOMAIN t : (<<f>> \o t)[i] = t[j]
    BY <2>1, Pushed
  <2> DEFINE q == <<f>> \o t
  <2> HIDE DEF q
  <2>3. Stack(q)'
    BY <1>4, <1>6, <2>1, <2>2 DEF Stack, q
  <2> QED
    BY <2>3 DEF q
<1>7. CASE Raises
  <2>1. stack' = <<>>
    BY <1>7 DEF Raises
  <2> QED
    BY <2>1 DEF Stack
<1>8. CASE stack' = Tail(stack)
  BY <1>3, <1>5, <1>8 DEF Stack
<1>9. ASSUME NEW f \in Frames, FrameOK(f)', stack' = <<f>> \o s
      PROVE  Stack(stack)'
  <2>1. Stack(<<f>> \o s)'
    BY <1>5, <1>6, <1>9
  <2> QED
    BY <1>9, <2>1 DEF Stack
<1>10. ASSUME NEW f \in Frames, NEW g \in Frames, FrameOK(f)', FrameOK(g)',
              stack' = <<f>> \o (<<g>> \o s)
       PROVE  Stack(stack)'
  <2>1. Stack(<<g>> \o s)'
    BY <1>5, <1>6, <1>10
  <2>2. PICK t : t = <<g>> \o s
    OBVIOUS
  <2>3. Stack(<<f>> \o t)'
    BY <1>6, <1>10, <2>1, <2>2
  <2> QED
    BY <1>10, <2>2, <2>3 DEF Stack
<1> QED
  BY <1>1, <1>3, <1>7, <1>8, <1>9, <1>10 DEF CallMove

LEMMA StepStack ==
  ASSUME Typed, ExecutorNext
  PROVE  Stack(stack)'
<1>1. /\ UNCHANGED graph /\ DOMAIN rows \subseteq DOMAIN rows'
      /\ Stack(stack) /\ Tasked
  BY GraphStays DEF Typed
<1>2. Frames' = Frames /\ (\A t : Stack(t) => Stack(t)') /\ \A f : FrameOK(f) => FrameOK(f)'
  BY <1>1, FramesKept
<1>3. CASE UNCHANGED stack
  <2>1. PICK t : t = stack
    OBVIOUS
  <2>2. Stack(t)'
    BY <1>1, <1>2, <2>1
  <2> QED
    BY <1>3, <2>1, <2>2 DEF Stack
<1>4. CASE stack' = <<>>
  BY <1>4 DEF Stack
<1>5. ASSUME NEW f \in Frames, FrameOK(f), stack' = <<f>>
      PROVE  Stack(stack)'
  <2>1. FrameOK(f)' /\ <<f>> \in Seq(Frames) /\ DOMAIN <<f>> = {1} /\ <<f>>[1] = f
    BY <1>2, <1>5
  <2> QED
    BY <1>2, <1>5, <2>1 DEF Stack
<1>6. ASSUME NEW n \in Node, RunInstant(n)
      PROVE  Stack(stack)'
  <2>1. ExecuteInstantNode(n, <<>>)
    BY <1>6 DEF RunInstant
  <2>2. PICK rest : rest = <<>>
    OBVIOUS
  <2>3. \/ stack' = <<>>
        \/ \E f \in Frames : FrameOK(f) /\ stack' = <<f>> \o <<>>
    BY <2>1, InstantEffects DEF InstantDone, InstantRaises, InstantWaits, Raises
  <2>4. \A f \in Frames : <<f>> \o <<>> = <<f>>
    OBVIOUS
  <2> QED
    BY <1>4, <1>5, <2>3, <2>4
<1>7. ASSUME NEW n \in Node, RetryNode(n)
      PROVE  Stack(stack)'
  <2>1. Type(n) = "checker" /\ stack' = <<Frame("retry", n)>>
    BY <1>1, <1>7 DEF RetryNode, Tasked
  <2>2. PICK f : f = Frame("retry", n)
    OBVIOUS
  <2>3. f \in Frames /\ f.op = "retry" /\ f.node = n
    BY <2>2, FrameTyped DEF Ops
  <2>4. FrameOK(f)
    BY <2>1, <2>3 DEF FrameOK
  <2> QED
    BY <1>5, <2>1, <2>2, <2>3, <2>4
<1>8. CASE AsideStep
  BY <1>3, <1>8, AsidesSteady
<1>9. ASSUME \/ Execute \/ EnterWave \/ InstantsDone \/ NodesStarted \/ WaveDone
             \/ RetriesDone \/ \E n \in Node : StartNode(n)
      PROVE  UNCHANGED stack
  BY <1>9 DEF Execute, EnterWave, InstantsDone, NodesStarted, WaveDone,
     RetriesDone, StartNode, callVars
<1>10. ASSUME Crash \/ FlowDies \/ ResumeFlow PROVE stack' = <<>>
  BY <1>10 DEF Crash, FlowDies, Gone, ResumeFlow
<1> QED
  BY <1>3, <1>4, <1>6, <1>7, <1>8, <1>9, <1>10, MovedStack, StepKinds

LEMMA StepTasked ==
  ASSUME Typed, ExecutorNext
  PROVE  Tasked'
<1>1. /\ UNCHANGED graph /\ Tasked /\ RowsTyped
      /\ Node' = Node /\ LLM' = LLM /\ \A n : Type(n)' = Type(n)
  BY GraphStays DEF Typed, Node, LLM, Type
<1>2. UNCHANGED <<batch, restored>> => New' = New
  BY <1>1 DEF New
<1>3. CASE Steady /\ UNCHANGED <<failed, stack>>
  BY <1>1, <1>2, <1>3 DEF Steady, Tasked
<1>4. CASE CallStep
  <2>1. Steady /\ pc \in {"instants", "retrying"}
    BY <1>4, CallsSteady
  <2> QED
    BY <1>1, <2>1 DEF Steady, Tasked
<1>5. CASE Execute
  BY <1>1, <1>5 DEF Execute, callVars, Tasked
<1>6. CASE EnterWave
  BY <1>1, <1>6 DEF EnterWave, Finish, callVars, Tasked
<1>7. CASE InstantsDone
  <2>1. CASE failed
    BY <1>1, <1>7, <2>1 DEF InstantsDone, Finish, callVars, Tasked
  <2>2. CASE ~ failed
    <3>1. pc' = "starting" /\ todo' = New' /\ stack' = <<>> /\ UNCHANGED phase
      BY <1>1, <1>2, <1>7, <2>2 DEF InstantsDone, callVars, flowVars, New
    <3> QED
      BY <1>1, <3>1 DEF Tasked
  <2> QED
    BY <2>1, <2>2
<1>8. CASE NodesStarted
  <2>1. CASE failed
    BY <1>1, <1>8, <2>1 DEF NodesStarted, Finish, callVars, Tasked
  <2>2. CASE ~ failed
    <3>1. /\ pc = "starting" /\ pc' = "waiting" /\ todo = {} /\ New' = New
          /\ UNCHANGED <<phase, task, stack>>
      BY <1>2, <1>8, <2>2 DEF NodesStarted, callVars, flowVars, nodeVars
    <3> QED
      BY <1>1, <2>2, <3>1 DEF Tasked
  <2> QED
    BY <2>1, <2>2
<1>9. CASE WaveDone
  <2>1. /\ pc = "waiting" /\ pc' = "retrying" /\ UNCHANGED <<phase, stack>>
        /\ \A n \in todo' : Type(n) = "checker"
    BY <1>9 DEF WaveDone, callVars
  <2> QED
    BY <1>1, <2>1 DEF Tasked
<1>10. CASE RetriesDone
  BY <1>1, <1>10 DEF RetriesDone, Finish, callVars, Tasked
<1>11. ASSUME NEW n \in Node, RunInstant(n)
       PROVE  Tasked'
  BY <1>1, <1>11 DEF RunInstant, Tasked
<1>12. ASSUME NEW n \in Node, StartNode(n)
       PROVE  Tasked'
  <2>1. /\ pc = "starting" /\ UNCHANGED <<pc, phase, stack>> /\ New' = New
        /\ todo' = todo \ {n}
    BY <1>2, <1>12 DEF StartNode, callVars, flowVars
  <2>2. \/ failed'
        \/ task' = [task EXCEPT ![n] = NewId] /\ UNCHANGED failed
    BY <1>12 DEF StartNode
  <2>3. NewId # 0 /\ task \in [Node -> 0 .. Len(rows)]
    <3>1. Len(rows) \in Nat
      BY <1>1 DEF RowsTyped
    <3> QED
      BY <1>1, <3>1 DEF NewId, RowsTyped
  <2>4. ASSUME failed \/ \A m \in New \ todo : task[m] # 0
        PROVE  failed' \/ \A m \in New' \ todo' : task'[m] # 0
    <3>1. New \subseteq Node
      BY DEF New, LLM
    <3>2. ASSUME task' = [task EXCEPT ![n] = NewId], ~ failed
          PROVE  \A m \in New' \ todo' : task'[m] # 0
      BY <2>1, <2>3, <2>4, <3>1, <3>2
    <3> QED
      BY <2>2, <2>4, <3>2
  <2> QED
    BY <1>1, <2>1, <2>4 DEF Tasked
<1>13. ASSUME NEW n \in Node, RetryNode(n)
       PROVE  Tasked'
  <2>1. /\ pc = "retrying" /\ UNCHANGED <<pc, phase>> /\ todo' = todo \ {n}
    BY <1>13 DEF RetryNode
  <2> QED
    BY <1>1, <2>1 DEF Tasked
<1>14. CASE Crash \/ FlowDies
  BY <1>1, <1>14 DEF Crash, FlowDies, Gone, Tasked
<1>15. CASE ResumeFlow
  BY <1>1, <1>15 DEF ResumeFlow, Tasked
<1>16. CASE AsideStep
  BY <1>3, <1>16, AsidesSteady
<1> QED
  BY <1>4, <1>5, <1>6, <1>7, <1>8, <1>9, <1>10, <1>11, <1>12, <1>13, <1>14,
     <1>15, <1>16, StepKinds

LEMMA TypedStart == ExecutorInit => Typed
<1> SUFFICES ASSUME ExecutorInit PROVE Typed
  OBVIOUS
<1>1. Layout /\ graph \in Graphs /\ Cardinality(Node) \in Nat
  BY LayoutStart, Wired DEF Layout
<1>2. NodesTyped
  BY <1>1 DEF ExecutorInit, NodesTyped
<1>3. RowsTyped
  BY DEF ExecutorInit, RowsTyped
<1>4. Stack(stack) /\ Tasked
  BY DEF ExecutorInit, Stack, Tasked
<1> QED
  BY <1>1, <1>2, <1>3, <1>4 DEF Typed

LEMMA TypedStep == Typed /\ ExecutorNext => Typed'
BY GraphStays, StepNodesTyped, StepRowsTyped, StepStack, StepTasked DEF Typed

LEMMA TypedStutter == Typed /\ UNCHANGED graphVars => Typed'
<1> SUFFICES ASSUME Typed, UNCHANGED graphVars PROVE Typed'
  OBVIOUS
<1>1. Layout'
  BY LayoutStutter DEF Typed
<1>2. /\ UNCHANGED <<graph, level, results, skipped, dropped, task, rows, phase,
                     pc, wave, batch, todo, failed, stack, wait, lost, restored,
                     stray>>
      /\ DOMAIN rows \subseteq DOMAIN rows'
  BY DEF graphVars, nodeVars, loopVars, callVars, waitVars, flowVars
<1>3. /\ Node' = Node /\ LLM' = LLM /\ Rows' = Rows /\ New' = New
      /\ \A n : Type(n)' = Type(n)
  BY <1>2 DEF Node, LLM, Rows, New, Type
<1>4. NodesTyped' /\ RowsTyped' /\ Tasked'
  BY <1>2, <1>3 DEF Typed, NodesTyped, RowsTyped, Tasked
<1>5. Stack(stack)'
  <2>1. PICK t : t = stack
    OBVIOUS
  <2>2. Stack(t)'
    BY <1>2, <2>1, FramesKept DEF Typed
  <2> QED
    BY <1>2, <2>1, <2>2 DEF Stack
<1> QED
  BY <1>1, <1>4, <1>5 DEF Typed

LEMMA TypedAlways == ExecutorSpec => []Typed
<1>1. Typed /\ [ExecutorNext]_graphVars => Typed'
  BY TypedStep, TypedStutter
<1> QED
  BY <1>1, TypedStart, PTL DEF ExecutorSpec

(* Levels, results, rows and tasks stay what they are taken for, and a wait *)
(* is for tasks that exist (ExecutorTypeOK).                               *)
THEOREM ExecutorTyped == ExecutorSpec => []ExecutorTypeOK
<1>1. Typed => ExecutorTypeOK
  <2> SUFFICES ASSUME Typed PROVE ExecutorTypeOK
    OBVIOUS
  <2>1. \A t \in DOMAIN rows : rows[t] \in Rows
    BY DEF Typed, RowsTyped
  <2>2. \A t \in DOMAIN rows : /\ rows[t].status \in RowStatus
                               /\ rows[t].text \in Text \cup {NoText}
    BY <2>1 DEF Rows
  <2> QED
    BY <2>2 DEF Typed, NodesTyped, RowsTyped, Tasked, ExecutorTypeOK
<1> QED
  BY <1>1, TypedAlways, PTL
-----------------------------------------------------------------------------
(* Progress of the waves.  A node of an earlier wave is done or skipped; in *)
(* the wave itself, a node is to be handled, is being handled or is done;   *)
(* unless the flow failed, or a user continued a task early.                *)
Early == "early" \in happened

Handled(n) ==
  IF n \in LLM
  THEN task[n] # 0 /\ rows[task[n]].status = "completed"
  ELSE n \in DOMAIN results \/ Type(n) = "unknown"

Settled(n) == n \in skipped \/ Handled(n)

InLoop == {"instants", "starting", "waiting", "retrying"}

(* The outermost call is one for an instant node of the wave, and each call *)
(* is for a node of the wave or for one that runs again.                    *)
CallsFrom(s, inst, base, nodes) ==
  /\ s # <<>> => Last(s).op # "rerun"
  /\ inst /\ s # <<>> => Last(s).node \in base
  /\ inst => \A i \in DOMAIN s : s[i].node \in nodes

Calls == CallsFrom(stack, pc = "instants", (batch \cap Instant) \ todo,
                   redone \cup batch)

(* What was heard of a task is so, unless it was continued early.           *)
Told ==
  \A t, event : <<t, event>> \in heard =>
    /\ t \in DOMAIN rows
    /\ event = "failed" => rows[t].status \in Ended
    /\ event = "completed" => Early \/ rows[t].status \in {"completed", "awaiting_input"}

(* A revision that has not ended is waited for.                             *)
Revisions ==
  Early \/ \A t \in DOMAIN rows :
              rows[t].role = "revision" /\ rows[t].status \notin Ended =>
                 t \in wait /\ Inside("revising")

(* The nodes of the wave.                                                   *)
Batch ==
  /\ pc = "new" => wave = 1
  /\ pc \in InLoop => \A n \in Node : /\ level[n] = wave => n \in batch \cup skipped
                                      /\ n \in batch => level[n] = wave
  /\ pc = "instants" => todo \subseteq batch \cap Instant
  /\ pc = "starting" => todo \subseteq New
  /\ \A n \in restored : n \in LLM /\ Handled(n)

Before ==
  pc \in InLoop \cup {"wave"} =>
    \/ Early
    \/ failed /\ pc \notin {"starting", "waiting"}
    \/ \A n \in Node : level[n] < wave => Settled(n)

(* Instant nodes that are to have a result: all of a type that is known.    *)
Plain == {n \in Instant : Type(n) # "unknown"}

InWave ==
  /\ pc = "instants" =>
       \/ failed
       \/ \A n \in batch \cap Plain :
            n \in todo \cup DOMAIN results \/ (stack # <<>> /\ Last(stack).node = n)
  /\ pc \in {"starting", "waiting", "retrying"} =>
       batch \cap Plain \subseteq DOMAIN results
  /\ pc = "waiting" => \A n \in New : Early \/ task[n] \in wait \cup lost \/ Handled(n)
  /\ pc = "retrying" => \A n \in New : Early \/ failed \/ Handled(n)

Over ==
  phase = "complete" => pc = "over" /\ (Early \/ \A n \in Node : Settled(n))

(* A node of the wave that is skipped all the same is below one that ran    *)
(* again.                                                                   *)
Again ==
  pc \in {"instants", "starting"} =>
    \A n \in batch \cap skipped : \E d \in redone : n \in Below({d})

Sound == /\ Typed /\ Calls /\ Told /\ Revisions /\ Batch /\ Before /\ InWave
         /\ Over /\ Again
-----------------------------------------------------------------------------
(* Levels.                                                                 *)
LEMMA LevelsStart ==
  ASSUME graph \in Graphs, NEW lv, Layers(lv)
  PROVE  \A n \in Node :
           /\ lv[n] \in Nat \ {0}
           /\ \A k \in Nat \ {0} : (\A f \in Feeders(n) : lv[f] < k) => lv[n] <= k
<1>1. lv \in [Node -> 0 .. Cardinality(Node)] /\ Cardinality(Node) \in Nat
  BY Wired DEF Layers
<1> SUFFICES ASSUME NEW n \in Node
             PROVE  /\ lv[n] \in Nat \ {0}
                    /\ \A k \in Nat \ {0} : (\A f \in Feeders(n) : lv[f] < k) => lv[n] <= k
  OBVIOUS
<1> DEFINE S == {0} \cup {lv[g] : g \in Feeders(n)}
<1>2. S \subseteq Nat /\ S # {} /\ \A k \in S : k <= Cardinality(Node)
  BY <1>1, Neighbours
<1>3. lv[n] = Max(S) + 1
  BY DEF Layers, Deepest
<1>4. \A k \in Nat \ {0} : (\A f \in Feeders(n) : lv[f] < k) => \A l \in S : l < k
  OBVIOUS
<1> HIDE DEF S
<1>5. Max(S) \in S /\ \A k \in S : k <= Max(S)
  BY <1>1, <1>2, GreatestNatural
<1>6. Max(S) \in Nat
  BY <1>2, <1>5
<1>7. ASSUME NEW k \in Nat \ {0}, \A f \in Feeders(n) : lv[f] < k
      PROVE  lv[n] <= k
  <2>1. Max(S) < k
    BY <1>4, <1>5, <1>7
  <2> QED
    BY <1>3, <1>6, <2>1
<1> QED
  BY <1>3, <1>6, <1>7

(* No wave is empty below the last one.                                    *)
LEMMA NoGap ==
  ASSUME graph \in Graphs, Layers(level), wave \in Nat \ {0}, InLevel(wave) = {}
  PROVE  \A n \in Node : level[n] < wave
<1> DEFINE S == {n \in Node : ~ (level[n] < wave)}
<1>1. level \in [Node -> Nat]
  BY LayersRise
<1> SUFFICES ASSUME S # {} PROVE FALSE
  OBVIOUS
<1>2. S \subseteq Node
  OBVIOUS
<1>3. PICK n \in S : Feeders(n) \cap S = {}
  BY <1>2, Lowest
<1>4. \A f \in Feeders(n) : level[f] < wave
  BY <1>3, Neighbours
<1>5. level[n] <= wave /\ level[n] \in Nat
  BY <1>4, LevelsStart
<1>6. level[n] = wave
  BY <1>3, <1>5
<1> QED
  BY <1>3, <1>6 DEF InLevel

(* Whatever a node skips is below it, and so in a later wave.              *)
LEMMA MarksHigher ==
  ASSUME graph \in Graphs, Layers(level), NEW d \in Node,
         NEW roots \in SUBSET Targets(d), NEW n \in roots \cup Pruned(roots)
  PROVE  n \in Below({d}) /\ n \in Node /\ level[d] < level[n]
<1>1. /\ level \in [Node -> Nat]
      /\ \A m \in Node : \A f \in Feeders(m) : level[f] < level[m]
  BY LayersRise
<1>2. \A m \in Node : /\ Targets(m) \subseteq Node
                      /\ \A t \in Targets(m) : level[m] < level[t]
  BY <1>1, Neighbours
<1>3. ASSUME NEW s \in SUBSET Node, \A m \in s \cup {d} : Targets(m) \subseteq s
      PROVE  n \in s
  <2>1. roots \subseteq s
    BY <1>3
  <2>2. CASE n \in Below(roots)
    <3>1. \A m \in s \cup roots : Targets(m) \subseteq s
      BY <1>3, <2>1
    <3> QED
      BY <2>2, <3>1 DEF Below
  <2> QED
    BY <2>1, <2>2, PrunedStuck
<1> DEFINE H == {m \in Node : level[d] < level[m]}
<1>4. \A m \in H \cup {d} : Targets(m) \subseteq H
  <2> SUFFICES ASSUME NEW m \in H \cup {d}, NEW t \in Targets(m)
               PROVE  t \in H
    OBVIOUS
  <2>1. m \in Node /\ t \in Node /\ level[m] < level[t]
    BY <1>2
  <2> QED
    BY <1>1, <2>1
<1>5. n \in H
  <2> HIDE DEF H
  <2>1. H \in SUBSET Node
    BY DEF H
  <2> QED
    BY <1>3, <1>4, <2>1
<1>6. n \in Node \ {d}
  BY <1>1, <1>5
<1> QED
  BY <1>3, <1>5, <1>6 DEF Below
-----------------------------------------------------------------------------
(* What only grows, except when the flow is resumed.                       *)
LEMMA Happening == ASSUME NEW kind, Happens(kind) PROVE happened \subseteq happened'
BY DEF Happens

LEMMA StepHappened ==
  ASSUME ExecutorNext
  PROVE  happened \subseteq happened'
<1>1. ASSUME NEW n, NEW rest, ExecuteInstantNode(n, rest)
      PROVE  happened \subseteq happened'
  BY <1>1, Happening DEF ExecuteInstantNode, ExecuteFanOut, ExecuteText,
     ExecuteRaises, ExecuteConditional, ExecuteGenerator, ExecutePlanApplier,
     ExecuteUnknown, ExecuteWaiting, Keep, Apply
<1>2. ASSUME NEW l, StartRevision(l)
      PROVE  happened \subseteq happened'
  BY <1>2, Happening DEF StartRevision
<1>3. ASSUME NEW n \in Node, RunInstant(n) \/ StartNode(n) \/ RetryNode(n)
      PROVE  happened \subseteq happened'
  BY <1>1, <1>3, Happening DEF RunInstant, StartNode, RetryNode
<1>4. CASE LoopTurn \/ RetryTurn
  BY <1>2, <1>4, Happening DEF LoopTurn, RetryTurn
<1>5. CASE RerunNode
  BY <1>1, <1>5 DEF RerunNode
<1>6. CASE \/ StartRecheck \/ ItemStarts \/ UserCancels \/ Crash \/ FlowDies
           \/ ResumeFlow
  BY <1>6, Happening DEF StartRecheck, ItemStarts, UserCancels, Crash, FlowDies,
     ResumeFlow
<1>7. CASE PlanWakes
  BY <1>7 DEF PlanWakes, Apply
<1>8. ASSUME NEW t \in DOMAIN rows, RowStep(t)
      PROVE  happened \subseteq happened'
  BY <1>8, Happening DEF RowStep, RowEnds, RowCompletes, TurnEnds, RowFails,
     RowRequeued, RowStopped, RowContinued, Turned
<1>9. CASE \/ Execute \/ EnterWave \/ InstantsDone \/ NodesStarted \/ WaitWakes
           \/ WaveDone \/ RetriesDone \/ GateWakes \/ RevisionDone \/ RerunDone
           \/ RecheckDone \/ ItemsDone \/ StrayStarts \/ UserAnswers
  BY <1>9 DEF Execute, EnterWave, InstantsDone, NodesStarted, WaitWakes,
     WaveDone, RetriesDone, GateWakes, RevisionDone, RerunDone, RecheckDone,
     ItemsDone, StrayStarts, UserAnswers
<1> QED
  BY <1>3, <1>4, <1>5, <1>6, <1>7, <1>8, <1>9 DEF ExecutorNext, ExecutorStep, RowStep

(* Nodes are skipped by what a call is for, or by what runs again.          *)
LEMMA CallMarks ==
  ASSUME Typed, ExecutorNext, CallStep
  PROVE  \/ SkipNothing
         \/ \E d \in {Caller.node} \cup redone' :
               d \in Node /\ \E roots \in SUBSET Targets(d) : MarkSkipped(roots)
<1>1. Caller.node \in Node /\ graph \in Graphs
  BY CallsSteady, CallerTyped DEF Typed, Layout
<1>2. CASE GateWakes
  <2>1. SkipNothing \/ \E taken : MarkSkipped(Port(Caller.node, 3 - taken)
                                                \ Port(Caller.node, taken))
    BY <1>2 DEF GateWakes
  <2>2. \A p, q : Port(Caller.node, p) \ Port(Caller.node, q)
                    \in SUBSET Targets(Caller.node)
    BY <1>1, Neighbours
  <2> QED
    BY <1>1, <2>1, <2>2
<1>3. CASE LoopTurn
  <2>1. SkipNothing \/ \E port : MarkSkipped(Port(Caller.node, port))
    BY <1>3 DEF LoopTurn, SkipNothing
  <2>2. \A p : Port(Caller.node, p) \in SUBSET Targets(Caller.node)
    BY <1>1, Neighbours
  <2> QED
    BY <1>1, <2>1, <2>2
<1>4. CASE RerunNode
  <2>1. ASSUME NEW n \in Node, NEW rest, ExecuteInstantNode(n, rest)
        PROVE  SkipNothing \/ \E roots \in SUBSET Targets(n) : MarkSkipped(roots)
    BY <2>1, InstantEffects DEF InstantDone, InstantRaises, InstantWaits, MarksBelow
  <2> QED
    BY <1>4, <2>1, RerunMoves
<1>5. CASE \/ PlanWakes \/ RetryTurn \/ RevisionDone \/ RerunDone
           \/ StartRecheck \/ RecheckDone \/ ItemStarts \/ ItemsDone
  BY <1>5 DEF PlanWakes, RetryTurn, RevisionDone, RerunDone,
       StartRecheck, RecheckDone, ItemStarts, ItemsDone, nodeVars, SkipNothing
<1> QED
  BY <1>2, <1>3, <1>4, <1>5 DEF CallStep

LEMMA StepGrows ==
  ASSUME Typed, ExecutorNext, ~ ResumeFlow
  PROVE  /\ skipped \subseteq skipped' /\ DOMAIN results \subseteq DOMAIN results'
         /\ restored' = restored /\ Node' = Node /\ LLM' = LLM
         /\ Instant' = Instant /\ Plain' = Plain
         /\ \A n : Type(n)' = Type(n)
<1>1. UNCHANGED graph /\ Layout
  BY GraphStays DEF Typed
<1>2. Node' = Node /\ LLM' = LLM /\ Instant' = Instant /\ \A n : Type(n)' = Type(n)
  BY <1>1 DEF Node, LLM, Instant, Type
<1>6. Plain' = Plain
  BY <1>2 DEF Plain
<1>3. DOMAIN results \subseteq DOMAIN results'
  <2>1. CASE WaveDone
    <3>1. pc = "waiting" /\ results' = Collected(New)
      BY <2>1 DEF WaveDone, New
    <3> QED
      BY <3>1, Collects
  <2> QED
    BY <2>1, StepResults, StoreKeeps
<1>4. restored' = restored
  <2>1. CASE CallStep \/ AsideStep
    BY <2>1, CallsSteady, AsidesSteady DEF Steady
  <2>2. CASE \/ Execute \/ EnterWave \/ InstantsDone \/ NodesStarted \/ WaveDone
             \/ RetriesDone
             \/ \E n \in Node : RunInstant(n) \/ StartNode(n) \/ RetryNode(n)
             \/ Crash \/ FlowDies
    BY <2>2 DEF Execute, EnterWave, InstantsDone, NodesStarted, WaveDone,
       RetriesDone, RunInstant, StartNode, RetryNode, Crash, FlowDies, Gone, flowVars
  <2> QED
    BY <2>1, <2>2, StepKinds
<1>5. skipped \subseteq skipped'
  <2>1. CASE CallStep
    BY <2>1, CallMarks DEF SkipNothing, MarkSkipped
  <2>2. CASE AsideStep
    BY <2>2, AsidesSteady
  <2>3. ASSUME NEW n \in Node, RunInstant(n)
        PROVE  skipped \subseteq skipped'
    BY <2>3, InstantEffects DEF RunInstant, InstantDone, InstantRaises,
       InstantWaits, MarksBelow, SkipNothing, MarkSkipped
  <2>4. CASE WaveDone
    BY <2>4 DEF WaveDone, MarkSkipped
  <2>5. CASE \/ Execute \/ EnterWave \/ InstantsDone \/ NodesStarted
             \/ RetriesDone \/ \E n \in Node : StartNode(n) \/ RetryNode(n)
             \/ Crash \/ FlowDies
    BY <2>5 DEF Execute, EnterWave, InstantsDone, NodesStarted, RetriesDone,
       StartNode, RetryNode, Crash, FlowDies, Gone, nodeVars
  <2> QED
    BY <2>1, <2>2, <2>3, <2>4, <2>5, StepKinds
<1> QED
  BY <1>2, <1>3, <1>4, <1>5, <1>6

(* What is done stays so, if the node is not started again.                *)
LEMMA DoneStays ==
  ASSUME Typed, ExecutorNext, ~ ResumeFlow, NEW n \in Node, task'[n] = task[n],
         Handled(n)
  PROVE  Handled(n)'
<1>1. CASE n \in LLM
  <2>1. task[n] # 0 /\ rows[task[n]].status = "completed"
    BY <1>1 DEF Handled
  <2>2. task[n] \in DOMAIN rows
    BY <2>1 DEF Typed, RowsTyped
  <2>3. rows'[task[n]] = rows[task[n]]
    BY <2>1, <2>2, GraphStays, RowsKept DEF Ended
  <2> QED
    BY <1>1, <2>1, <2>3, StepGrows DEF Handled
<1>2. CASE n \notin LLM
  BY <1>2, StepGrows DEF Handled
<1> QED
  BY <1>1, <1>2
-----------------------------------------------------------------------------
(* What is heard.                                                          *)
LEMMA RowHeard ==
  ASSUME Typed, NEW t \in DOMAIN rows, RowStep(t)
  PROVE  /\ \E r \in Rows :
              /\ r.role = rows[t].role /\ rows' = [rows EXCEPT ![t] = r]
              /\ \/ heard' = heard
                 \/ /\ heard' = heard \cup {<<t, "completed">>}
                    /\ r.status \in {"completed", "awaiting_input"}
                 \/ /\ heard' = heard \cup {<<t, "failed">>}
                    /\ r.status \in Ended
         /\ rows[t].status \notin Ended
         /\ rows[t].status = "awaiting_input" /\ <<t, "completed">> \in heard
              => "early" \in happened'
         /\ UNCHANGED <<wait, stack>>
<1>1. PICK r \in Rows : /\ r.node = rows[t].node /\ r.role = rows[t].role
                        /\ rows[t].status \notin Ended
                        /\ rows' = [rows EXCEPT ![t] = r]
  BY RowTurns DEF RowStep, RowTurned
<1>2. rows'[t] = r /\ rows[t] \in Rows
  BY <1>1 DEF Typed, RowsTyped
<1>3. rows'[t] = r /\ r.status = rows'[t].status
  BY <1>2
<1>4. UNCHANGED <<wait, stack>>
  BY DEF RowStep, RowEnds, RowCompletes, TurnEnds, RowFails, RowRequeued,
     RowStopped, RowContinued, Turned, callVars, waitVars
<1>5. ASSUME NEW status, NEW text, NEW event, Turned(t, status, text, event)
      PROVE  r.status = status /\ (heard' = heard \/ heard' = heard \cup {<<t, event>>})
  <2>1. rows' = [rows EXCEPT ![t].status = status, ![t].text = text]
    BY <1>5 DEF Turned
  <2>2. rows'[t].status = status
    BY <1>2, <2>1 DEF Rows
  <2> QED
    BY <1>3, <1>5, <2>2 DEF Turned
<1>6. CASE RowCompletes(t)
  <2>1. PICK text \in {{}, {"issue"}}, route \in 1 .. 2 :
                             rows' = [rows EXCEPT ![t].status = "completed",
                                     ![t].text = text, ![t].route = route]
    BY <1>6 DEF RowCompletes
  <2>2. rows'[t].status = "completed"
    BY <1>2, <2>1 DEF Rows
  <2>3. rows[t].status # "awaiting_input"
    BY <1>6 DEF RowCompletes
  <2>4. heard' = heard \/ heard' = heard \cup {<<t, "completed">>}
    BY <1>6 DEF RowCompletes
  <2> QED
    BY <1>1, <1>3, <1>4, <2>2, <2>3, <2>4
<1>7. CASE TurnEnds(t)
  <2>1. \E text : Turned(t, "awaiting_input", text, "completed")
    BY <1>7 DEF TurnEnds
  <2>2. rows[t].status # "awaiting_input"
    BY <1>7 DEF TurnEnds, Active
  <2> QED
    BY <1>1, <1>4, <1>5, <2>1, <2>2
<1>8. CASE RowFails(t) \/ RowRequeued(t) \/ RowStopped(t)
  <2>1. \E status \in Ended : \E text : Turned(t, status, text, "failed")
    BY <1>8 DEF RowFails, RowRequeued, RowStopped, Ended
  <2>2. rows[t].status # "awaiting_input"
    BY <1>8 DEF RowFails, RowRequeued, RowStopped, Active
  <2> QED
    BY <1>1, <1>4, <1>5, <2>1, <2>2
<1>9. CASE RowContinued(t)
  <2>1. heard' = heard
    BY <1>9 DEF RowContinued, waitVars
  <2>2. <<t, "completed">> \in heard => "early" \in happened'
    BY <1>9 DEF RowContinued, Happens
  <2> QED
    BY <1>1, <1>4, <2>1, <2>2
<1> QED
  BY <1>6, <1>7, <1>8, <1>9 DEF RowStep, RowEnds

(* The rows that steps other than those of rows and crashes add.           *)
RevisionStarted ==
  \E l : RowAdded(l, "revision") /\ wait' = {NewId} /\ Inside("revising")'

RowsGrow ==
  \/ UNCHANGED rows
  \/ \E n, role : RowAdded(n, role) /\ role # "revision"
  \/ RevisionStarted

LEMMA RevisionStarts ==
  ASSUME Typed, stack # <<>>, NEW n, NEW l \in NearestLLM(n), StartRevision(l)
  PROVE  RowsGrow /\ (heard' = {} \/ UNCHANGED <<heard, rows>>)
<1>1. CASE /\ StartTask(l, "revision") /\ WaitFor({NewId})
           /\ Replace(<<[Caller EXCEPT !.op = "revising", !.llm = l, !.row = NewId]>>)
  <2>1. /\ WaitFor({NewId})
        /\ Replace(<<[Caller EXCEPT !.op = "revising", !.llm = l, !.row = NewId]>>)
    BY <1>1
  <2>2. PICK f : f = [Caller EXCEPT !.op = "revising", !.llm = l, !.row = NewId]
    OBVIOUS
  <2>3. NewId \in Nat /\ l \in Node /\ Caller \in Frames /\ Tail(stack) \in Seq(Frames)
    BY Nearest, CallerTyped DEF NewId, Typed, RowsTyped, Stack
  <2>4. f \in Frames /\ f.op = "revising"
    BY <2>2, <2>3 DEF Frames, Ops
  <2>5. stack' = <<f>> \o Tail(stack)
    BY <2>1, <2>2 DEF Replace
  <2>6. <<f>> \o Tail(stack) # <<>> /\ Head(<<f>> \o Tail(stack)) = f
    BY <2>3, <2>4, Pushed
  <2>7. Inside("revising")'
    BY <2>4, <2>5, <2>6 DEF Inside
  <2> QED
    BY <1>1, <2>1, <2>3, <2>7 DEF RowsGrow, RevisionStarted, RowAdded, Roles,
       StartTask, WaitFor
<1>2. CASE UNCHANGED <<rows, waitVars>>
  BY <1>2 DEF RowsGrow, waitVars
<1> QED
  BY <1>1, <1>2 DEF StartRevision

LEMMA RowsGrows ==
  ASSUME Typed, ExecutorNext, ~ Crash, ~ \E t \in DOMAIN rows : RowStep(t)
  PROVE  RowsGrow /\ (heard' = {} \/ UNCHANGED heard)
<1>1. CASE LoopTurn \/ RetryTurn
  <2>1. stack # <<>>
    BY <1>1 DEF LoopTurn, RetryTurn, Inside
  <2>2. \/ UNCHANGED <<rows, waitVars>>
        \/ \E n : \E l \in NearestLLM(n) : StartRevision(l)
    BY <1>1 DEF LoopTurn, RetryTurn
  <2> QED
    BY <2>1, <2>2, RevisionStarts DEF RowsGrow, waitVars
<1>2. ASSUME NEW n \in Node, StartNode(n)
      PROVE  RowsGrow /\ UNCHANGED heard
  BY <1>2 DEF StartNode, StartTask, RowsGrow, RowAdded, Roles, waitVars
<1>3. CASE StartRecheck \/ ItemStarts
  <2>1. Caller.node \in Node
    BY <1>3, CallerTyped DEF StartRecheck, ItemStarts, Inside
  <2> QED
    BY <1>3, <2>1 DEF StartRecheck, ItemStarts, StartTask, RowsGrow, RowAdded,
       Roles, WaitFor, waitVars
<1>4. CASE StrayStarts
  <2>1. \E n \in Node : Type(n) = "fan_out"
    BY <1>4 DEF StrayStarts, Typed, RowsTyped
  <2>2. (CHOOSE n \in Node : Type(n) = "fan_out") \in Node
    BY <2>1
  <2> QED
    BY <1>4, <2>2 DEF StrayStarts, StartTask, RowsGrow, RowAdded, Roles, waitVars
<1>5. ASSUME NEW n, NEW rest, ExecuteInstantNode(n, rest)
       PROVE  UNCHANGED waitVars \/ WaitFor({})
  BY <1>5 DEF ExecuteInstantNode, ExecuteFanOut
<1>6. CASE RerunNode \/ \E n \in Node : RunInstant(n)
  <2>1. UNCHANGED waitVars \/ WaitFor({})
    BY <1>5, <1>6 DEF RerunNode, RunInstant
  <2>2. UNCHANGED rows
    BY <1>6 DEF RerunNode, RunInstant
  <2> QED
    BY <2>1, <2>2 DEF RowsGrow, waitVars, WaitFor
<1>7. CASE \/ Execute \/ EnterWave \/ InstantsDone \/ NodesStarted \/ WaitWakes
           \/ WaveDone \/ RetriesDone \/ GateWakes \/ PlanWakes \/ RevisionDone
           \/ RerunDone \/ RecheckDone \/ ItemsDone
           \/ \E n \in Node : RetryNode(n)
           \/ UserAnswers \/ UserCancels \/ FlowDies \/ ResumeFlow
  <2>1. UNCHANGED rows /\ (heard' = {} \/ UNCHANGED heard)
    BY <1>7 DEF Execute, EnterWave, InstantsDone, NodesStarted, WaitWakes,
       WaveDone, RetriesDone, GateWakes, PlanWakes, RevisionDone,
       RerunDone, RecheckDone, ItemsDone, RetryNode, UserAnswers,
       UserCancels, FlowDies, Gone, ResumeFlow, WaitFor, waitVars
  <2> QED
    BY <2>1 DEF RowsGrow
<1> QED
  BY <1>1, <1>2, <1>3, <1>4, <1>6, <1>7 DEF ExecutorNext, ExecutorStep, RowStep

LEMMA StepTold ==
  ASSUME Typed, Told, ExecutorNext
  PROVE  Told'
<1>1. /\ (Early => Early') /\ rows \in Seq(Rows) /\ DOMAIN rows \subseteq DOMAIN rows'
      /\ DOMAIN rows = 1 .. Len(rows) /\ Len(rows) \in Nat
  BY StepHappened, GraphStays DEF Early, Typed, RowsTyped
<1>0. (Early => Early') /\ DOMAIN rows \subseteq DOMAIN rows'
  BY <1>1
<1>2. CASE heard' = {}
  BY <1>2 DEF Told
<1>3. CASE UNCHANGED heard /\ \A t \in DOMAIN rows : rows'[t] = rows[t]
  <2> SUFFICES ASSUME NEW u, NEW event, <<u, event>> \in heard'
               PROVE  /\ u \in DOMAIN rows'
                      /\ event = "failed" => rows'[u].status \in Ended
                      /\ event = "completed" =>
                            Early' \/ rows'[u].status \in {"completed", "awaiting_input"}
    BY DEF Told
  <2>1. <<u, event>> \in heard
    BY <1>3
  <2>2. /\ u \in DOMAIN rows
        /\ event = "failed" => rows[u].status \in Ended
        /\ event = "completed" =>
              Early \/ rows[u].status \in {"completed", "awaiting_input"}
    BY <2>1 DEF Told
  <2>3. rows'[u] = rows[u]
    BY <1>3, <2>2
  <2> QED
    BY <1>0, <2>2, <2>3
<1>4. ASSUME NEW t \in DOMAIN rows, RowStep(t)
      PROVE  Told'
  <2>1. PICK r \in Rows :
              /\ rows' = [rows EXCEPT ![t] = r]
              /\ \/ heard' = heard
                 \/ /\ heard' = heard \cup {<<t, "completed">>}
                    /\ r.status \in {"completed", "awaiting_input"}
                 \/ /\ heard' = heard \cup {<<t, "failed">>}
                    /\ r.status \in Ended
    BY <1>4, RowHeard
  <2>2. /\ rows[t].status \notin Ended
        /\ rows[t].status = "awaiting_input" /\ <<t, "completed">> \in heard => Early'
    BY <1>4, RowHeard DEF Early
  <2>3. \A u \in DOMAIN rows : rows'[u] = IF u = t THEN r ELSE rows[u]
    BY <1>1, <2>1
  <2> SUFFICES ASSUME NEW u, NEW event, <<u, event>> \in heard'
               PROVE  /\ u \in DOMAIN rows'
                      /\ event = "failed" => rows'[u].status \in Ended
                      /\ event = "completed" =>
                            Early' \/ rows'[u].status \in {"completed", "awaiting_input"}
    BY DEF Told
  <2>4. CASE <<u, event>> \in heard
    <3>1. /\ u \in DOMAIN rows
          /\ event = "failed" => rows[u].status \in Ended
          /\ event = "completed" =>
                Early \/ rows[u].status \in {"completed", "awaiting_input"}
      BY <2>4 DEF Told
    <3>2. CASE u = t
      <4>1. u \in DOMAIN rows' /\ event # "failed"
        BY <1>0, <2>2, <3>1, <3>2
      <4>2. ASSUME event = "completed" PROVE Early'
        <5>1. Early \/ rows[t].status = "awaiting_input"
          BY <2>2, <3>1, <3>2, <4>2 DEF Ended
        <5>2. <<t, "completed">> \in heard
          BY <2>4, <3>2, <4>2
        <5> QED
          BY <1>0, <2>2, <5>1, <5>2
      <4> QED
        BY <4>1, <4>2
    <3>3. CASE u # t
      <4>1. rows'[u] = rows[u]
        BY <2>3, <3>1, <3>3
      <4> QED
        BY <1>0, <3>1, <4>1
    <3> QED
      BY <3>2, <3>3
  <2>5. CASE <<u, event>> \notin heard
    <3>1. u = t /\ \/ event = "completed" /\ r.status \in {"completed", "awaiting_input"}
                   \/ event = "failed" /\ r.status \in Ended
      BY <2>1, <2>5
    <3>2. rows'[u] = r /\ u \in DOMAIN rows'
      BY <1>0, <1>4, <2>3, <3>1
    <3> QED
      BY <3>1, <3>2
  <2> QED
    BY <2>4, <2>5
<1>5. CASE Crash
  BY <1>2, <1>5 DEF Crash, Gone
<1>6. CASE RowsGrow
  <2>1. \A t \in DOMAIN rows : rows'[t] = rows[t]
    BY <1>1, <1>6 DEF RowsGrow, RevisionStarted, RowAdded
  <2> QED
    BY <1>2, <1>3, <1>4, <1>5, <2>1, RowsGrows
<1> QED
  BY <1>4, <1>5, <1>6, RowsGrows
-----------------------------------------------------------------------------
(* Revisions.                                                              *)
Quiet == Early \/ \A t \in DOMAIN rows :
                     rows[t].role = "revision" => rows[t].status \in Ended

LEMMA QuietEnough ==
  ASSUME Revisions, ~ Inside("revising") \/ wait = {}
  PROVE  Quiet
BY DEF Revisions, Quiet

LEMMA QuietStays ==
  ASSUME Typed, ExecutorNext, Quiet, RowsGrow
  PROVE  Revisions'
<1>1. /\ (Early => Early') /\ rows \in Seq(Rows)
      /\ DOMAIN rows = 1 .. Len(rows) /\ Len(rows) \in Nat
  BY StepHappened DEF Early, Typed, RowsTyped
<1>2. CASE UNCHANGED rows
  BY <1>1, <1>2 DEF Quiet, Revisions
<1>3. ASSUME NEW n, NEW role, RowAdded(n, role)
      PROVE  /\ DOMAIN rows' = DOMAIN rows \cup {NewId}
             /\ \A t \in DOMAIN rows : rows'[t] = rows[t]
             /\ rows'[NewId].role = role
  <2>1. rows' = Append(rows, NewRow(n, role)) /\ NewRow(n, role).role = role
    BY <1>3 DEF RowAdded, NewRow
  <2> QED
    BY <1>1, <2>1 DEF NewId
<1>4. ASSUME NEW n, NEW role, RowAdded(n, role), role # "revision"
      PROVE  Revisions'
  BY <1>1, <1>3, <1>4 DEF Quiet, Revisions
<1>5. CASE RevisionStarted
  <2>1. PICK l : RowAdded(l, "revision") /\ wait' = {NewId} /\ Inside("revising")'
    BY <1>5 DEF RevisionStarted
  <2>2. DOMAIN rows' = DOMAIN rows \cup {NewId} /\ \A t \in DOMAIN rows : rows'[t] = rows[t]
    BY <1>3, <2>1
  <2> QED
    BY <1>1, <2>1, <2>2 DEF Quiet, Revisions
<1> QED
  BY <1>2, <1>4, <1>5 DEF RowsGrow

LEMMA StepRevisions ==
  ASSUME Typed, Told, Revisions, ExecutorNext
  PROVE  Revisions'
<1>1. /\ (Early => Early') /\ rows \in Seq(Rows)
      /\ DOMAIN rows = 1 .. Len(rows) /\ Len(rows) \in Nat
      /\ stack # <<>> => pc \in {"instants", "retrying"}
  BY StepHappened DEF Early, Typed, RowsTyped, Tasked
<1>7. \A t \in DOMAIN rows : rows[t] \in Rows
  BY <1>1
<1>2. CASE Crash
  <2>1. ASSUME NEW t \in DOMAIN rows'
        PROVE  rows'[t].status \in Ended
    <3>1. /\ t \in DOMAIN rows
          /\ rows'[t] = IF Active(t) \/ rows[t].status = "awaiting_input"
                        THEN [rows[t] EXCEPT !.status = "failed", !.text = {"FAILED"}]
                        ELSE rows[t]
      BY <1>2, <2>1 DEF Crash
    <3>2. rows[t] \in Rows
      <4>1. t \in DOMAIN rows
        BY <3>1
      <4> QED
        BY <1>7, <4>1
    <3> QED
      BY <3>1, <3>2 DEF Rows, RowStatus, Active, Ended
  <2> QED
    BY <2>1 DEF Revisions
<1>3. ASSUME NEW t \in DOMAIN rows, RowStep(t)
      PROVE  Revisions'
  <2>1. PICK r \in Rows : r.role = rows[t].role /\ rows' = [rows EXCEPT ![t] = r]
    BY <1>3, RowHeard
  <2>2. UNCHANGED <<wait, stack>> /\ rows[t].status \notin Ended
    BY <1>3, RowHeard
  <2>3. /\ DOMAIN rows' = DOMAIN rows
        /\ \A u \in DOMAIN rows : rows'[u] = IF u = t THEN r ELSE rows[u]
    BY <1>1, <2>1
  <2>4. Inside("revising")' = Inside("revising")
    BY <2>2 DEF Inside
  <2> QED
    BY <1>1, <2>1, <2>2, <2>3, <2>4 DEF Revisions
<1>4. CASE WaitWakes
  <2> DEFINE told == {t \in wait : /\ <<t, "completed">> \in heard
                                   /\ rows[t].status # "awaiting_input"}
             fell == {t \in wait \ told : <<t, "failed">> \in heard}
             polled == {t \in wait \ (told \cup fell) : rows[t].status \in Terminal}
  <2>1. /\ wait' = wait \ (told \cup fell \cup polled) /\ UNCHANGED <<rows, stack>>
    BY <1>4 DEF WaitWakes, callVars
  <2>2. ASSUME NEW t \in told \cup fell \cup polled, ~ Early
        PROVE  rows[t].status \in Ended
    BY <2>2 DEF Told, Ended, Terminal
  <2> HIDE DEF told, fell, polled
  <2>3. Inside("revising")' = Inside("revising")
    BY <2>1 DEF Inside
  <2> QED
    BY <1>1, <2>1, <2>2, <2>3 DEF Revisions
<1>5. CASE StrayStarts \/ UserAnswers \/ UserCancels
  <2>1. UNCHANGED <<wait, stack>>
    BY <1>5 DEF StrayStarts, UserAnswers, UserCancels, waitVars, callVars
  <2>2. Inside("revising")' = Inside("revising")
    BY <2>1 DEF Inside
  <2>3. CASE UserAnswers \/ UserCancels
    <3>1. UNCHANGED rows
      BY <2>3 DEF UserAnswers, UserCancels
    <3> QED
      BY <1>1, <2>1, <2>2, <3>1 DEF Revisions
  <2>4. CASE StrayStarts
    <3>1. PICK n : rows' = Append(rows, NewRow(n, "item"))
      BY <2>4 DEF StrayStarts, StartTask
    <3>2. NewRow(n, "item").role = "item"
      BY DEF NewRow
    <3>3. /\ DOMAIN rows' = DOMAIN rows \cup {NewId}
          /\ \A t \in DOMAIN rows : rows'[t] = rows[t]
          /\ rows'[NewId].role = "item"
      BY <1>1, <3>1, <3>2 DEF NewId
    <3> QED
      BY <1>1, <2>1, <2>2, <3>3 DEF Revisions
  <2> QED
    BY <1>5, <2>3, <2>4
<1>6. CASE ~ Crash /\ ~ AsideStep
  <2>1. RowsGrow
    BY <1>6, RowsGrows DEF AsideStep
  <2>2. CASE CallStep
    <3>1. ~ Inside("revising") \/ wait = {}
      BY <2>2 DEF CallStep, GateWakes, PlanWakes, LoopTurn, RetryTurn, RevisionDone,
         RerunNode, RerunDone, StartRecheck, RecheckDone, ItemStarts, ItemsDone, Inside
    <3> QED
      BY <2>1, <3>1, QuietEnough, QuietStays
  <2>3. CASE \/ Execute \/ EnterWave \/ InstantsDone \/ NodesStarted \/ WaveDone
             \/ RetriesDone
             \/ \E n \in Node : RunInstant(n) \/ StartNode(n) \/ RetryNode(n)
             \/ FlowDies \/ ResumeFlow
    <3>1. stack = <<>>
      BY <1>1, <2>3 DEF Execute, EnterWave, InstantsDone, NodesStarted, WaveDone,
         RetriesDone, RunInstant, StartNode, RetryNode, FlowDies, ResumeFlow
    <3>2. ~ Inside("revising")
      BY <3>1 DEF Inside
    <3> QED
      BY <2>1, <3>2, QuietEnough, QuietStays
  <2> QED
    BY <1>6, <2>2, <2>3, StepKinds
<1> QED
  BY <1>2, <1>3, <1>4, <1>5, <1>6 DEF AsideStep
-----------------------------------------------------------------------------
(* Calls.                                                                  *)
LEMMA CallsPop ==
  ASSUME NEW S, NEW s \in Seq(S), s # <<>>, NEW inst, NEW base, NEW nodes,
         CallsFrom(s, inst, base, nodes)
  PROVE  /\ CallsFrom(Tail(s), inst, base, nodes)
         /\ inst => Head(s).node \in nodes
         /\ Tail(s) = <<>> => Head(s).op # "rerun" /\ (inst => Head(s).node \in base)
<1>1. /\ Head(s) \in S /\ Tail(s) \in Seq(S) /\ s = <<Head(s)>> \o Tail(s)
      /\ Head(s) = s[1] /\ 1 \in DOMAIN s
      /\ \A i \in DOMAIN Tail(s) : i + 1 \in DOMAIN s /\ Tail(s)[i] = s[i + 1]
  BY Popped
<1>2. PICK f \in S : f = Head(s)
  BY <1>1
<1>3. PICK t \in Seq(S) : t = Tail(s)
  BY <1>1
<1>4. Last(<<f>> \o t) = IF t = <<>> THEN f ELSE Last(t)
  BY Pushed
<1>5. Last(s) = IF t = <<>> THEN f ELSE Last(t)
  BY <1>1, <1>2, <1>3, <1>4
<1>6. inst => f.node \in nodes /\ \A i \in DOMAIN t : t[i].node \in nodes
  <2> SUFFICES ASSUME inst PROVE f.node \in nodes /\ \A i \in DOMAIN t : t[i].node \in nodes
    OBVIOUS
  <2>1. \A i \in DOMAIN s : s[i].node \in nodes
    BY DEF CallsFrom
  <2> QED
    BY <1>1, <1>2, <1>3, <2>1
<1>7. CallsFrom(t, inst, base, nodes)
  BY <1>5, <1>6 DEF CallsFrom
<1>8. t = <<>> => f.op # "rerun" /\ (inst => f.node \in base)
  BY <1>5 DEF CallsFrom
<1> QED
  BY <1>2, <1>3, <1>6, <1>7, <1>8

LEMMA CallsPush ==
  ASSUME NEW S, NEW s \in Seq(S), NEW f \in S, NEW inst, NEW base, NEW nodes,
         CallsFrom(s, inst, base, nodes), inst => f.node \in nodes,
         s = <<>> => f.op # "rerun" /\ (inst => f.node \in base)
  PROVE  CallsFrom(<<f>> \o s, inst, base, nodes)
<1>1. PICK q : q = <<f>> \o s
  OBVIOUS
<1>2. /\ \A i \in DOMAIN q : q[i] = f \/ \E j \in DOMAIN s : q[i] = s[j]
      /\ Last(q) = IF s = <<>> THEN f ELSE Last(s)
  BY <1>1, Pushed
<1>3. inst => \A i \in DOMAIN q : q[i].node \in nodes
  BY <1>2 DEF CallsFrom
<1>4. CallsFrom(q, inst, base, nodes)
  BY <1>2, <1>3 DEF CallsFrom
<1> QED
  BY <1>1, <1>4

LEMMA CallsGrow ==
  ASSUME NEW s, NEW inst, NEW base, NEW nodes, NEW more, nodes \subseteq more,
         CallsFrom(s, inst, base, nodes)
  PROVE  CallsFrom(s, inst, base, more)
BY DEF CallsFrom

LEMMA CallsMoved ==
  ASSUME Typed, Calls, ExecutorNext, CallStep
  PROVE  Calls'
<1>1. /\ Steady /\ CallMove /\ stack # <<>> /\ Caller \in Frames
      /\ Stack(Tail(stack)) /\ stack = <<Caller>> \o Tail(stack)
      /\ redone \subseteq redone'
  BY CallsSteady
<1>2. stack \in Seq(Frames) /\ Tail(stack) \in Seq(Frames) /\ UNCHANGED graph
  BY <1>1 DEF Typed, Stack, Steady
<1>3. PICK inst, base, nodes, more, s :
        /\ inst = (pc = "instants") /\ base = (batch \cap Instant) \ todo
        /\ nodes = redone \cup batch /\ more = redone' \cup batch
        /\ s = Tail(stack)
  OBVIOUS
<1>4. CallsFrom(stack, inst, base, nodes) /\ nodes \subseteq more
  BY <1>1, <1>3 DEF Calls
<1>5. /\ CallsFrom(s, inst, base, nodes)
      /\ inst => Caller.node \in nodes
      /\ s = <<>> => Caller.op # "rerun" /\ (inst => Caller.node \in base)
  BY <1>1, <1>2, <1>3, <1>4, CallsPop DEF Caller
<1>6. CallsFrom(s, inst, base, more) /\ (inst => Caller.node \in more)
  BY <1>4, <1>5, CallsGrow
<1>7. Calls' <=> CallsFrom(stack', inst, base, more)
  BY <1>1, <1>2, <1>3 DEF Calls, Steady, Instant, LLM, Node, Type
<1>8. CASE Raises
  <2>1. CallsFrom(<<>>, inst, base, more)
    BY DEF CallsFrom
  <2> QED
    BY <1>7, <1>8, <2>1 DEF Raises
<1>9. CASE stack' = Tail(stack)
  BY <1>3, <1>6, <1>7, <1>9
<1>10. ASSUME NEW f \in Frames, f.node = Caller.node,
              f.op = "rerun" => Caller.op = "rerun", stack' = <<f>> \o Tail(stack)
       PROVE  Calls'
  <2>1. CallsFrom(<<f>> \o s, inst, base, more)
    BY <1>2, <1>3, <1>5, <1>6, <1>10, CallsPush
  <2> QED
    BY <1>3, <1>7, <1>10, <2>1
<1>11. ASSUME NEW f \in Frames, NEW g \in Frames,
              f.node \in {Caller.node} \cup redone', g.node = Caller.node,
              g.op = "rerun" => Caller.op = "rerun",
              stack' = <<f>> \o (<<g>> \o Tail(stack))
       PROVE  Calls'
  <2>1. PICK t : t = <<g>> \o s
    OBVIOUS
  <2>2. CallsFrom(t, inst, base, more)
    BY <1>2, <1>3, <1>5, <1>6, <1>11, <2>1, CallsPush
  <2>3. t \in Seq(Frames) /\ t # <<>>
    BY <1>2, <1>3, <1>11, <2>1, Pushed
  <2>4. inst => f.node \in more
    BY <1>3, <1>6, <1>11
  <2>5. CallsFrom(<<f>> \o t, inst, base, more)
    BY <1>11, <2>2, <2>3, <2>4, CallsPush
  <2> QED
    BY <1>3, <1>7, <1>11, <2>1, <2>5
<1> QED
  BY <1>1, <1>8, <1>9, <1>10, <1>11 DEF CallMove

LEMMA StepCalls ==
  ASSUME Typed, Calls, Batch, ExecutorNext
  PROVE  Calls'
<1>1. UNCHANGED graph /\ Tasked /\ stack \in Seq(Frames)
  BY GraphStays DEF Typed, Stack
<1>2. Instant' = Instant /\ Node' = Node
  BY <1>1 DEF Instant, LLM, Node, Type
<1>3. CASE stack' = <<>>
  BY <1>3 DEF Calls, CallsFrom
<1>4. CASE AsideStep
  <2>1. UNCHANGED <<stack, pc, batch, todo, redone>>
    BY <1>4, AsidesSteady DEF Steady
  <2> QED
    BY <1>2, <2>1 DEF Calls
<1>5. ASSUME NEW n \in Node, RunInstant(n)
      PROVE  Calls'
  <2>1. /\ pc = "instants" /\ n \in todo /\ todo' = todo \ {n}
        /\ UNCHANGED <<pc, batch, redone>> /\ ExecuteInstantNode(n, <<>>)
    BY <1>5 DEF RunInstant
  <2>2. n \in (batch' \cap Instant') \ todo' /\ n \in redone' \cup batch'
    BY <1>2, <2>1 DEF Batch
  <2>3. \/ stack' = <<>>
        \/ \E f \in Frames : /\ f.op # "rerun" /\ f.node = n
                             /\ stack' = <<f>> \o <<>>
    BY <2>1, InstantEffects DEF InstantDone, InstantRaises, InstantWaits, Raises
  <2>4. ASSUME NEW f \in Frames, f.op # "rerun", f.node = n, stack' = <<f>> \o <<>>
        PROVE  Calls'
    <3>1. PICK inst, base, nodes :
            /\ inst = (pc' = "instants") /\ base = (batch' \cap Instant') \ todo'
            /\ nodes = redone' \cup batch'
      OBVIOUS
    <3>2. CallsFrom(<<>>, inst, base, nodes) /\ <<>> \in Seq(Frames)
      BY DEF CallsFrom
    <3>3. PICK e : e = <<>>
      OBVIOUS
    <3>4. CallsFrom(<<f>> \o e, inst, base, nodes)
      BY <2>2, <2>4, <3>1, <3>2, <3>3, CallsPush
    <3> QED
      BY <2>4, <3>1, <3>3, <3>4 DEF Calls
  <2> QED
    BY <1>3, <2>3, <2>4
<1>6. ASSUME NEW n \in Node, RetryNode(n)
      PROVE  Calls'
  <2>1. pc' = "retrying" /\ stack' = <<Frame("retry", n)>>
    BY <1>6 DEF RetryNode
  <2>2. PICK f : f = Frame("retry", n)
    OBVIOUS
  <2>3. f.op = "retry"
    BY <2>2 DEF Frame
  <2>4. stack' = <<f>> /\ Last(<<f>>) = f
    BY <2>1, <2>2 DEF Last
  <2> QED
    BY <2>1, <2>3, <2>4 DEF Calls, CallsFrom
<1>7. ASSUME \/ Execute \/ EnterWave \/ InstantsDone \/ NodesStarted \/ WaveDone
             \/ RetriesDone \/ \E n \in Node : StartNode(n)
      PROVE  stack = <<>> /\ UNCHANGED stack
  BY <1>1, <1>7 DEF Tasked, Execute, EnterWave, InstantsDone, NodesStarted, WaveDone,
     RetriesDone, StartNode, callVars
<1>8. ASSUME Crash \/ FlowDies \/ ResumeFlow PROVE stack' = <<>>
  BY <1>8 DEF Crash, FlowDies, Gone, ResumeFlow
<1> QED
  BY <1>3, <1>4, <1>5, <1>6, <1>7, <1>8, CallsMoved, StepKinds
-----------------------------------------------------------------------------
(* The steps that leave the wave loop where it is.                         *)
LEMMA Keeps ==
  ASSUME Typed, ExecutorNext, ~ ResumeFlow
  PROVE  /\ Early => Early'
         /\ \A n \in Node : task'[n] = task[n] =>
               /\ Handled(n) => Handled(n)'
               /\ Settled(n) => Settled(n)'
<1>1. Early => Early'
  BY StepHappened DEF Early
<1>2. ASSUME NEW n \in Node, task'[n] = task[n]
      PROVE  /\ Handled(n) => Handled(n)'
             /\ Settled(n) => Settled(n)'
  <2>1. Handled(n) => Handled(n)'
    BY <1>2, DoneStays
  <2> QED
    BY <2>1, StepGrows DEF Settled
<1> QED
  BY <1>1, <1>2

LEMMA SteadyFacts ==
  ASSUME Typed, ExecutorNext, CallStep \/ AsideStep
  PROVE  /\ Steady /\ ~ ResumeFlow
         /\ failed => failed'
         /\ Early => Early'
         /\ \A n \in Node : (Handled(n) => Handled(n)') /\ (Settled(n) => Settled(n)')
         /\ New' = New /\ New \subseteq Node
         /\ Node' = Node /\ LLM' = LLM /\ Instant' = Instant /\ Plain' = Plain
         /\ skipped \subseteq skipped' /\ DOMAIN results \subseteq DOMAIN results'
<1>1. Steady /\ (failed => failed')
  <2>1. CASE CallStep
    <3>1. Steady /\ CallMove
      BY <2>1, CallsSteady
    <3>2. (failed' = (failed \/ pc = "instants")) \/ failed' = failed
      BY <3>1 DEF CallMove, Raises
    <3>3. failed => failed'
      BY <3>2
    <3> QED
      BY <3>1, <3>3
  <2>2. CASE AsideStep
    BY <2>2, AsidesSteady
  <2> QED
    BY <2>1, <2>2
<1>3. ~ ResumeFlow
  BY <1>1 DEF ResumeFlow, Steady
<1>4. New' = New /\ New \subseteq Node
  BY <1>1, <1>3, StepGrows DEF New, Steady, LLM
<1> QED
  BY <1>1, <1>3, <1>4, Keeps, StepGrows DEF Steady

LEMMA SteadyBatch ==
  ASSUME Typed, Batch, ExecutorNext, CallStep \/ AsideStep
  PROVE  Batch'
<1>1. /\ Steady /\ skipped \subseteq skipped' /\ New' = New /\ Node' = Node
      /\ LLM' = LLM /\ Instant' = Instant /\ Plain' = Plain
      /\ \A n \in Node : Handled(n) => Handled(n)'
  BY SteadyFacts
<1>2. \A n \in restored' : n \in LLM' /\ Handled(n)'
  BY <1>1 DEF Batch, Steady, LLM
<1> QED
  BY <1>1, <1>2 DEF Batch, Steady

LEMMA SteadyBefore ==
  ASSUME Typed, Before, Over, ExecutorNext, CallStep \/ AsideStep
  PROVE  Before' /\ Over'
<1>1. /\ Steady /\ Node' = Node /\ (failed => failed') /\ (Early => Early')
      /\ \A n \in Node : Settled(n) => Settled(n)'
  BY SteadyFacts
<1> QED
  BY <1>1 DEF Before, Over, Steady

LEMMA WaitsOn ==
  ASSUME Typed, Told, AsideStep, ExecutorNext, NEW n \in New, pc = "waiting",
         task[n] \in wait \cup lost
  PROVE  Early' \/ task[n] \in wait' \cup lost' \/ Handled(n)'
<1>1. /\ Early => Early'
      /\ Handled(n) => Handled(n)'
  BY SteadyFacts
<1>2. n \in LLM /\ task[n] # 0
  BY DEF New, Typed, Tasked
<1>3. CASE WaitWakes
  <2> DEFINE told == {t \in wait : /\ <<t, "completed">> \in heard
                                   /\ rows[t].status # "awaiting_input"}
             fell == {t \in wait \ told : <<t, "failed">> \in heard}
             polled == {t \in wait \ (told \cup fell) : rows[t].status \in Terminal}
  <2>1. /\ wait' = wait \ (told \cup fell \cup polled)
        /\ lost' = lost \cup fell \cup {t \in polled : rows[t].status # "completed"}
    BY <1>3 DEF WaitWakes
  <2>2. ASSUME NEW t \in told, ~ Early
        PROVE  rows[t].status = "completed"
    BY <2>2 DEF Told
  <2> HIDE DEF told, fell, polled
  <2>3. \/ task[n] \in wait' \cup lost'
        \/ task[n] \in told
        \/ rows[task[n]].status = "completed"
    BY <2>1
  <2>4. Early \/ task[n] \in wait' \cup lost' \/ Handled(n)
    BY <1>2, <2>2, <2>3 DEF Handled
  <2> QED
    BY <1>1, <2>4
<1>4. CASE StrayStarts \/ UserAnswers \/ UserCancels
  BY <1>4 DEF StrayStarts, UserAnswers, UserCancels, waitVars
<1>5. ASSUME NEW t \in DOMAIN rows, RowStep(t)
      PROVE  UNCHANGED <<wait, lost>>
  BY <1>5 DEF RowStep, RowEnds, RowCompletes, TurnEnds, RowFails, RowRequeued,
     RowStopped, RowContinued, Turned, waitVars
<1> QED
  BY <1>3, <1>4, <1>5 DEF AsideStep

(* When the outermost call for an instant node ends, the node has a result. *)
LEMMA CallsResult ==
  ASSUME Typed, Calls, Batch, ExecutorNext, CallStep, pc = "instants"
  PROVE  \/ failed'
         \/ stack' # <<>> /\ Last(stack').node = Last(stack).node
         \/ Last(stack).node \in DOMAIN results'
<1>1. /\ CallMove /\ stack # <<>> /\ Caller \in Frames /\ FrameOK(Caller)
      /\ Stack(Tail(stack)) /\ stack = <<Caller>> \o Tail(stack)
  BY CallsSteady
<1>2. PICK s \in Seq(Frames) : s = Tail(stack)
  BY <1>1 DEF Stack
<1>3. PICK c \in Frames : c = Caller
  BY <1>1
<1>4. Last(<<c>> \o s) = IF s = <<>> THEN c ELSE Last(s)
  BY Pushed
<1>5. Last(stack) = IF s = <<>> THEN c ELSE Last(s)
  BY <1>1, <1>2, <1>3, <1>4
<1>6. Last(stack).op # "rerun" /\ Last(stack).node \in Instant
  BY <1>1 DEF Calls, CallsFrom
<1>7. CASE Raises
  BY <1>7 DEF Raises
<1>8. CASE /\ stack' = Tail(stack)
           /\ Caller.op \in {"rerun", "retry"} \/ Caller.node \in DOMAIN results'
  <2>1. CASE s = <<>>
    <3>1. Last(stack) = Caller /\ Caller.op # "rerun" /\ Caller.node \in Instant
      BY <1>3, <1>5, <1>6, <2>1
    <3>2. Caller.op # "retry"
      BY <1>1, <3>1 DEF FrameOK, Instant, LLM
    <3> QED
      BY <1>8, <3>1, <3>2
  <2>2. CASE s # <<>>
    BY <1>2, <1>5, <1>8, <2>2
  <2> QED
    BY <2>1, <2>2
<1>9. ASSUME NEW f \in Frames, f.node = Caller.node, stack' = <<f>> \o Tail(stack)
      PROVE  stack' # <<>> /\ Last(stack').node = Last(stack).node
  <2>1. <<f>> \o s # <<>> /\ Last(<<f>> \o s) = IF s = <<>> THEN f ELSE Last(s)
    BY Pushed
  <2> QED
    BY <1>2, <1>3, <1>5, <1>9, <2>1
<1>10. ASSUME NEW f \in Frames, NEW g \in Frames, g.node = Caller.node,
              stack' = <<f>> \o (<<g>> \o Tail(stack))
       PROVE  stack' # <<>> /\ Last(stack').node = Last(stack).node
  <2>1. PICK t : t = <<g>> \o s
    OBVIOUS
  <2>2. /\ t # <<>> /\ t \in Seq(Frames)
        /\ Last(t) = IF s = <<>> THEN g ELSE Last(s)
    BY <2>1, Pushed
  <2>3. <<f>> \o t # <<>> /\ Last(<<f>> \o t) = Last(t)
    BY <2>2, Pushed
  <2> QED
    BY <1>2, <1>3, <1>5, <1>10, <2>1, <2>2, <2>3
<1> QED
  BY <1>1, <1>7, <1>8, <1>9, <1>10 DEF CallMove

LEMMA SteadyInWave ==
  ASSUME Typed, Calls, Told, Batch, InWave, ExecutorNext, CallStep \/ AsideStep
  PROVE  InWave'
<1>1. /\ Steady /\ Instant' = Instant /\ Plain' = Plain /\ New' = New /\ New \subseteq Node
      /\ (failed => failed') /\ (Early => Early')
      /\ DOMAIN results \subseteq DOMAIN results'
      /\ \A n \in Node : Handled(n) => Handled(n)'
  BY SteadyFacts
<1>2. UNCHANGED <<task, pc, batch, todo>>
  BY <1>1 DEF Steady
<1>3. ASSUME pc = "instants", ~ failed'
      PROVE  \A n \in batch \cap Plain :
               n \in todo \cup DOMAIN results' \/ (stack' # <<>> /\ Last(stack').node = n)
  <2>1. \A n \in batch \cap Plain :
           n \in todo \cup DOMAIN results \/ (stack # <<>> /\ Last(stack).node = n)
    BY <1>1, <1>3 DEF InWave
  <2>2. CASE AsideStep
    BY <1>1, <2>1, <2>2, AsidesSteady
  <2>3. CASE CallStep
    <3>1. \/ stack' # <<>> /\ Last(stack').node = Last(stack).node
          \/ Last(stack).node \in DOMAIN results'
      BY <1>3, <2>3, CallsResult
    <3> QED
      BY <1>1, <2>1, <3>1
  <2> QED
    BY <2>2, <2>3
<1>4. ASSUME pc = "waiting", NEW n \in New
      PROVE  Early' \/ task[n] \in wait' \cup lost' \/ Handled(n)'
  <2>1. CASE AsideStep
    <3>1. Early \/ task[n] \in wait \cup lost \/ Handled(n)
      BY <1>4 DEF InWave
    <3>2. CASE task[n] \in wait \cup lost
      BY <1>4, <2>1, <3>2, WaitsOn
    <3> QED
      BY <1>1, <3>1, <3>2
  <2>2. CASE CallStep
    BY <1>4, <2>2, CallsSteady
  <2> QED
    BY <2>1, <2>2
<1>5. ASSUME pc = "retrying", NEW n \in New
      PROVE  Early' \/ failed' \/ Handled(n)'
  BY <1>1, <1>5 DEF InWave
<1>6. pc \in {"starting", "waiting", "retrying"} =>
         batch \cap Plain \subseteq DOMAIN results'
  BY <1>1 DEF InWave
<1> QED
  BY <1>1, <1>2, <1>3, <1>4, <1>5, <1>6 DEF InWave

LEMMA BelowKept == ASSUME UNCHANGED graph PROVE \A d : Below({d})' = Below({d})
<1>1. Node' = Node /\ \A m : Targets(m)' = Targets(m)
  BY DEF Node, Targets
<1> QED
  BY <1>1 DEF Below

(* A node that skips nodes of the wave has run again.                      *)
LEMMA MarksAgain ==
  ASSUME Typed, Batch, Again, UNCHANGED graph, pc = "instants",
         NEW d \in redone' \cup batch, d \in Node, redone \subseteq redone',
         NEW roots \in SUBSET Targets(d), MarkSkipped(roots),
         NEW n \in batch \cap skipped'
  PROVE  \E e \in redone' : n \in Below({e})
<1>1. graph \in Graphs /\ Layers(level)
  BY DEF Typed, Layout, NoPhaseYet
<1>2. n \in Node
  BY DEF Typed, NodesTyped
<1>3. CASE n \in skipped
  BY <1>3 DEF Again
<1>4. CASE n \in roots \cup Pruned(roots)
  <2>1. n \in Below({d}) /\ level[d] < level[n]
    BY <1>1, <1>4, MarksHigher
  <2>2. CASE d \in redone'
    BY <2>1, <2>2
  <2>3. CASE d \in batch
    <3>1. level[d] = wave /\ level[n] = wave
      BY <1>2, <2>3 DEF Batch, InLoop
    <3> QED
      BY <2>1, <3>1 DEF Typed, NodesTyped
  <2> QED
    BY <2>2, <2>3
<1> QED
  BY <1>3, <1>4 DEF MarkSkipped

LEMMA SteadyAgain ==
  ASSUME Typed, Calls, Batch, Again, ExecutorNext, CallStep \/ AsideStep
  PROVE  Again'
<1>1. Steady /\ UNCHANGED graph /\ \A d : Below({d})' = Below({d})
  BY SteadyFacts, BelowKept DEF Steady
<1>2. CASE AsideStep
  <2>1. UNCHANGED <<skipped, redone>>
    BY <1>2, AsidesSteady
  <2> QED
    BY <1>1, <2>1 DEF Again, Steady
<1>3. CASE CallStep /\ pc # "instants"
  <2>1. pc' = "retrying"
    BY <1>3, CallsSteady DEF Steady
  <2> QED
    BY <2>1 DEF Again
<1>4. CASE CallStep /\ pc = "instants"
  <2>1. stack # <<>> /\ redone \subseteq redone' /\ Caller.node \in redone \cup batch
    <3>1. stack # <<>> /\ redone \subseteq redone' /\ Caller = stack[1] /\ 1 \in DOMAIN stack
      BY <1>4, CallsSteady, Popped DEF Typed, Stack, Caller
    <3>2. \A i \in DOMAIN stack : stack[i].node \in redone \cup batch
      BY <1>4 DEF Calls, CallsFrom
    <3> QED
      BY <3>1, <3>2
  <2>2. ASSUME NEW n \in batch \cap skipped'
        PROVE  \E e \in redone' : n \in Below({e})
    <3>1. CASE SkipNothing
      BY <1>4, <2>1, <2>2, <3>1 DEF Again, SkipNothing
    <3>2. ASSUME NEW d \in {Caller.node} \cup redone', d \in Node,
                 NEW roots \in SUBSET Targets(d), MarkSkipped(roots)
          PROVE  \E e \in redone' : n \in Below({e})
      <4>1. d \in redone' \cup batch
        BY <2>1, <3>2
      <4> QED
        BY <1>1, <1>4, <2>1, <3>2, <4>1, MarksAgain
    <3> QED
      BY <1>4, <3>1, <3>2, CallMarks
  <2> QED
    BY <1>1, <1>4, <2>2 DEF Again, Steady
<1> QED
  BY <1>2, <1>3, <1>4
-----------------------------------------------------------------------------
(* The steps of the wave loop.                                             *)
LEMMA LayersNow ==
  ASSUME Typed, pc \in InLoop \cup {"wave"}
  PROVE  graph \in Graphs /\ Layers(level)
BY DEF Typed, Layout, NoPhaseYet, InLoop

(* A wave starts.                                                          *)
LEMMA ExecuteSound ==
  ASSUME Sound, ExecutorNext, Execute
  PROVE  Batch' /\ Before' /\ InWave' /\ Over' /\ Again'
<1>1. Typed /\ Batch /\ Over /\ UNCHANGED graph /\ Layout' /\ ~ ResumeFlow
  BY GraphStays DEF Sound, Execute, ResumeFlow
<1>2. /\ Early => Early'
      /\ \A n \in Node : Handled(n) => Handled(n)'
      /\ Node' = Node /\ LLM' = LLM /\ restored' = restored
  BY <1>1, Keeps, StepGrows DEF Execute
<1>3. pc = "new" /\ wave' = 1 /\ pc' \in {"wave", "over"} /\ phase # "complete"
  BY <1>1 DEF Execute, Batch, Over
<1>4. \A n \in restored' : n \in LLM' /\ Handled(n)'
  BY <1>1, <1>2 DEF Batch, LLM
<1>5. Batch' /\ InWave' /\ Again'
  BY <1>3, <1>4 DEF Batch, InLoop, InWave, Again
<1>6. CASE pc' = "wave"
  <2>1. phase' = "open"
    BY <1>6 DEF Execute
  <2>2. graph' \in Graphs /\ Layers(level)'
    BY <1>1, <2>1 DEF Layout
  <2>3. graph \in Graphs /\ Layers(level')
    BY <1>1, <1>2, <2>2 DEF Layers, Deepest, Feeders
  <2>4. \A n \in Node : level'[n] \in Nat \ {0}
    BY <2>3, LevelsStart
  <2>5. \A n \in Node' : ~ (level'[n] < wave')
    BY <1>2, <1>3, <2>4
  <2> QED
    BY <1>5, <2>1, <2>5 DEF Before, Over
<1>7. CASE pc' = "over"
  <2>1. UNCHANGED phase
    BY <1>3, <1>7 DEF Execute
  <2> QED
    BY <1>3, <1>5, <1>7, <2>1 DEF Before, Over, InLoop
<1> QED
  BY <1>3, <1>6, <1>7

LEMMA EnterSound ==
  ASSUME Sound, ExecutorNext, EnterWave
  PROVE  Batch' /\ Before' /\ InWave' /\ Over' /\ Again'
<1>1. /\ Typed /\ Batch /\ Before /\ Over /\ UNCHANGED graph /\ ~ ResumeFlow
      /\ pc = "wave" /\ graph \in Graphs /\ Layers(level) /\ wave \in Nat \ {0}
      /\ stack = <<>>
  BY GraphStays, LayersNow DEF Sound, EnterWave, ResumeFlow, Typed, NodesTyped, Tasked
<1>2. /\ UNCHANGED <<level, results, skipped, task, wave, failed, stack, restored>>
      /\ Early => Early'
      /\ \A n \in Node : (Handled(n) => Handled(n)') /\ (Settled(n) => Settled(n)')
      /\ Node' = Node /\ LLM' = LLM /\ Instant' = Instant /\ Plain' = Plain
  BY <1>1, Keeps, StepGrows DEF EnterWave, nodeVars, callVars, flowVars
<1>3. \A n \in restored' : n \in LLM' /\ Handled(n)'
  BY <1>1, <1>2 DEF Batch, LLM
<1>4. \/ Early
      \/ failed
      \/ \A n \in Node : level[n] < wave => Settled(n)
  BY <1>1 DEF Before, InLoop
<1>5. CASE cancelled \/ InLevel(wave) = {}
  <2>1. /\ pc' = "over"
        /\ phase' = IF failed \/ (cancelled /\ InLevel(wave) # {})
                    THEN "failed" ELSE "complete"
    BY <1>5 DEF EnterWave, Finish
  <2>2. ASSUME phase' = "complete"
        PROVE  Early' \/ \A n \in Node : Settled(n)'
    <3>1. ~ failed /\ InLevel(wave) = {}
      BY <1>5, <2>1, <2>2
    <3>2. \A n \in Node : level[n] < wave
      BY <1>1, <3>1, NoGap
    <3> QED
      BY <1>2, <1>4, <3>1, <3>2
  <2> QED
    BY <1>2, <1>3, <2>1, <2>2 DEF Batch, Before, InWave, Over, Again, InLoop
<1>6. CASE ~ (cancelled \/ InLevel(wave) = {})
  <2>1. /\ batch' = InLevel(wave) \ skipped /\ todo' = batch' \cap Instant
        /\ pc' = "instants" /\ UNCHANGED phase
    BY <1>6 DEF EnterWave
  <2>2. Batch'
    BY <1>2, <1>3, <2>1 DEF Batch, InLevel, InLoop
  <2>3. Before'
    BY <1>2, <1>4, <2>1 DEF Before
  <2>4. InWave'
    BY <1>2, <2>1 DEF InWave, Plain
  <2>5. Over'
    BY <1>1, <2>1 DEF Over
  <2>6. Again'
    BY <1>2, <2>1 DEF Again
  <2> QED
    BY <2>2, <2>3, <2>4, <2>5, <2>6
<1> QED
  BY <1>5, <1>6

(* A node of the wave that needs no model is handled.                      *)
LEMMA InstantSound ==
  ASSUME Sound, ExecutorNext, NEW n \in Node, RunInstant(n)
  PROVE  Batch' /\ Before' /\ InWave' /\ Over' /\ Again'
<1>1. /\ Typed /\ Batch /\ Before /\ InWave /\ Over /\ Again
      /\ UNCHANGED graph /\ ~ ResumeFlow
      /\ pc = "instants" /\ stack = <<>> /\ n \in todo /\ todo' = todo \ {n}
      /\ UNCHANGED <<level, task, phase, pc, wave, batch, restored, redone>>
      /\ ExecuteInstantNode(n, <<>>)
  BY GraphStays DEF Sound, RunInstant, ResumeFlow
<1>2. /\ Early => Early'
      /\ \A m \in Node : (Handled(m) => Handled(m)') /\ (Settled(m) => Settled(m)')
      /\ Node' = Node /\ LLM' = LLM /\ Instant' = Instant /\ Plain' = Plain
      /\ skipped \subseteq skipped' /\ DOMAIN results \subseteq DOMAIN results'
  BY <1>1, Keeps, StepGrows
<1>3. InstantDone(n, <<>>) \/ InstantRaises \/ InstantWaits(n, <<>>)
  BY <1>1, InstantEffects
<1>4. failed => failed'
  <2>1. (failed' = (failed \/ pc = "instants")) \/ failed' = failed
    BY <1>3 DEF InstantDone, InstantRaises, InstantWaits, Raises
  <2> QED
    BY <2>1
<1>5. \A m \in restored' : m \in LLM' /\ Handled(m)'
  BY <1>1, <1>2 DEF Batch, LLM
<1>6. Batch'
  BY <1>1, <1>2, <1>5 DEF Batch, InLoop
<1>7. Before' /\ Over'
  BY <1>1, <1>2, <1>4 DEF Before, Over, InLoop
<1>8. \/ failed' \/ n \notin Plain
      \/ n \in DOMAIN results'
      \/ stack' # <<>> /\ Last(stack').node = n
  <2>4. CASE Type(n) = "unknown"
    BY <2>4 DEF Plain
  <2>1. CASE InstantDone(n, <<>>) /\ Type(n) # "unknown"
    <3>1. PICK text \in Text : results' = Store(results, n, text)
      BY <2>1 DEF InstantDone
    <3>2. text # NoText
      BY <1>1, TextsTyped DEF Typed
    <3> QED
      BY <3>1, <3>2, StoreKeeps
  <2>2. CASE InstantRaises
    BY <1>1, <2>2 DEF InstantRaises, Raises
  <2>3. CASE InstantWaits(n, <<>>)
    <3>1. PICK f \in Frames : f.node = n /\ stack' = <<f>> \o <<>>
      BY <2>3 DEF InstantWaits
    <3>2. <<f>> \o <<>> = <<f>> /\ <<f>> # <<>> /\ Last(<<f>>) = f
      BY DEF Last
    <3> QED
      BY <3>1, <3>2
  <2> QED
    BY <1>3, <2>1, <2>2, <2>3, <2>4
<1>9. InWave'
  <2>1. ASSUME ~ failed', NEW m \in batch \cap Plain
        PROVE  m \in todo' \cup DOMAIN results' \/ (stack' # <<>> /\ Last(stack').node = m)
    <3>1. m \in todo \cup DOMAIN results
      BY <1>1, <1>4, <2>1 DEF InWave
    <3> QED
      BY <1>1, <1>2, <1>8, <2>1, <3>1
  <2> QED
    BY <1>1, <1>2, <2>1 DEF InWave
<1>10. Again'
  <2>1. n \in batch
    BY <1>1 DEF Batch
  <2>2. ASSUME NEW m \in batch \cap skipped'
        PROVE  \E e \in redone' : m \in Below({e})
    <3>1. SkipNothing \/ \E roots \in SUBSET Targets(n) : MarkSkipped(roots)
      BY <1>3 DEF InstantDone, InstantRaises, InstantWaits, MarksBelow
    <3>2. CASE SkipNothing
      BY <1>1, <2>2, <3>2 DEF Again, SkipNothing
    <3>3. ASSUME NEW roots \in SUBSET Targets(n), MarkSkipped(roots)
          PROVE  \E e \in redone' : m \in Below({e})
      BY <1>1, <2>1, <2>2, <3>3, MarksAgain
    <3> QED
      BY <3>1, <3>2, <3>3
  <2>3. \A d : Below({d})' = Below({d})
    BY <1>1, BelowKept
  <2> QED
    BY <1>1, <2>2, <2>3 DEF Again
<1> QED
  BY <1>6, <1>7, <1>9, <1>10

LEMMA InstantsSound ==
  ASSUME Sound, ExecutorNext, InstantsDone
  PROVE  Batch' /\ Before' /\ InWave' /\ Over' /\ Again'
<1>1. /\ Typed /\ Batch /\ Before /\ InWave /\ Over /\ Again
      /\ UNCHANGED graph /\ ~ ResumeFlow
      /\ pc = "instants" /\ stack = <<>> /\ todo = {}
      /\ UNCHANGED <<level, results, skipped, task, wave, batch, failed, stack,
                     restored, redone>>
  BY GraphStays DEF Sound, InstantsDone, ResumeFlow, nodeVars, callVars, flowVars
<1>2. /\ Early => Early'
      /\ \A m \in Node : (Handled(m) => Handled(m)') /\ (Settled(m) => Settled(m)')
      /\ Node' = Node /\ LLM' = LLM /\ Instant' = Instant /\ Plain' = Plain
  BY <1>1, Keeps, StepGrows
<1>3. \A m \in restored' : m \in LLM' /\ Handled(m)'
  BY <1>1, <1>2 DEF Batch, LLM
<1>4. CASE failed
  <2>1. pc' = "over" /\ phase' = "failed"
    BY <1>4 DEF InstantsDone, Finish
  <2> QED
    BY <1>3, <2>1 DEF Batch, Before, InWave, Over, Again, InLoop
<1>5. CASE ~ failed
  <2>1. pc' = "starting" /\ todo' = New /\ UNCHANGED phase /\ New' = New
    BY <1>1, <1>2, <1>5 DEF InstantsDone, New
  <2>2. batch \cap Plain \subseteq DOMAIN results
    BY <1>1, <1>5 DEF InWave
  <2>3. Batch'
    BY <1>1, <1>2, <1>3, <2>1 DEF Batch, InLoop
  <2>4. Before' /\ Over'
    BY <1>1, <1>2, <1>5, <2>1 DEF Before, Over, InLoop
  <2>5. InWave'
    BY <1>1, <1>2, <2>1, <2>2 DEF InWave
  <2>6. Again'
    BY <1>1, <2>1, BelowKept DEF Again
  <2> QED
    BY <2>3, <2>4, <2>5, <2>6
<1> QED
  BY <1>4, <1>5

(* The agents of the wave are started.                                     *)
LEMMA StartSound ==
  ASSUME Sound, ExecutorNext, NEW n \in Node, StartNode(n)
  PROVE  Batch' /\ Before' /\ InWave' /\ Over' /\ Again'
<1>1. /\ Typed /\ Batch /\ Before /\ InWave /\ Over /\ Again
      /\ UNCHANGED graph /\ ~ ResumeFlow
      /\ pc = "starting" /\ n \in todo /\ todo' = todo \ {n}
      /\ UNCHANGED <<level, results, skipped, phase, pc, wave, batch, restored, redone>>
  BY GraphStays DEF Sound, StartNode, ResumeFlow, flowVars
<1>2. task' = [task EXCEPT ![n] = NewId] \/ UNCHANGED task
  BY <1>1 DEF StartNode
<1>3. n \in New /\ n \in Node /\ task \in [Node -> 0 .. Len(rows)]
  BY <1>1 DEF Batch, Typed, RowsTyped
<1>4. \A m \in Node : m # n => task'[m] = task[m]
  BY <1>2, <1>3
<1>5. n \in batch /\ n \notin restored /\ level[n] = wave
  BY <1>1, <1>3 DEF New, Batch, InLoop
<1>6. /\ Early => Early'
      /\ \A m \in Node : m # n => (Handled(m) => Handled(m)') /\ (Settled(m) => Settled(m)')
      /\ Node' = Node /\ LLM' = LLM /\ Instant' = Instant /\ Plain' = Plain
  BY <1>1, <1>4, Keeps, StepGrows
<1>7. New' = New
  BY <1>1, <1>6 DEF New
<1>8. Batch'
  <2>1. \A m \in restored' : m \in LLM' /\ Handled(m)'
    BY <1>1, <1>5, <1>6 DEF Batch, LLM
  <2> QED
    BY <1>1, <1>6, <1>7, <2>1 DEF Batch, InLoop
<1>9. Before'
  <2>1. Early \/ \A m \in Node : level[m] < wave => Settled(m)
    BY <1>1 DEF Before, InLoop
  <2>2. ~ (level[n] < wave)
    BY <1>1, <1>5 DEF Typed, NodesTyped
  <2>3. Early' \/ \A m \in Node' : level'[m] < wave' => Settled(m)'
    BY <1>1, <1>6, <2>1, <2>2
  <2> QED
    BY <2>3 DEF Before
<1>10. InWave' /\ Over' /\ Again'
  BY <1>1, <1>6, BelowKept DEF InWave, Over, Again
<1> QED
  BY <1>8, <1>9, <1>10

LEMMA StartedSound ==
  ASSUME Sound, ExecutorNext, NodesStarted
  PROVE  Batch' /\ Before' /\ InWave' /\ Over' /\ Again'
<1>1. /\ Typed /\ Batch /\ Before /\ InWave /\ Over
      /\ UNCHANGED graph /\ ~ ResumeFlow
      /\ pc = "starting" /\ todo = {}
      /\ UNCHANGED <<level, results, skipped, task, wave, batch, todo, failed,
                     restored>>
  BY GraphStays DEF Sound, NodesStarted, ResumeFlow, nodeVars, flowVars
<1>2. /\ Early => Early'
      /\ \A m \in Node : (Handled(m) => Handled(m)') /\ (Settled(m) => Settled(m)')
      /\ Node' = Node /\ LLM' = LLM /\ Instant' = Instant /\ Plain' = Plain
  BY <1>1, Keeps, StepGrows
<1>3. \A m \in restored' : m \in LLM' /\ Handled(m)'
  BY <1>1, <1>2 DEF Batch, LLM
<1>4. CASE failed
  <2>1. pc' = "over" /\ phase' = "failed"
    BY <1>4 DEF NodesStarted, Finish
  <2> QED
    BY <1>3, <2>1 DEF Batch, Before, InWave, Over, Again, InLoop
<1>5. CASE ~ failed
  <2>1. /\ pc' = "waiting" /\ UNCHANGED phase /\ New' = New
        /\ wait' = {task[m] : m \in New}
    BY <1>1, <1>2, <1>5 DEF NodesStarted, WaitFor, New
  <2>2. Batch'
    BY <1>1, <1>2, <1>3, <2>1 DEF Batch, InLoop
  <2>3. Before' /\ Over'
    BY <1>1, <1>2, <1>5, <2>1 DEF Before, Over, InLoop
  <2>4. \A m \in New : task'[m] \in wait'
    BY <1>1, <2>1
  <2>5. InWave'
    BY <1>1, <1>2, <2>1, <2>4 DEF InWave
  <2>6. Again'
    BY <2>1 DEF Again
  <2> QED
    BY <2>2, <2>3, <2>5, <2>6
<1> QED
  BY <1>4, <1>5

(* The tasks of the wave have ended.                                       *)
LEMMA WaveSound ==
  ASSUME Sound, ExecutorNext, WaveDone
  PROVE  Batch' /\ Before' /\ InWave' /\ Over' /\ Again'
<1>1. /\ Typed /\ Batch /\ Before /\ InWave /\ Over
      /\ UNCHANGED graph /\ ~ ResumeFlow
      /\ pc = "waiting" /\ wait = {} /\ pc' = "retrying"
      /\ UNCHANGED <<level, task, phase, wave, batch, restored>>
  BY GraphStays DEF Sound, WaveDone, ResumeFlow, flowVars
<1>2. /\ Early => Early'
      /\ \A m \in Node : (Handled(m) => Handled(m)') /\ (Settled(m) => Settled(m)')
      /\ Node' = Node /\ LLM' = LLM /\ Instant' = Instant /\ Plain' = Plain
      /\ skipped \subseteq skipped' /\ DOMAIN results \subseteq DOMAIN results'
  BY <1>1, Keeps, StepGrows
<1>3. \A m \in restored' : m \in LLM' /\ Handled(m)'
  BY <1>1, <1>2 DEF Batch, LLM
<1>4. New' = New /\ New \subseteq Node
  BY <1>1, <1>2 DEF New, LLM
<1>5. lost # {} => failed'
  BY DEF WaveDone
<1>6. \A m \in New : Early' \/ failed' \/ Handled(m)'
  <2>1. \A m \in New : Early \/ task[m] \in lost \/ Handled(m)
    BY <1>1 DEF InWave
  <2> QED
    BY <1>2, <1>4, <1>5, <2>1
<1>7. Batch'
  BY <1>1, <1>2, <1>3 DEF Batch, InLoop
<1>8. Before' /\ Over'
  BY <1>1, <1>2 DEF Before, Over, InLoop
<1>9. InWave'
  BY <1>1, <1>2, <1>4, <1>6 DEF InWave
<1>10. Again'
  BY <1>1 DEF Again
<1> QED
  BY <1>7, <1>8, <1>9, <1>10

LEMMA RetrySound ==
  ASSUME Sound, ExecutorNext, NEW n \in Node, RetryNode(n)
  PROVE  Batch' /\ Before' /\ InWave' /\ Over' /\ Again'
<1>1. /\ Typed /\ Batch /\ Before /\ InWave /\ Over
      /\ UNCHANGED graph /\ ~ ResumeFlow
      /\ pc = "retrying"
      /\ UNCHANGED <<level, results, skipped, task, phase, pc, wave, batch, failed, restored>>
  BY GraphStays DEF Sound, RetryNode, ResumeFlow, nodeVars, flowVars
<1>2. /\ Early => Early'
      /\ \A m \in Node : (Handled(m) => Handled(m)') /\ (Settled(m) => Settled(m)')
      /\ Node' = Node /\ LLM' = LLM /\ Instant' = Instant /\ Plain' = Plain
  BY <1>1, Keeps, StepGrows
<1>3. \A m \in restored' : m \in LLM' /\ Handled(m)'
  BY <1>1, <1>2 DEF Batch, LLM
<1>4. New' = New /\ New \subseteq Node
  BY <1>1, <1>2 DEF New, LLM
<1>5. Batch' /\ Before' /\ Over'
  BY <1>1, <1>2, <1>3 DEF Batch, Before, Over, InLoop
<1>6. InWave' /\ Again'
  BY <1>1, <1>2, <1>4 DEF InWave, Again
<1> QED
  BY <1>5, <1>6

(* A wave ends.                                                            *)
LEMMA RetriesSound ==
  ASSUME Sound, ExecutorNext, RetriesDone
  PROVE  Batch' /\ Before' /\ InWave' /\ Over' /\ Again'
<1>1. /\ Typed /\ Batch /\ Before /\ InWave /\ Over
      /\ UNCHANGED graph /\ ~ ResumeFlow
      /\ pc = "retrying" /\ wave \in Nat \ {0}
      /\ UNCHANGED <<level, results, skipped, task, batch, failed, restored>>
  BY GraphStays DEF Sound, RetriesDone, ResumeFlow, nodeVars, flowVars, Typed, NodesTyped
<1>2. /\ Early => Early'
      /\ \A m \in Node : (Handled(m) => Handled(m)') /\ (Settled(m) => Settled(m)')
      /\ Node' = Node /\ LLM' = LLM /\ Instant' = Instant /\ Plain' = Plain
  BY <1>1, Keeps, StepGrows
<1>3. \A m \in restored' : m \in LLM' /\ Handled(m)'
  BY <1>1, <1>2 DEF Batch, LLM
<1>4. CASE failed /\ ~ resumed
  <2>1. pc' = "over" /\ phase' = "failed"
    BY <1>4 DEF RetriesDone, Finish
  <2> QED
    BY <1>3, <2>1 DEF Batch, Before, InWave, Over, Again, InLoop
<1>5. CASE ~ (failed /\ ~ resumed)
  <2>1. pc' = "wave" /\ wave' = wave + 1 /\ UNCHANGED phase
    BY <1>5 DEF RetriesDone
  <2>2. Batch' /\ InWave' /\ Again'
    BY <1>3, <2>1 DEF Batch, InWave, Again, InLoop
  <2>3. Over'
    BY <1>1, <2>1 DEF Over
  <2>4. ASSUME ~ Early, ~ failed, NEW m \in Node, level[m] < wave + 1
        PROVE  Settled(m)
    <3>1. level[m] < wave \/ level[m] = wave
      BY <1>1, <2>4 DEF Typed, NodesTyped
    <3>2. CASE level[m] < wave
      BY <1>1, <2>4, <3>2 DEF Before, InLoop
    <3>3. CASE level[m] = wave
      <4>1. m \in batch \cup skipped
        BY <1>1, <3>3 DEF Batch, InLoop
      <4>2. ASSUME m \in batch PROVE Handled(m)
        <5>1. CASE m \in Instant
          BY <1>1, <4>2, <5>1 DEF InWave, Instant, Plain, Handled
        <5>2. CASE m \in restored
          BY <1>1, <5>2 DEF Batch
        <5>3. CASE m \in LLM /\ m \notin restored
          BY <1>1, <2>4, <4>2, <5>3 DEF InWave, New
        <5> QED
          BY <5>1, <5>2, <5>3 DEF Instant
      <4> QED
        BY <4>1, <4>2 DEF Settled
    <3> QED
      BY <3>1, <3>2, <3>3
  <2>5. Before'
    BY <1>1, <1>2, <2>1, <2>4 DEF Before
  <2> QED
    BY <2>2, <2>3, <2>5
<1> QED
  BY <1>4, <1>5

(* The flow ends for want of its executor, or gets another one.            *)
LEMMA GoneSound ==
  ASSUME Sound, ExecutorNext, Crash \/ FlowDies
  PROVE  Batch' /\ Before' /\ InWave' /\ Over' /\ Again'
<1>1. /\ Typed /\ Batch /\ Over /\ UNCHANGED graph
      /\ pc \notin {"new", "over"} /\ pc' = "dead"
      /\ UNCHANGED <<level, results, skipped, task, phase, restored>>
  BY GraphStays DEF Sound, Crash, FlowDies, Gone, Alive, nodeVars
<1>2. ~ ResumeFlow
  BY <1>1 DEF ResumeFlow
<1>3. /\ \A m \in Node : Handled(m) => Handled(m)'
      /\ LLM' = LLM
  BY <1>1, <1>2, Keeps, StepGrows
<1>4. \A m \in restored' : m \in LLM' /\ Handled(m)'
  BY <1>1, <1>3 DEF Batch, LLM
<1> QED
  BY <1>1, <1>4 DEF Batch, Before, InWave, Over, Again, InLoop

LEMMA ResumeSound ==
  ASSUME Sound, ExecutorNext, ResumeFlow
  PROVE  Batch' /\ Before' /\ InWave' /\ Over' /\ Again'
<1>1. /\ Typed /\ UNCHANGED <<graph, level, rows>> /\ phase \in {"open", "failed"}
      /\ pc' = "wave" /\ wave' = 1 /\ phase' = "open" /\ restored' = Restorable
      /\ task' = [n \in Node |-> IF n \in Restorable THEN LastRow(n) ELSE 0]
  BY DEF Sound, ResumeFlow
<1>2. graph \in Graphs /\ Layers(level) /\ Node' = Node /\ LLM' = LLM
  BY <1>1 DEF Typed, Layout, Node, LLM, Type
<1>3. ASSUME NEW m \in restored'
      PROVE  m \in LLM' /\ Handled(m)'
  <2>1. /\ m \in LLM /\ LastRow(m) \in DOMAIN rows
        /\ rows[LastRow(m)].status = "completed"
    BY <1>1, <1>3, Restores
  <2>2. task'[m] = LastRow(m)
    BY <1>1, <1>3, <2>1 DEF LLM
  <2>3. task'[m] # 0
    BY <1>1, <2>1, <2>2 DEF Typed, RowsTyped
  <2> QED
    BY <1>1, <1>2, <2>1, <2>2, <2>3 DEF Handled
<1>4. \A m \in Node : ~ (level[m] < 1)
  BY <1>2, LevelsStart
<1>5. Before'
  BY <1>1, <1>2, <1>4 DEF Before
<1> QED
  BY <1>1, <1>3, <1>5 DEF Batch, InWave, Over, Again, InLoop
-----------------------------------------------------------------------------
(* Sound is an invariant.                                                  *)
LEMMA SoundStart == ExecutorInit => Sound
<1> SUFFICES ASSUME ExecutorInit PROVE Sound
  OBVIOUS
<1>1. Typed
  BY TypedStart
<1>2. Calls /\ Told /\ Revisions
  BY DEF ExecutorInit, Calls, CallsFrom, Told, Revisions
<1>3. Batch /\ Before /\ InWave /\ Over /\ Again
  BY DEF ExecutorInit, Batch, Before, InWave, Over, Again, InLoop
<1> QED
  BY <1>1, <1>2, <1>3 DEF Sound

LEMMA SoundStep == Sound /\ ExecutorNext => Sound'
<1> SUFFICES ASSUME Sound, ExecutorNext PROVE Sound'
  OBVIOUS
<1>1. Typed' /\ Calls' /\ Told' /\ Revisions'
  BY TypedStep, StepCalls, StepTold, StepRevisions DEF Sound
<1>2. Batch' /\ Before' /\ InWave' /\ Over' /\ Again'
  <2>1. CASE CallStep \/ AsideStep
    BY <2>1, SteadyBatch, SteadyBefore, SteadyInWave, SteadyAgain DEF Sound
  <2> QED
    BY <2>1, ExecuteSound, EnterSound, InstantSound, InstantsSound, StartSound,
       StartedSound, WaveSound, RetrySound, RetriesSound, GoneSound, ResumeSound,
       StepKinds
<1> QED
  BY <1>1, <1>2 DEF Sound

LEMMA SoundStutter == Sound /\ UNCHANGED graphVars => Sound'
<1> SUFFICES ASSUME Sound, UNCHANGED graphVars PROVE Sound'
  OBVIOUS
<1>1. Typed'
  BY TypedStutter DEF Sound
<1>2. UNCHANGED <<graph, level, results, skipped, dropped, task, rows, phase,
                  pc, wave, batch, todo, failed, stack, wait, lost, heard,
                  restored, redone, happened>>
  BY DEF graphVars, nodeVars, loopVars, callVars, waitVars, flowVars
<1>3. /\ Node' = Node /\ LLM' = LLM /\ Instant' = Instant /\ Plain' = Plain
      /\ New' = New
      /\ Early' = Early /\ Inside("revising")' = Inside("revising")
      /\ \A n : Handled(n)' = Handled(n) /\ Settled(n)' = Settled(n)
      /\ \A d : Below({d})' = Below({d})
  BY <1>2, BelowKept DEF Node, LLM, Instant, Plain, New, Type, Early, Inside, Handled, Settled
<1>4. Calls' /\ Told' /\ Revisions'
  BY <1>2, <1>3 DEF Sound, Calls, Told, Revisions
<1>5. Batch' /\ Before' /\ InWave' /\ Over' /\ Again'
  BY <1>2, <1>3 DEF Sound, Batch, Before, InWave, Over, Again
<1> QED
  BY <1>1, <1>4, <1>5 DEF Sound

LEMMA SoundAlways == ExecutorSpec => []Sound
<1>1. Sound /\ [ExecutorNext]_graphVars => Sound'
  BY SoundStep, SoundStutter
<1> QED
  BY <1>1, SoundStart, PTL DEF ExecutorSpec

(* The row kept for an agent is its own, or the one of a namesake it was    *)
(* mistaken for.                                                            *)
Owned ==
  /\ pc = "new" => \A n \in LLM : task[n] = 0
  /\ \A n \in LLM : task[n] # 0 => rows[task[n]].node = n \/ Mistaken(n)

LEMMA OwnedStep ==
  ASSUME Typed, Owned, ExecutorNext
  PROVE  Owned'
<1>1. /\ UNCHANGED graph /\ Node' = Node /\ LLM' = LLM /\ LLM \subseteq Node
      /\ \A n : RowName(n)' = RowName(n)
  BY GraphStays DEF Node, LLM, Type, RowName
<1>2. /\ task \in [Node -> 0 .. Len(rows)] /\ rows \in Seq(Rows)
      /\ \A t \in DOMAIN rows : rows'[t].node = rows[t].node
  BY GraphStays, RowsKept DEF Typed, RowsTyped
<1>7. ASSUME pc' = "new" PROVE pc = "new" /\ UNCHANGED task
  <2>1. CASE CallStep \/ AsideStep
    BY <1>7, <2>1, CallsSteady, AsidesSteady DEF Steady
  <2>2. CASE ~ (CallStep \/ AsideStep)
    BY <1>7, <2>2, StepKinds DEF Execute, EnterWave, InstantsDone, NodesStarted,
       WaveDone, RetriesDone, Finish, RunInstant, StartNode, RetryNode, Crash,
       FlowDies, Gone, ResumeFlow, nodeVars
  <2> QED
    BY <2>1, <2>2
<1>8. pc' = "new" => \A n \in LLM' : task'[n] = 0
  BY <1>1, <1>7 DEF Owned
<1> SUFFICES ASSUME NEW n \in LLM, task'[n] # 0
             PROVE  rows'[task'[n]].node = n \/ Mistaken(n)'
  BY <1>1, <1>8 DEF Owned
<1>3. CASE task'[n] = task[n] /\ ~ ResumeFlow /\ ~ Execute
  <2>1. task[n] \in DOMAIN rows
    BY <1>1, <1>2, <1>3
  <2>2. restored' = restored /\ UNCHANGED level
    BY <1>3, StepGrows, StepMoves DEF Moves, Typed, Layout
  <2> QED
    BY <1>1, <1>2, <1>3, <2>1, <2>2 DEF Owned, Mistaken
<1>4. CASE ResumeFlow
  <2>1. /\ restored' = Restorable /\ UNCHANGED <<level, rows>>
        /\ task'[n] = IF n \in Restorable THEN LastRow(n) ELSE 0
    BY <1>1, <1>4 DEF ResumeFlow
  <2>2. n \in Restorable /\ task'[n] = LastRow(n) /\ LastRow(n) \in DOMAIN rows
    BY <2>1, Restores
  <2>3. LastRow(n) # 0
    BY <2>1, <2>2
  <2>4. /\ level[rows[LastRow(n)].node] = level[n]
        /\ RowName(rows[LastRow(n)].node) = graph.name[n]
    BY <2>3, LastRowThere
  <2>5. rows[LastRow(n)] \in Rows
    BY <1>2, <2>2
  <2>6. rows[LastRow(n)].node \in Node
    BY <2>5 DEF Rows
  <2> HIDE DEF Restorable, LastRow
  <2> QED
    BY <1>1, <2>1, <2>2, <2>4, <2>6 DEF Mistaken
<1>5. ASSUME NEW m \in Node, StartNode(m), task' = [task EXCEPT ![m] = NewId], n = m
      PROVE  rows'[task'[n]].node = n
  <2>1. task'[n] = NewId
    BY <1>1, <1>2, <1>5
  <2>2. rows' = Append(rows, NewRow(n, "node"))
    BY <1>1, <1>2, <1>5, <2>1 DEF StartNode, StartTask, NewId
  <2> QED
    BY <1>2, <2>1, <2>2 DEF NewRow, NewId
<1>6. CASE Execute
  BY <1>6 DEF Execute, Owned
<1> QED
  BY <1>1, <1>2, <1>3, <1>4, <1>5, <1>6, StepTasks

LEMMA OwnedAlways == ExecutorSpec => []Owned
<1>1. ExecutorInit => Owned
  BY DEF ExecutorInit, Owned, LLM
<1>2. Typed /\ Owned /\ UNCHANGED graphVars => Owned'
  <2> SUFFICES ASSUME Owned, UNCHANGED graphVars PROVE Owned'
    OBVIOUS
  <2>1. UNCHANGED <<graph, level, task, rows, pc, restored>>
    BY DEF graphVars, nodeVars, loopVars, flowVars
  <2>2. Node' = Node /\ LLM' = LLM /\ \A n : RowName(n)' = RowName(n)
    BY <2>1 DEF Node, LLM, Type, RowName
  <2> QED
    BY <2>1, <2>2 DEF Owned, Mistaken
<1>3. Typed /\ Owned /\ [ExecutorNext]_graphVars => Owned'
  BY <1>2, OwnedStep
<1> QED
  BY <1>1, <1>3, TypedAlways, PTL DEF ExecutorSpec

LEMMA HandledDone ==
  ASSUME Owned, NEW n, Handled(n)
  PROVE  Done(n) \/ Mistaken(n)
BY DEF Owned, Handled, Done

(* A phase reported complete has every node that was not skipped done and   *)
(* no revision left running, unless a user continued a task before its end  *)
(* was seen; an agent is not done only if a resumption took the row of a    *)
(* namesake in its wave for its own (CompleteSound).                        *)
THEOREM CompleteMeansRun == ExecutorSpec => []CompleteSound
<1>1. Sound /\ Owned => CompleteSound
  <2> SUFFICES ASSUME Sound, Owned, phase = "complete", "early" \notin happened
               PROVE  /\ \A n \in Node \ skipped : Done(n) \/ Mistaken(n)
                      /\ \A t \in DOMAIN rows : rows[t].role = "revision" =>
                            rows[t].status \in Terminal \cup {"pending"}
    BY DEF CompleteSound
  <2>1. pc = "over" /\ \A n \in Node : Settled(n)
    BY DEF Sound, Over, Early
  <2>2. stack = <<>>
    BY <2>1 DEF Sound, Typed, Tasked
  <2>3. ~ Inside("revising")
    BY <2>2 DEF Inside
  <2>4. Quiet
    BY <2>3, QuietEnough DEF Sound
  <2> QED
    BY <2>1, <2>4, HandledDone DEF Settled, Quiet, Early, Ended, Terminal
<1> QED
  BY <1>1, SoundAlways, OwnedAlways, PTL

(* The wave loop starts an agent when every feeder is skipped, done or      *)
(* mistaken for a namesake by a resumption, and an agent that is skipped    *)
(* itself only below a node that ran again (AgentsFed).                     *)
THEOREM FeedersFirst == ExecutorSpec => AgentsFed
<1> DEFINE Fed == \A n \in LLM :
                    pc = "starting" /\ task'[n] # task[n] /\ "early" \notin happened =>
                      /\ n \in skipped => \E d \in redone : n \in Below({d})
                      /\ \A f \in Feeders(n) : f \in skipped \/ Done(f) \/ Mistaken(f)
<1>1. Sound /\ Owned /\ [ExecutorNext]_graphVars => [Fed]_graphVars
  <2> SUFFICES ASSUME Sound, Owned, ExecutorNext, NEW n \in LLM, pc = "starting",
                      task'[n] # task[n], "early" \notin happened
               PROVE  /\ n \in skipped => \E d \in redone : n \in Below({d})
                      /\ \A f \in Feeders(n) : f \in skipped \/ Done(f) \/ Mistaken(f)
    OBVIOUS
  <2>1. /\ Typed /\ Batch /\ Before /\ Again /\ graph \in Graphs /\ Layers(level)
        /\ task \in [Node -> 0 .. Len(rows)] /\ n \in Node
    BY LayersNow DEF Sound, InLoop, Typed, RowsTyped, LLM
  <2>2. PICK m \in Node : StartNode(m) /\ task' = [task EXCEPT ![m] = NewId]
    BY <2>1, StepTasks DEF ResumeFlow
  <2>3. n = m
    BY <2>1, <2>2
  <2>4. n \in batch /\ level[n] = wave
    BY <2>1, <2>2, <2>3 DEF StartNode, Batch, New, InLoop
  <2>5. n \in skipped => \E d \in redone : n \in Below({d})
    BY <2>1, <2>4 DEF Again
  <2>6. \A f \in Feeders(n) : f \in Node /\ level[f] < wave
    BY <2>1, <2>4, LayersRise, Neighbours
  <2>7. \A f \in Node : level[f] < wave => Settled(f)
    BY <2>1 DEF Before, Early, InLoop
  <2> QED
    BY <2>5, <2>6, <2>7, HandledDone DEF Settled
<1>2. ExecutorSpec => [][ExecutorNext]_graphVars
  BY DEF ExecutorSpec
<1>3. ExecutorSpec => [][Fed]_graphVars
  <2> HIDE DEF Fed
  <2> QED
    BY <1>1, <1>2, SoundAlways, OwnedAlways, PTL
<1> QED
  BY <1>3 DEF AgentsFed
=============================================================================
