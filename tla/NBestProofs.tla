---------------------------- MODULE NBestProofs ----------------------------
(***************************************************************************)
(* Proofs about the lattice and its n-best search, for every vocabulary,   *)
(* every connection and every input, and for every pattern that a client   *)
(* makes of a path: each node remembers the cheapest path to it, and the   *)
(* paths come in the order of their costs, none twice and none left out,   *)
(* because what is still to come is always behind exactly one of the caps. *)
(* The hypothesis CostsFit keeps the sums of costs below the greatest int. *)
(***************************************************************************)
EXTENDS NBest, FlattenLemmas

-----------------------------------------------------------------------------
(* Costs                                                                   *)

\* The costs that are no greater than a number, or not connected.
Within(m) == {MaxCost} \cup (-m)..m

LEMMA WithinGrows ==
    ASSUME NEW m \in Nat, NEW n \in Nat, m <= n
    PROVE  Within(m) \subseteq Within(n)
BY DEF Within

LEMMA AddWithin ==
    ASSUME NEW m \in Nat, NEW n \in Nat, m + n < MaxCost, NEW a \in Within(m), NEW b \in Within(n)
    PROVE  /\ AddCost(a, b) \in Within(m + n) /\ AddCost(a, b) = AddCost(b, a)
           /\ AddCost(a, b) = MaxCost <=> a = MaxCost \/ b = MaxCost
BY MaxCostAssumption DEF Within, AddCost

LEMMA AddAssociates ==
    ASSUME NEW m \in Nat, NEW n \in Nat, NEW k \in Nat, m + n + k < MaxCost,
           NEW a \in Within(m), NEW b \in Within(n), NEW c \in Within(k)
    PROVE  AddCost(AddCost(a, b), c) = AddCost(a, AddCost(b, c))
BY MaxCostAssumption DEF Within, AddCost

LEMMA AddMonotone ==
    ASSUME NEW m \in Nat, NEW n \in Nat, m + n < MaxCost,
           NEW a \in Within(m), NEW b \in Within(m), NEW c \in Within(n), a <= b
    PROVE  AddCost(a, c) <= AddCost(b, c) /\ AddCost(c, a) <= AddCost(c, b)
BY MaxCostAssumption DEF Within, AddCost

LEMMA WithinIsInt ==
    ASSUME NEW m \in Nat, m < MaxCost, NEW a \in Within(m)
    PROVE  a \in Int /\ a <= MaxCost /\ AddCost(0, a) = a /\ AddCost(a, 0) = a
BY MaxCostAssumption DEF Within, AddCost

\* The number of links of a path, each with an edge and an entry.
LEMMA Multiples ==
    ASSUME NEW d \in Nat, NEW m \in Nat, NEW n \in Nat
    PROVE  /\ m * d \in Nat /\ (m + n) * d = m * d + n * d /\ 1 * d = d /\ 0 * d = 0
           /\ m <= n => m * d <= n * d
           /\ m + 1 <= n => m * d + d <= n * d
<1>1. m * d \in Nat /\ n * d \in Nat /\ (m + n) * d = m * d + n * d /\ 1 * d = d /\ 0 * d = 0
  OBVIOUS
<1>2. ASSUME m <= n PROVE m * d <= n * d
  <2>1. n - m \in Nat /\ n = m + (n - m)
    BY <1>2
  <2>2. (n - m) * d \in Nat /\ n * d = m * d + (n - m) * d
    BY <2>1
  <2> HIDE <2>1
  <2> QED BY <2>2, <1>1
<1>3. ASSUME m + 1 <= n PROVE m * d + d <= n * d
  <2>1. n - (m + 1) \in Nat /\ n = (m + 1) + (n - (m + 1))
    BY <1>3
  <2>2. (n - (m + 1)) * d \in Nat /\ n * d = (m + 1) * d + (n - (m + 1)) * d /\ (m + 1) * d = m * d + d
    BY <2>1
  <2> QED BY <2>2, <1>1
<1> QED BY <1>1, <1>2, <1>3

\* Twice the bound that CostsFit has is one link's cost at most.
LinkCosts(d) ==
    /\ d \in Nat /\ MaxSteps * d + d < MaxCost /\ MaxSteps * d < MaxCost
    /\ \A e \in AllEntries : e.cost \in Within(d) /\ e.cost \in Int
    /\ \A c \in Connections : \A e, f \in AllEntries :
          /\ c[<<e.name, f.name>>] \in Within(d) /\ c[<<e.name, f.name>>] \in Int
          /\ AddCost(c[<<e.name, f.name>>], f.cost) \in Within(d)
          /\ AddCost(c[<<e.name, f.name>>], f.cost) = MaxCost
                <=> c[<<e.name, f.name>>] = MaxCost \/ f.cost = MaxCost

LEMMA LinksFit == CostsFit => \E d : LinkCosts(d)
<1> SUFFICES ASSUME CostsFit PROVE \E d : LinkCosts(d)
  OBVIOUS
<1>1. PICK b \in 0..MaxCost :
          /\ 2 * (MaxSteps + 1) * b < MaxCost
          /\ \A e \in AllEntries : e.cost \in {MaxCost} \cup (-b)..b
          /\ \A c \in Connections : \A e, f \in AllEntries : c[<<e.name, f.name>>] \in {MaxCost} \cup (-b)..b
  BY DEF CostsFit
<1>2. b \in Nat /\ MaxSteps \in Nat /\ MaxSteps # 0
  BY MaxCostAssumption, StepsAssumption
<1> DEFINE d == b + b
<1>3. (MaxSteps + 1) * d = 2 * (MaxSteps + 1) * b /\ d \in Nat /\ b <= d
  BY <1>2
<1>4. d <= MaxSteps * d
  <2>1. 1 * d <= MaxSteps * d
    BY <1>2, <1>3, Multiples
  <2> QED BY <2>1, <1>3
<1>11. MaxSteps * d + d < MaxCost /\ MaxSteps * d < MaxCost
  <2>1. MaxSteps * d \in Nat /\ (MaxSteps + 1) * d = MaxSteps * d + 1 * d /\ 1 * d = d
    BY <1>2, <1>3, Multiples
  <2>2. MaxSteps * d + d < MaxCost
    BY <2>1, <1>1, <1>3
  <2> QED BY <2>1, <2>2, <1>3, MaxCostAssumption
<1>5. d < MaxCost /\ b + b < MaxCost
  <2>1. d <= MaxSteps * d + d /\ d \in Int /\ MaxSteps * d + d \in Int
    BY <1>2, <1>3, <1>4
  <2> QED BY <2>1, <1>11, MaxCostAssumption
<1>6. \A e \in AllEntries : e.cost \in Within(b)
  BY <1>1 DEF Within
<1>7. \A c \in Connections : \A e, f \in AllEntries : c[<<e.name, f.name>>] \in Within(b)
  BY <1>1 DEF Within
<1>8. Within(b) \subseteq Within(d)
  BY <1>2, <1>3, WithinGrows
<1>9. ASSUME NEW c \in Connections, NEW e \in AllEntries, NEW f \in AllEntries
      PROVE  /\ AddCost(c[<<e.name, f.name>>], f.cost) \in Within(d)
             /\ AddCost(c[<<e.name, f.name>>], f.cost) = MaxCost
                   <=> c[<<e.name, f.name>>] = MaxCost \/ f.cost = MaxCost
  BY <1>2, <1>5, <1>6, <1>7, AddWithin
<1>10. Within(b) \subseteq Int
  BY <1>2, MaxCostAssumption DEF Within
<1> HIDE DEF d
<1> QED BY <1>3, <1>6, <1>7, <1>8, <1>9, <1>10, <1>11 DEF LinkCosts
-----------------------------------------------------------------------------
(* The cost of a path                                                      *)

LinkOf(way, k) == AddCost(Edge(way[k + 1], way[k]), way[k].entry.cost)

Sums(f, way) ==
    f = [k \in 0..(Len(way) - 1) |->
            IF k = 0 THEN 0
            ELSE AddCost(f[k - 1], AddCost(Edge(way[k + 1], way[k]), way[k].entry.cost))]

LEMMA SumsExist == ASSUME NEW way, Len(way) \in Nat \ {0} PROVE \E f : Sums(f, way)
<1> DEFINE Upto(f, n) == f = [k \in 0..n |-> IF k = 0 THEN 0 ELSE AddCost(f[k - 1], LinkOf(way, k))]
           T == {n \in Nat : \E f : Upto(f, n)}
<1>1. 0 \in T
  <2> DEFINE f == [k \in 0..0 |-> 0]
  <2>1. \A k \in 0..0 : k = 0
    OBVIOUS
  <2>2. Upto(f, 0)
    BY <2>1
  <2> QED BY <2>2
<1>2. ASSUME NEW n \in Nat, n \in T PROVE n + 1 \in T
  <2>1. PICK g : Upto(g, n)
    BY <1>2
  <2> DEFINE f == [k \in 0..n + 1 |-> IF k = n + 1 THEN AddCost(g[n], LinkOf(way, n + 1)) ELSE g[k]]
             Step(h, k) == IF k = 0 THEN 0 ELSE AddCost(h[k - 1], LinkOf(way, k))
  <2>2. \A k \in 0..n : g[k] = Step(g, k)
    BY <2>1
  <2>3. ASSUME NEW k \in 0..n + 1 PROVE f[k] = Step(f, k)
    <3>1. CASE k = n + 1
      <4>1. f[k] = AddCost(g[n], LinkOf(way, k)) /\ f[k - 1] = g[n] /\ k # 0
        BY <3>1
      <4> HIDE DEF f
      <4> QED BY <4>1
    <3>2. CASE k # n + 1
      <4>1. k \in 0..n /\ f[k] = g[k] /\ (k # 0 => f[k - 1] = g[k - 1])
        BY <3>2
      <4> HIDE DEF f
      <4> QED BY <4>1, <2>2
    <3> QED BY <3>1, <3>2
  <2>4. f = [k \in 0..n + 1 |-> f[k]]
    OBVIOUS
  <2> HIDE DEF f
  <2>5. f = [k \in 0..n + 1 |-> Step(f, k)]
    BY <2>3, <2>4
  <2>6. Upto(f, n + 1)
    BY <2>5
  <2> QED BY <2>6
<1>3. Nat \subseteq T
  <2> HIDE DEF T
  <2> QED BY <1>1, <1>2, SetInduction
<1>4. Len(way) - 1 \in Nat
  OBVIOUS
<1>5. \E f : Upto(f, Len(way) - 1)
  BY <1>3, <1>4
<1> QED BY <1>5 DEF Sums, LinkOf

LEMMA CostToFacts ==
    ASSUME NEW way, Len(way) \in Nat \ {0}
    PROVE  /\ CostTo(way)[0] = 0
           /\ \A k \in 1..Len(way) - 1 : CostTo(way)[k] = AddCost(CostTo(way)[k - 1], LinkOf(way, k))
<1> DEFINE f == CHOOSE f : Sums(f, way)
<1>1. Sums(f, way)
  BY SumsExist
<1>2. CostTo(way) = f
  BY DEF CostTo, Sums
<1> HIDE DEF f
<1>3. \A k \in 0..Len(way) - 1 : f[k] = IF k = 0 THEN 0 ELSE AddCost(f[k - 1], LinkOf(way, k))
  BY <1>1 DEF Sums, LinkOf
<1>4. 0 \in 0..Len(way) - 1 /\ \A k \in 1..Len(way) - 1 : k \in 0..Len(way) - 1 /\ k # 0
  OBVIOUS
<1> QED BY <1>2, <1>3, <1>4

\* The links of a path are so cheap that its cost comes nowhere near the greatest int.
Fits(way, d) ==
    /\ Len(way) \in Nat \ {0} /\ d \in Nat /\ (Len(way) - 1) * d < MaxCost
    /\ \A k \in 1..Len(way) - 1 : LinkOf(way, k) \in Within(d)

LEMMA CostWithin ==
    ASSUME NEW way, NEW d, Fits(way, d)
    PROVE  \A k \in 0..Len(way) - 1 : k * d \in Nat /\ k * d < MaxCost /\ CostTo(way)[k] \in Within(k * d)
<1> DEFINE l == Len(way) - 1
           T == {k \in Nat : k <= l => k * d \in Nat /\ k * d < MaxCost /\ CostTo(way)[k] \in Within(k * d)}
<1>1. d \in Nat /\ Len(way) \in Nat \ {0} /\ l \in Nat /\ l * d < MaxCost
      /\ \A k \in 1..l : LinkOf(way, k) \in Within(d)
  BY DEF Fits
<1>2. CostTo(way)[0] = 0 /\ \A k \in 1..l : CostTo(way)[k] = AddCost(CostTo(way)[k - 1], LinkOf(way, k))
  BY <1>1, CostToFacts
<1> HIDE DEF l
<1>3. 0 \in T
  <2>1. 0 * d = 0 /\ 0 * d <= l * d /\ l * d \in Nat
    BY <1>1, Multiples
  <2>2. 0 * d \in Nat /\ 0 * d < MaxCost
    BY <2>1, <1>1, MaxCostAssumption
  <2>3. CostTo(way)[0] \in Within(0 * d)
    BY <2>1, <1>2 DEF Within
  <2> QED BY <2>2, <2>3
<1>4. ASSUME NEW k \in Nat, k \in T PROVE k + 1 \in T
  <2> SUFFICES ASSUME k + 1 <= l
               PROVE  /\ (k + 1) * d \in Nat /\ (k + 1) * d < MaxCost
                      /\ CostTo(way)[k + 1] \in Within((k + 1) * d)
    OBVIOUS
  <2>1. k <= l /\ k * d \in Nat /\ CostTo(way)[k] \in Within(k * d)
    BY <1>4, <1>1
  <2>2. (k + 1) * d = k * d + d
    BY <1>1, Multiples
  <2>3. (k + 1) * d <= l * d /\ l * d \in Nat
    BY <1>1, Multiples
  <2>4. k * d + d < MaxCost
    BY <2>1, <2>2, <2>3, <1>1, MaxCostAssumption
  <2>5. k + 1 \in 1..l /\ (k + 1) - 1 = k
    BY <1>1
  <2>6. LinkOf(way, k + 1) \in Within(d) /\ CostTo(way)[k + 1] = AddCost(CostTo(way)[k], LinkOf(way, k + 1))
    BY <2>5, <1>1, <1>2
  <2>7. CostTo(way)[k + 1] \in Within(k * d + d)
    BY <2>1, <2>4, <2>6, <1>1, AddWithin
  <2> QED BY <2>1, <2>2, <2>4, <2>7, <1>1
<1>5. Nat \subseteq T
  <2> HIDE DEF T
  <2> QED BY <1>3, <1>4, SetInduction
<1> QED BY <1>1, <1>5 DEF l

\* The rest of a path from one of its nodes.
IsRest(rest, way, a) ==
    /\ a \in 1..Len(way) /\ Len(rest) = Len(way) - a + 1
    /\ \A k \in 1..Len(rest) : rest[k] = way[a - 1 + k]

LEMMA CostSplit ==
    ASSUME NEW way, NEW d, Fits(way, d), NEW a, NEW rest, IsRest(rest, way, a)
    PROVE  /\ Fits(rest, d)
           /\ PathCost(way) = AddCost(CostTo(way)[a - 1], PathCost(rest))
<1> DEFINE l == Len(way)
           m == Len(rest) - 1
           x == CostTo(way)[a - 1]
           T == {k \in Nat : k <= m => CostTo(way)[a - 1 + k] = AddCost(x, CostTo(rest)[k])}
<1>1. /\ d \in Nat /\ l \in Nat \ {0} /\ (l - 1) * d < MaxCost
      /\ \A k \in 1..l - 1 : LinkOf(way, k) \in Within(d)
  BY DEF Fits
<1>2. /\ a \in 1..l /\ m = l - a /\ m \in Nat /\ Len(rest) \in Nat \ {0} /\ a - 1 \in Nat
      /\ \A k \in 1..m + 1 : rest[k] = way[a - 1 + k]
  BY <1>1 DEF IsRest
<1>3. CostTo(way)[0] = 0 /\ \A k \in 1..l - 1 : CostTo(way)[k] = AddCost(CostTo(way)[k - 1], LinkOf(way, k))
  BY <1>1, CostToFacts
<1>4. CostTo(rest)[0] = 0 /\ \A k \in 1..m : CostTo(rest)[k] = AddCost(CostTo(rest)[k - 1], LinkOf(rest, k))
  BY <1>2, CostToFacts
<1> HIDE DEF l, m
<1>5. ASSUME NEW k \in 1..m
      PROVE  a - 1 + k \in 1..l - 1 /\ LinkOf(rest, k) = LinkOf(way, a - 1 + k) /\ LinkOf(rest, k) \in Within(d)
  <2>1. a - 1 + k \in 1..l - 1 /\ k \in 1..m + 1 /\ k + 1 \in 1..m + 1 /\ a - 1 + (k + 1) = (a - 1 + k) + 1
    BY <1>1, <1>2
  <2>2. rest[k] = way[a - 1 + k] /\ rest[k + 1] = way[(a - 1 + k) + 1]
    BY <2>1, <1>2
  <2> QED BY <2>1, <2>2, <1>1 DEF LinkOf
<1>6. Fits(rest, d)
  <2>1. m * d <= (l - 1) * d /\ m * d \in Int /\ (l - 1) * d \in Int
    <3>1. m \in Nat /\ l - 1 \in Nat /\ m <= l - 1
      BY <1>1, <1>2
    <3> QED BY <3>1, <1>1, Multiples
  <2>2. m * d < MaxCost
    BY <2>1, <1>1, MaxCostAssumption
  <2> QED BY <2>2, <1>1, <1>2, <1>5 DEF Fits, m
<1>7. \A k \in 0..m : k * d \in Nat /\ k * d < MaxCost /\ CostTo(rest)[k] \in Within(k * d)
  BY <1>6, CostWithin DEF m
<1>8. a - 1 \in 0..l - 1 /\ (a - 1) * d \in Nat /\ (a - 1) * d < MaxCost /\ x \in Within((a - 1) * d)
  <2>1. a - 1 \in 0..l - 1
    BY <1>1, <1>2
  <2> QED BY <2>1, CostWithin DEF l
<1> HIDE DEF x
<1>9. 0 \in T
  <2>1. AddCost(x, 0) = x
    BY <1>8, WithinIsInt
  <2> QED BY <2>1, <1>2, <1>4 DEF x
<1>10. ASSUME NEW k \in Nat, k \in T PROVE k + 1 \in T
  <2> SUFFICES ASSUME k + 1 <= m
               PROVE  CostTo(way)[a - 1 + (k + 1)] = AddCost(x, CostTo(rest)[k + 1])
    OBVIOUS
  <2> DEFINE y == CostTo(rest)[k]
             z == LinkOf(rest, k + 1)
  <2>1. CostTo(way)[a - 1 + k] = AddCost(x, y) /\ k \in 0..m /\ k + 1 \in 1..m
    BY <1>10, <1>2
  <2>2. a - 1 + (k + 1) \in 1..l - 1 /\ z = LinkOf(way, a - 1 + (k + 1)) /\ z \in Within(d)
    BY <2>1, <1>5
  <2>3. (a - 1 + (k + 1)) - 1 = a - 1 + k /\ (k + 1) - 1 = k
    BY <1>2
  <2>4. CostTo(way)[a - 1 + (k + 1)] = AddCost(AddCost(x, y), z)
    BY <2>1, <2>2, <2>3, <1>3
  <2>5. CostTo(rest)[k + 1] = AddCost(y, z)
    BY <2>1, <2>3, <1>4
  <2>6. k * d \in Nat /\ y \in Within(k * d)
    BY <2>1, <1>7
  <2>7. (a - 1) * d + k * d + d < MaxCost
    <3>1. (a - 1) + k \in Nat /\ l - 1 \in Nat /\ ((a - 1) + k) + 1 <= l - 1
      BY <2>1, <1>1, <1>2
    <3>2. ((a - 1) + k) * d = (a - 1) * d + k * d
      BY <1>1, <1>2, Multiples
    <3>3. ((a - 1) + k) * d + d <= (l - 1) * d /\ (l - 1) * d \in Nat /\ ((a - 1) + k) * d \in Nat
      BY <3>1, <1>1, Multiples
    <3> QED BY <3>2, <3>3, <2>6, <1>1, <1>8, MaxCostAssumption
  <2> HIDE DEF y, z
  <2>8. AddCost(AddCost(x, y), z) = AddCost(x, AddCost(y, z))
    BY <2>2, <2>6, <2>7, <1>1, <1>8, AddAssociates
  <2> QED BY <2>4, <2>5, <2>8
<1>11. Nat \subseteq T
  <2> HIDE DEF T
  <2> QED BY <1>9, <1>10, SetInduction
<1>12. CostTo(way)[a - 1 + m] = AddCost(x, CostTo(rest)[m]) /\ a - 1 + m = l - 1
  BY <1>11, <1>2, <1>1
<1> QED BY <1>6, <1>12 DEF PathCost, l, m, x

\* What the first nodes cost does not depend on the others.
LEMMA CostOfSame ==
    ASSUME NEW p, NEW q, Len(p) \in Nat \ {0}, Len(q) \in Nat \ {0}, NEW n \in Nat,
           n < Len(p), n < Len(q), \A k \in 1..n + 1 : p[k] = q[k]
    PROVE  \A k \in 0..n : CostTo(p)[k] = CostTo(q)[k]
<1> DEFINE T == {k \in Nat : k <= n => CostTo(p)[k] = CostTo(q)[k]}
<1>1. CostTo(p)[0] = 0 /\ \A k \in 1..Len(p) - 1 : CostTo(p)[k] = AddCost(CostTo(p)[k - 1], LinkOf(p, k))
  BY CostToFacts
<1>2. CostTo(q)[0] = 0 /\ \A k \in 1..Len(q) - 1 : CostTo(q)[k] = AddCost(CostTo(q)[k - 1], LinkOf(q, k))
  BY CostToFacts
<1>3. 0 \in T
  BY <1>1, <1>2
<1>4. ASSUME NEW k \in Nat, k \in T PROVE k + 1 \in T
  <2> SUFFICES ASSUME k + 1 <= n PROVE CostTo(p)[k + 1] = CostTo(q)[k + 1]
    OBVIOUS
  <2>1. /\ k + 1 \in 1..Len(p) - 1 /\ k + 1 \in 1..Len(q) - 1 /\ (k + 1) - 1 = k
        /\ k + 1 \in 1..n + 1 /\ (k + 1) + 1 \in 1..n + 1
    OBVIOUS
  <2>2. CostTo(p)[k] = CostTo(q)[k]
    BY <1>4
  <2>3. LinkOf(p, k + 1) = LinkOf(q, k + 1)
    BY <2>1 DEF LinkOf
  <2> QED BY <2>1, <2>2, <2>3, <1>1, <1>2
<1>5. Nat \subseteq T
  <2> HIDE DEF T
  <2> QED BY <1>3, <1>4, SetInduction
<1> QED BY <1>5
-----------------------------------------------------------------------------
(* The graph                                                               *)

Letters == UNION {Range(chunk) : chunk \in Chunk}

Node == [entry : AllEntries, index : Nat, preceding : Nat, edges : Seq(Int), best : Int, cost : Int]

\* A node as push_back() or settle() makes it behind a step of a graph.
IsNodeIn(c, g, n, s) ==
    /\ n \in Node /\ s \in DOMAIN g /\ n.preceding = s
    /\ n.edges = [i \in DOMAIN g[s].nodes |-> c[<<g[s].nodes[i].entry.name, n.entry.name>>]]
    /\ n.best = Best(g[s], n.edges)
    /\ n.cost = AddCost(CostThrough(g[s], n.edges, n.best), n.entry.cost)

IsNodeAfter(n, s) == IsNodeIn(connection, graph, n, s)

\* The nodes of a step come from steps in front of it, and their keys are the text
\* between the two.
IsStepNode(c, g, text, s, i, n) ==
    /\ n.index = i
    /\ n.preceding < s /\ IsNodeIn(c, g, n, n.preceding)
    /\ g[n.preceding].tail <= g[s].tail
    /\ n.entry.key = SubSeq(text, g[n.preceding].tail + 1, g[s].tail)

IsStepOf(c, g, text, s) ==
    \A i \in DOMAIN g[s].nodes : IsStepNode(c, g, text, s, i, g[s].nodes[i])

GraphInv ==
    /\ connection \in Connections /\ input \in Seq(Letters)
    /\ graph \in Seq([tail : Nat, nodes : Seq(Node)]) /\ Len(graph) \in 1..MaxSteps
    /\ graph[1] = [tail |-> 0, nodes |-> <<Bos>>]
    /\ \A s \in DOMAIN graph : graph[s].nodes # <<>> /\ graph[s].tail <= Len(input)
    /\ \A s \in 2..Len(graph) : IsStepOf(connection, graph, input, s)

EosInv == eos # NoNode => IsNodeAfter(eos, Len(graph)) /\ eos.entry = BosEos /\ eos.index = 1

LatticeInv == GraphInv /\ EosInv

LEMMA EntryFacts ==
    /\ BosEos \in AllEntries
    /\ \A e \in AllEntries : e.cost \in Int
    /\ \A c \in Connections : \A e, f \in AllEntries : c[<<e.name, f.name>>] \in Int
    /\ \A key : Find(key) \in Seq({e \in AllEntries : e.key = key})
<1>1. BosEos \in AllEntries
  BY DEF AllEntries
<1>2. ASSUME NEW e \in AllEntries PROVE e.cost \in Int
  <2>1. CASE e = BosEos
    BY <2>1 DEF BosEos
  <2>2. CASE e # BosEos
    <3>1. PICK key \in DOMAIN Entries : e \in Range(Entries[key])
      BY <2>2 DEF AllEntries
    <3>2. PICK n \in DOMAIN Entries[key] : e = Entries[key][n]
      BY <3>1 DEF Range
    <3> DEFINE R == [name : STRING, key : {key}, cost : Int]
    <3>3. Entries[key] \in Seq(R)
      BY EntriesAssumption
    <3>4. \A r \in R : r.cost \in Int
      OBVIOUS
    <3> HIDE DEF R
    <3>5. e \in R
      BY <3>2, <3>3, LenProperties, ElementOfSeq
    <3> QED BY <3>4, <3>5
  <2> QED BY <2>1, <2>2
<1>3. ASSUME NEW key PROVE Find(key) \in Seq({e \in AllEntries : e.key = key})
  <2> DEFINE S == {e \in AllEntries : e.key = key}
  <2>1. CASE key \notin DOMAIN Entries
    BY <2>1 DEF Find
  <2>2. CASE key \in DOMAIN Entries
    <3> DEFINE R == [name : STRING, key : {key}, cost : Int]
    <3>1. Entries[key] \in Seq(R) /\ \A r \in R : r.key = key
      BY <2>2, EntriesAssumption
    <3> HIDE DEF R
    <3>2. Len(Entries[key]) \in Nat /\ DOMAIN Entries[key] = 1..Len(Entries[key])
          /\ \A n \in DOMAIN Entries[key] : Entries[key][n].key = key
      BY <3>1, LenProperties, ElementOfSeq
    <3>3. \A n \in DOMAIN Entries[key] : Entries[key][n] \in S
      BY <2>2, <3>2 DEF AllEntries, Range
    <3> HIDE DEF S
    <3>4. Entries[key] \in [1..Len(Entries[key]) -> S]
      BY <3>1, <3>2, <3>3
    <3>5. Entries[key] \in Seq(S)
      BY <3>2, <3>4, FunctionIsSeq
    <3> QED BY <2>2, <3>5 DEF Find, S
  <2> QED BY <2>1, <2>2
<1> QED BY <1>1, <1>2, <1>3, ConnectionsAssumption

LEMMA AddIsInt == \A a, b \in Int : AddCost(a, b) \in Int
BY MaxCostAssumption DEF AddCost

\* There is a first of the least numbers.
LEMMA FirstOfLeast ==
    ASSUME NEW l \in Nat \ {0}, NEW c \in [1..l -> Int]
    PROVE  \E i \in 1..l : \A j \in 1..l : c[i] < c[j] \/ (c[i] = c[j] /\ i <= j)
<1> DEFINE IsFirst(i, n) == \A j \in 1..n : c[i] < c[j] \/ (c[i] = c[j] /\ i <= j)
           T == {n \in Nat : n + 1 <= l => \E i \in 1..n + 1 : IsFirst(i, n + 1)}
<1>1. 0 \in T
  OBVIOUS
<1>2. ASSUME NEW n \in Nat, n \in T PROVE n + 1 \in T
  <2> SUFFICES ASSUME n + 2 <= l PROVE \E i \in 1..n + 2 : IsFirst(i, n + 2)
    OBVIOUS
  <2>1. PICK i \in 1..n + 1 : IsFirst(i, n + 1)
    BY <1>2
  <2>2. \A j \in 1..n + 2 : j \in 1..n + 1 \/ j = n + 2
    OBVIOUS
  <2>3. i \in 1..n + 2 /\ n + 2 \in 1..n + 2 /\ (\A j \in 1..n + 2 : c[j] \in Int)
    OBVIOUS
  <2>4. CASE c[i] <= c[n + 2]
    <3>1. IsFirst(i, n + 2)
      BY <2>1, <2>2, <2>3, <2>4
    <3> QED BY <3>1, <2>3
  <2>5. CASE ~(c[i] <= c[n + 2])
    <3>1. IsFirst(n + 2, n + 2)
      BY <2>1, <2>2, <2>3, <2>5
    <3> QED BY <3>1, <2>3
  <2> QED BY <2>4, <2>5
<1>3. l - 1 \in Nat /\ (l - 1) + 1 = l
  OBVIOUS
<1>4. Nat \subseteq T
  <2> HIDE DEF T
  <2> QED BY <1>1, <1>2, SetInduction
<1>5. \A n \in Nat : n + 1 <= l => \E i \in 1..n + 1 : IsFirst(i, n + 1)
  BY <1>4
<1> HIDE DEF IsFirst
<1>6. \E i \in 1..l : IsFirst(i, l)
  BY <1>3, <1>5
<1> QED BY <1>6 DEF IsFirst

\* There is a first of the cheapest.
LEMMA BestFacts ==
    ASSUME NEW step, NEW edges, step.nodes \in Seq(Node), step.nodes # <<>>,
           \A i \in DOMAIN step.nodes : edges[i] \in Int
    PROVE  /\ Best(step, edges) \in DOMAIN step.nodes
           /\ \A j \in DOMAIN step.nodes :
                 CostThrough(step, edges, Best(step, edges)) <= CostThrough(step, edges, j)
           /\ \A j \in DOMAIN step.nodes : CostThrough(step, edges, j) \in Int
<1> DEFINE l == Len(step.nodes)
<1>1. l \in Nat \ {0} /\ DOMAIN step.nodes = 1..l
  BY LenProperties, EmptySeq
<1>2. \A i \in 1..l : CostThrough(step, edges, i) \in Int
  <2> SUFFICES ASSUME NEW i \in 1..l PROVE CostThrough(step, edges, i) \in Int
    OBVIOUS
  <2>1. step.nodes[i] \in Node /\ edges[i] \in Int
    BY <1>1, ElementOfSeq
  <2>2. step.nodes[i].cost \in Int
    BY <2>1 DEF Node
  <2> QED BY <2>1, <2>2, AddIsInt DEF CostThrough
<1> HIDE DEF l
<1> DEFINE c == [i \in 1..l |-> CostThrough(step, edges, i)]
<1>3. c \in [1..l -> Int]
  BY <1>2
<1>4. \A i \in 1..l : CostThrough(step, edges, i) = c[i]
  OBVIOUS
<1> HIDE DEF c
<1>5. PICK i \in 1..l : \A j \in 1..l : c[i] < c[j] \/ (c[i] = c[j] /\ i <= j)
  BY <1>1, <1>3, FirstOfLeast
<1> DEFINE P(k) == \A j \in DOMAIN step.nodes :
                       \/ CostThrough(step, edges, k) < CostThrough(step, edges, j)
                       \/ CostThrough(step, edges, k) = CostThrough(step, edges, j) /\ k <= j
<1>6. \E k \in DOMAIN step.nodes : P(k)
  BY <1>1, <1>4, <1>5
<1>7. Best(step, edges) = CHOOSE k \in DOMAIN step.nodes : P(k)
  BY DEF Best
<1>8. Best(step, edges) \in DOMAIN step.nodes /\ P(Best(step, edges))
  BY <1>6, <1>7
<1>9. \A j \in DOMAIN step.nodes : CostThrough(step, edges, Best(step, edges)) <= CostThrough(step, edges, j)
  BY <1>1, <1>2, <1>8
<1> QED BY <1>1, <1>2, <1>8, <1>9

\* What push_back() and settle() make is a node.
LEMMA NodeAfterFacts ==
    ASSUME GraphInv, NEW s \in DOMAIN graph, NEW e \in AllEntries
    PROVE  LET n == NodeAfter(s, e) IN IsNodeAfter(n, s) /\ n.entry = e /\ n.index = 1
<1> DEFINE step == graph[s]
           edges == PrecedingEdgeCosts(step, e)
           best == Best(step, edges)
           cost == AddCost(CostThrough(step, edges, best), e.cost)
           n == NodeAfter(s, e)
<1>1. step.nodes \in Seq(Node) /\ step.nodes # <<>> /\ connection \in Connections /\ s \in Nat
  <2>1. graph \in Seq([tail : Nat, nodes : Seq(Node)]) /\ graph[s].nodes # <<>>
    BY DEF GraphInv
  <2>2. graph[s] \in [tail : Nat, nodes : Seq(Node)] /\ s \in Nat
    <3> DEFINE S == [tail : Nat, nodes : Seq(Node)]
    <3> HIDE DEF S
    <3>1. graph \in Seq(S)
      BY <2>1 DEF S
    <3>2. Len(graph) \in Nat /\ DOMAIN graph = 1..Len(graph) /\ s \in 1..Len(graph)
      BY <3>1, LenProperties
    <3>3. graph[s] \in S
      BY <3>1, <3>2, ElementOfSeq
    <3> QED BY <3>2, <3>3 DEF S
  <2> QED BY <2>1, <2>2 DEF GraphInv
<1>2. Len(step.nodes) \in Nat /\ DOMAIN step.nodes = 1..Len(step.nodes)
      /\ \A i \in DOMAIN step.nodes : step.nodes[i] \in Node
  BY <1>1, LenProperties, ElementOfSeq
<1>3. \A i \in DOMAIN step.nodes : step.nodes[i].entry \in AllEntries
  BY <1>2 DEF Node
<1>4. DOMAIN edges = DOMAIN step.nodes /\ \A i \in DOMAIN step.nodes : edges[i] \in Int
  BY <1>1, <1>3, ConnectionsAssumption DEF PrecedingEdgeCosts, Connection
<1>5. edges \in [1..Len(step.nodes) -> Int]
  BY <1>2, <1>4 DEF PrecedingEdgeCosts
<1>6. edges \in Seq(Int)
  BY <1>2, <1>5, FunctionIsSeq
<1>7. best \in DOMAIN step.nodes /\ CostThrough(step, edges, best) \in Int
  BY <1>1, <1>4, BestFacts
<1>8. cost \in Int /\ best \in Int
  <2>1. e.cost \in Int
    BY EntryFacts
  <2>2. best \in Int
    BY <1>2, <1>7
  <2>3. cost \in Int
    BY <2>1, <1>7, AddIsInt
  <2> QED BY <2>2, <2>3
<1>9. n = [entry |-> e, index |-> 1, preceding |-> s, edges |-> edges, best |-> best, cost |-> cost]
  BY DEF NodeAfter
<1> HIDE DEF edges, best, cost, n, step
<1>10. n \in Node
  BY <1>1, <1>6, <1>8, <1>9 DEF Node
<1>11. n.preceding = s /\ n.edges = edges /\ n.best = best /\ n.cost = cost /\ n.entry = e /\ n.index = 1
  BY <1>9
<1> QED BY <1>10, <1>11 DEF IsNodeAfter, IsNodeIn, PrecedingEdgeCosts, Connection, edges, best, cost, n, step

LEMMA GraphFacts ==
    ASSUME GraphInv
    PROVE  /\ Len(graph) \in Nat /\ Len(graph) # 0 /\ DOMAIN graph = 1..Len(graph) /\ Len(graph) <= MaxSteps
           /\ \A s \in DOMAIN graph :
                 /\ graph[s].nodes \in Seq(Node) /\ graph[s].nodes # <<>>
                 /\ graph[s].tail \in Nat /\ graph[s].tail <= Len(input)
                 /\ Len(graph[s].nodes) \in Nat /\ Len(graph[s].nodes) # 0
                 /\ DOMAIN graph[s].nodes = 1..Len(graph[s].nodes)
                 /\ \A i \in DOMAIN graph[s].nodes : graph[s].nodes[i] \in Node
           /\ 1 \in DOMAIN graph /\ Len(input) \in Nat
<1> DEFINE S == [tail : Nat, nodes : Seq(Node)]
<1>1. graph \in Seq(S) /\ Len(graph) \in 1..MaxSteps /\ input \in Seq(Letters)
  BY DEF GraphInv
<1>2. \A x \in S : x.nodes \in Seq(Node) /\ x.tail \in Nat
  OBVIOUS
<1> HIDE DEF S
<1>3. Len(graph) \in Nat /\ Len(graph) # 0 /\ DOMAIN graph = 1..Len(graph) /\ Len(graph) <= MaxSteps
  BY <1>1, LenProperties, StepsAssumption
<1>4. ASSUME NEW s \in DOMAIN graph
      PROVE  /\ graph[s].nodes \in Seq(Node) /\ graph[s].nodes # <<>>
             /\ graph[s].tail \in Nat /\ graph[s].tail <= Len(input)
             /\ Len(graph[s].nodes) \in Nat /\ Len(graph[s].nodes) # 0
             /\ DOMAIN graph[s].nodes = 1..Len(graph[s].nodes)
             /\ \A i \in DOMAIN graph[s].nodes : graph[s].nodes[i] \in Node
  <2>1. graph[s] \in S
    BY <1>1, <1>3, ElementOfSeq
  <2>2. graph[s].nodes \in Seq(Node) /\ graph[s].tail \in Nat
    BY <2>1, <1>2
  <2>3. graph[s].nodes # <<>> /\ graph[s].tail <= Len(input)
    BY DEF GraphInv
  <2> QED BY <2>2, <2>3, LenProperties, ElementOfSeq, EmptySeq
<1>5. 1 \in DOMAIN graph /\ Len(input) \in Nat
  BY <1>1, <1>3, LenProperties
<1> QED BY <1>3, <1>4, <1>5

\* Sequences with the same beginning have the same parts in it.
LEMMA SamePart ==
    ASSUME NEW S, NEW s \in Seq(S), NEW t \in Seq(S), NEW a \in Nat, NEW b \in Nat, a <= b,
           b <= Len(s), b <= Len(t), \A i \in 1..b : s[i] = t[i]
    PROVE  SubSeq(s, a + 1, b) = SubSeq(t, a + 1, b)
<1> DEFINE x == SubSeq(s, a + 1, b)
           y == SubSeq(t, a + 1, b)
<1>1. x \in Seq(S) /\ y \in Seq(S) /\ IsPart(x, s, a, b) /\ IsPart(y, t, a, b)
  BY PartProperties
<1> HIDE DEF x, y
<1>2. Len(x) = b - a /\ Len(y) = b - a /\ \A i \in 1..b - a : x[i] = s[a + i] /\ y[i] = t[a + i]
  BY <1>1 DEF IsPart
<1>3. \A i \in 1..b - a : a + i \in 1..b
  OBVIOUS
<1>4. \A i \in 1..Len(x) : x[i] = y[i]
  BY <1>2, <1>3
<1>5. x = y
  BY <1>1, <1>2, <1>4, SeqEqual
<1> QED BY <1>5 DEF x, y

\* A node stays one while the graph in front of it does.
LEMMA NodeStays ==
    ASSUME NEW n, NEW s, IsNodeAfter(n, s), connection' = connection,
           s \in DOMAIN graph', graph'[s] = graph[s]
    PROVE  IsNodeAfter(n, s)'
BY DEF IsNodeAfter, IsNodeIn

\* A step that is added to the graph.
LEMMA StepAdded ==
    ASSUME GraphInv, NEW tail \in Nat, NEW nodes \in Seq(Node), nodes # <<>>, Len(graph) < MaxSteps,
           connection' = connection, input' \in Seq(Letters), Len(input) <= Len(input'),
           \A i \in 1..Len(input) : input'[i] = input[i],
           graph' = Append(graph, [tail |-> tail, nodes |-> nodes]), tail = Len(input'),
           \A i \in DOMAIN nodes :
              /\ nodes[i].index = i /\ nodes[i].preceding \in DOMAIN graph
              /\ IsNodeAfter(nodes[i], nodes[i].preceding)
              /\ nodes[i].entry.key = SubSeq(input', graph[nodes[i].preceding].tail + 1, tail)
    PROVE  GraphInv'
<1> DEFINE l == Len(graph)
           x == [tail |-> tail, nodes |-> nodes]
           S == [tail : Nat, nodes : Seq(Node)]
<1>1. /\ l \in Nat /\ l # 0 /\ DOMAIN graph = 1..l /\ l <= MaxSteps /\ Len(input) \in Nat
      /\ \A s \in DOMAIN graph : graph[s].tail \in Nat /\ graph[s].tail <= Len(input) /\ graph[s].nodes # <<>>
  BY GraphFacts
<1>2. graph \in Seq(S) /\ x \in S /\ graph[1] = [tail |-> 0, nodes |-> <<Bos>>]
      /\ connection \in Connections /\ \A s \in 2..l : IsStepOf(connection, graph, input, s)
  BY DEF GraphInv
<1>3. x.tail = tail /\ x.nodes = nodes
  OBVIOUS
<1> HIDE DEF x, S
<1>4. graph' \in Seq(S) /\ Len(graph') = l + 1 /\ (\A s \in 1..l : graph'[s] = graph[s]) /\ graph'[l + 1] = x
  BY <1>2, AppendProperties DEF x
<1>5. DOMAIN graph' = 1..l + 1
  BY <1>4, LenProperties
<1> HIDE DEF l
<1>6. Len(graph') \in 1..MaxSteps
  BY <1>1, <1>4, StepsAssumption DEF l
<1>7. ASSUME NEW s \in DOMAIN graph'
      PROVE  graph'[s].nodes # <<>> /\ graph'[s].tail <= Len(input')
  <2>1. Len(input') \in Nat
    BY LenProperties
  <2>2. CASE s \in 1..l
    BY <2>1, <2>2, <1>1, <1>4
  <2>3. CASE s = l + 1
    BY <2>1, <2>3, <1>3, <1>4
  <2> QED BY <2>2, <2>3, <1>1, <1>5
<1>8. ASSUME NEW s \in 2..Len(graph') PROVE IsStepOf(connection, graph, input, s)'
  <2>1. CASE s \in 2..l
    <3> SUFFICES ASSUME NEW i \in DOMAIN graph[s].nodes, NEW n, n = graph[s].nodes[i]
                 PROVE  IsStepNode(connection', graph', input', s, i, n)
      <4>1. graph'[s] = graph[s]
        BY <2>1, <1>1, <1>4
      <4> QED BY <4>1 DEF IsStepOf
    <3>1. /\ n.index = i /\ n.preceding < s /\ IsNodeAfter(n, n.preceding)
          /\ graph[n.preceding].tail <= graph[s].tail
          /\ n.entry.key = SubSeq(input, graph[n.preceding].tail + 1, graph[s].tail)
      BY <2>1, <1>2 DEF IsStepOf, IsStepNode, IsNodeAfter
    <3>2. n.preceding \in DOMAIN graph
      BY <3>1 DEF IsNodeAfter, IsNodeIn
    <3>3. graph'[n.preceding] = graph[n.preceding] /\ graph'[s] = graph[s] /\ n.preceding \in DOMAIN graph'
          /\ s \in DOMAIN graph
      BY <2>1, <3>2, <1>1, <1>4, <1>5
    <3>4. IsNodeAfter(n, n.preceding)'
      BY <3>1, <3>3, NodeStays
    <3> DEFINE a == graph[n.preceding].tail
               b == graph[s].tail
    <3>5. a \in Nat /\ b \in Nat /\ b <= Len(input) /\ a <= b
      BY <3>1, <3>2, <3>3, <1>1
    <3> HIDE DEF a, b
    <3>6. SubSeq(input', a + 1, b) = SubSeq(input, a + 1, b)
      <4>1. PICK text : text = input' /\ text \in Seq(Letters)
        OBVIOUS
      <4>2. input \in Seq(Letters) /\ Len(text) \in Nat
        BY <4>1, LenProperties DEF GraphInv
      <4>3. b <= Len(text) /\ \A k \in 1..b : text[k] = input[k]
        BY <4>1, <4>2, <3>5, <1>1
      <4>4. SubSeq(text, a + 1, b) = SubSeq(input, a + 1, b)
        BY <4>1, <4>2, <4>3, <3>5, SamePart
      <4> QED BY <4>1, <4>4
    <3> QED BY <3>1, <3>3, <3>4, <3>6 DEF a, b, IsStepNode, IsNodeAfter
  <2>2. CASE s = l + 1
    <3>1. graph'[s].nodes = nodes /\ graph'[s].tail = tail
      BY <2>2, <1>3, <1>4
    <3> SUFFICES ASSUME NEW i \in DOMAIN nodes, NEW n, n = nodes[i]
                 PROVE  IsStepNode(connection', graph', input', s, i, n)
      BY <3>1 DEF IsStepOf
    <3>2. /\ n.index = i /\ n.preceding \in DOMAIN graph /\ IsNodeAfter(n, n.preceding)
          /\ n.entry.key = SubSeq(input', graph[n.preceding].tail + 1, tail)
      OBVIOUS
    <3>3. graph'[n.preceding] = graph[n.preceding] /\ n.preceding \in DOMAIN graph' /\ n.preceding < s
      BY <2>2, <3>2, <1>1, <1>4, <1>5
    <3>4. IsNodeAfter(n, n.preceding)'
      BY <3>2, <3>3, NodeStays
    <3>5. graph[n.preceding].tail <= tail
      <4>1. Len(input') \in Nat
        BY LenProperties
      <4> QED BY <4>1, <3>2, <1>1
    <3> QED BY <3>1, <3>2, <3>3, <3>4, <3>5 DEF IsStepNode, IsNodeAfter
  <2> QED BY <2>1, <2>2, <1>1, <1>4
<1>9. graph'[1] = [tail |-> 0, nodes |-> <<Bos>>]
  BY <1>1, <1>2, <1>4
<1> QED BY <1>2, <1>4, <1>6, <1>7, <1>8, <1>9 DEF GraphInv, S

\* What is put together for a new step are nodes behind the steps there are.
LEMMA NodesForFacts ==
    ASSUME GraphInv, NEW text \in Seq(Letters), Len(input) <= Len(text)
    PROVE  /\ NodesFor(text) \in Seq(Node)
           /\ \A i \in DOMAIN NodesFor(text) :
                 LET n == NodesFor(text)[i]
                 IN  /\ n.index = i /\ n.preceding \in DOMAIN graph /\ IsNodeAfter(n, n.preceding)
                     /\ n.entry.key = SubSeq(text, graph[n.preceding].tail + 1, Len(text))
<1> DEFINE Good == {n \in Node : /\ n.preceding \in DOMAIN graph /\ IsNodeAfter(n, n.preceding)
                                 /\ n.entry.key = SubSeq(text, graph[n.preceding].tail + 1, Len(text))}
           ss == [s \in DOMAIN graph |-> NodesAfter(s, text)]
           nodes == FlattenSeq(ss)
           numbered == NodesFor(text)
<1>1. Len(graph) \in Nat /\ DOMAIN graph = 1..Len(graph)
  BY GraphFacts
<1>2. ASSUME NEW s \in DOMAIN graph PROVE NodesAfter(s, text) \in Seq(Good)
  <2> DEFINE key == SubSeq(text, graph[s].tail + 1, Len(text))
             found == Find(key)
             E == {e \in AllEntries : e.key = key}
  <2>1. found \in Seq(E)
    BY EntryFacts
  <2>2. E \in SUBSET AllEntries /\ \A e \in E : e.key = key
    OBVIOUS
  <2>3. NodesAfter(s, text) = [i \in DOMAIN found |-> NodeAfter(s, found[i])]
    BY DEF NodesAfter
  <2> HIDE DEF found, E
  <2>4. Len(found) \in Nat /\ DOMAIN found = 1..Len(found) /\ \A i \in DOMAIN found : found[i] \in E
    BY <2>1, LenProperties, ElementOfSeq
  <2>5. ASSUME NEW e \in E PROVE NodeAfter(s, e) \in Good
    <3>1. PICK n : n = NodeAfter(s, e)
      OBVIOUS
    <3>2. IsNodeAfter(n, s) /\ n.entry = e
      BY <2>2, <3>1, NodeAfterFacts
    <3>3. n \in Node /\ n.preceding = s
      BY <3>2 DEF IsNodeAfter, IsNodeIn
    <3> QED BY <2>2, <3>1, <3>2, <3>3
  <2> HIDE DEF Good
  <2>6. NodesAfter(s, text) \in [1..Len(found) -> Good]
    BY <2>3, <2>4, <2>5
  <2> QED BY <2>4, <2>6, FunctionIsSeq
<1> HIDE DEF Good
<1>3. ss \in [1..Len(graph) -> Seq(Good)]
  BY <1>1, <1>2
<1>4. ss \in Seq(Seq(Good))
  BY <1>1, <1>3, FunctionIsSeq
<1>5. nodes \in Seq(Good)
  BY <1>4, FlattenType
<1>6. numbered = [i \in DOMAIN nodes |-> [nodes[i] EXCEPT !.index = i]]
  BY DEF NodesFor
<1> HIDE DEF nodes, numbered, ss
<1>7. Len(nodes) \in Nat /\ DOMAIN nodes = 1..Len(nodes) /\ \A i \in DOMAIN nodes : nodes[i] \in Good
  BY <1>5, LenProperties, ElementOfSeq
<1>8. ASSUME NEW m \in Good, NEW i \in Nat, NEW n, n = [m EXCEPT !.index = i]
      PROVE  n \in Good /\ n.index = i
  <2>1. m \in Node
    BY DEF Good
  <2>2. /\ n \in Node /\ n.index = i /\ n.entry = m.entry /\ n.preceding = m.preceding /\ n.edges = m.edges
        /\ n.best = m.best /\ n.cost = m.cost
    <3>1. /\ m.entry \in AllEntries /\ m.preceding \in Nat /\ m.edges \in Seq(Int) /\ m.best \in Int /\ m.cost \in Int
          /\ m = [entry |-> m.entry, index |-> m.index, preceding |-> m.preceding, edges |-> m.edges,
                  best |-> m.best, cost |-> m.cost]
      BY <2>1, <1>8 DEF Node
    <3>2. n = [entry |-> m.entry, index |-> i, preceding |-> m.preceding, edges |-> m.edges,
               best |-> m.best, cost |-> m.cost]
      BY <3>1, <1>8
    <3> QED BY <3>1, <3>2 DEF Node
  <2>3. /\ m.preceding \in DOMAIN graph /\ IsNodeAfter(m, m.preceding)
        /\ m.entry.key = SubSeq(text, graph[m.preceding].tail + 1, Len(text))
    BY DEF Good
  <2>4. IsNodeAfter(n, n.preceding)
    BY <2>2, <2>3 DEF IsNodeAfter, IsNodeIn
  <2> QED BY <2>2, <2>3, <2>4 DEF Good
<1>9. \A i \in DOMAIN nodes : numbered[i] \in Good /\ numbered[i].index = i
  <2> SUFFICES ASSUME NEW i \in DOMAIN nodes PROVE numbered[i] \in Good /\ numbered[i].index = i
    OBVIOUS
  <2>1. numbered[i] = [nodes[i] EXCEPT !.index = i] /\ i \in Nat /\ nodes[i] \in Good
    BY <1>6, <1>7
  <2> QED BY <2>1, <1>8
<1>10. DOMAIN numbered = DOMAIN nodes /\ Good \subseteq Node
  BY <1>6 DEF Good
<1>11. numbered \in [1..Len(nodes) -> Node]
  BY <1>6, <1>7, <1>9, <1>10
<1>12. numbered \in Seq(Node)
  BY <1>7, <1>11, FunctionIsSeq
<1>13. \A i \in DOMAIN numbered :
          /\ numbered[i].index = i /\ numbered[i].preceding \in DOMAIN graph
          /\ IsNodeAfter(numbered[i], numbered[i].preceding)
          /\ numbered[i].entry.key = SubSeq(text, graph[numbered[i].preceding].tail + 1, Len(text))
  BY <1>9, <1>10 DEF Good
<1> QED BY <1>12, <1>13 DEF numbered

LEMMA InitIsGraph == LatticeInit => LatticeInv
<1> SUFFICES ASSUME LatticeInit PROVE LatticeInv
  OBVIOUS
<1>1. connection \in Connections /\ input = <<>> /\ graph = <<[tail |-> 0, nodes |-> <<Bos>>]>> /\ eos = NoNode
  BY DEF LatticeInit
<1>2. Bos \in Node
  BY EntryFacts DEF Bos, Node, NoStep
<1> DEFINE x == [tail |-> 0, nodes |-> <<Bos>>]
<1>3. x \in [tail : Nat, nodes : Seq(Node)] /\ x.nodes # <<>> /\ x.tail = 0
  BY <1>2
<1> HIDE DEF x
<1>4. graph \in Seq([tail : Nat, nodes : Seq(Node)]) /\ Len(graph) = 1 /\ graph[1] = x /\ DOMAIN graph = {1}
  BY <1>1, <1>3 DEF x
<1>5. input \in Seq(Letters) /\ Len(input) = 0
  BY <1>1
<1>6. GraphInv
  <2>1. Len(graph) \in 1..MaxSteps
    BY <1>4, StepsAssumption
  <2>2. \A s \in DOMAIN graph : graph[s].nodes # <<>> /\ graph[s].tail <= Len(input)
    BY <1>3, <1>4, <1>5
  <2>3. 2..Len(graph) = {}
    BY <1>4
  <2>4. \A s \in 2..Len(graph) : IsStepOf(connection, graph, input, s)
    BY <2>3
  <2>5. graph[1] = [tail |-> 0, nodes |-> <<Bos>>]
    BY <1>4 DEF x
  <2> QED BY <1>1, <1>4, <1>5, <2>1, <2>2, <2>4, <2>5 DEF GraphInv
<1> QED BY <1>1, <1>6 DEF LatticeInv, EosInv

LEMMA PushBackKeeps ==
    ASSUME GraphInv, NEW chunk \in Chunk, PushBack(chunk)
    PROVE  LatticeInv'
<1> DEFINE text == input \o chunk
           nodes == NodesFor(text)
<1>1. /\ Len(graph) < MaxSteps /\ input' = text /\ eos' = NoNode /\ connection' = connection
      /\ nodes = <<>> => UNCHANGED graph
      /\ nodes # <<>> => graph' = Append(graph, [tail |-> Len(text), nodes |-> nodes])
  BY DEF PushBack
<1>2. input \in Seq(Letters) /\ chunk \in Seq(Letters)
  BY ChunkAssumption DEF GraphInv, Letters
<1>3. text \in Seq(Letters) /\ Len(input) \in Nat /\ Len(chunk) \in Nat /\ Len(text) = Len(input) + Len(chunk)
      /\ \A i \in 1..Len(input) : text[i] = input[i]
  BY <1>2, JoinProperties DEF IsJoin
<1> HIDE DEF text
<1>4. Len(input) <= Len(text) /\ Len(text) \in Nat
  BY <1>3
<1>5. /\ nodes \in Seq(Node)
      /\ \A i \in DOMAIN nodes :
            /\ nodes[i].index = i /\ nodes[i].preceding \in DOMAIN graph /\ IsNodeAfter(nodes[i], nodes[i].preceding)
            /\ nodes[i].entry.key = SubSeq(text, graph[nodes[i].preceding].tail + 1, Len(text))
  BY <1>3, <1>4, NodesForFacts
<1> HIDE DEF nodes
<1>6. EosInv'
  BY <1>1 DEF EosInv
<1>7. CASE nodes # <<>>
  <2>1. GraphInv'
    BY <1>1, <1>3, <1>4, <1>5, <1>7, StepAdded
  <2> QED BY <2>1, <1>6 DEF LatticeInv
<1>8. CASE nodes = <<>>
  <2>1. graph' = graph
    BY <1>1, <1>8
  <2>2. /\ Len(graph) \in Nat /\ DOMAIN graph = 1..Len(graph)
        /\ \A s \in DOMAIN graph : graph[s].tail \in Nat /\ graph[s].tail <= Len(input) /\ graph[s].nodes # <<>>
    BY GraphFacts
  <2>3. ASSUME NEW s \in 2..Len(graph) PROVE IsStepOf(connection, graph, input, s)'
    <3> SUFFICES ASSUME NEW i \in DOMAIN graph[s].nodes, NEW n, n = graph[s].nodes[i]
                 PROVE  IsStepNode(connection, graph, text, s, i, n)
      BY <2>1, <1>1 DEF IsStepOf
    <3>1. /\ n.index = i /\ n.preceding < s /\ IsNodeAfter(n, n.preceding)
          /\ graph[n.preceding].tail <= graph[s].tail
          /\ n.entry.key = SubSeq(input, graph[n.preceding].tail + 1, graph[s].tail)
      BY DEF IsStepOf, IsStepNode, IsNodeAfter, GraphInv
    <3>2. n.preceding \in DOMAIN graph
      BY <3>1 DEF IsNodeAfter, IsNodeIn
    <3> DEFINE a == graph[n.preceding].tail
               b == graph[s].tail
    <3>4. a \in Nat /\ b \in Nat /\ b <= Len(input) /\ a <= b
      <4>1. s \in DOMAIN graph
        BY <2>2
      <4> QED BY <4>1, <2>2, <3>1, <3>2
    <3> HIDE DEF a, b
    <3>5. SubSeq(text, a + 1, b) = SubSeq(input, a + 1, b)
      <4>1. b <= Len(text) /\ \A k \in 1..b : text[k] = input[k]
        BY <3>4, <1>3
      <4> QED BY <4>1, <3>4, <1>2, <1>3, SamePart
    <3> QED BY <3>1, <3>5 DEF a, b, IsStepNode, IsNodeAfter
  <2>4. \A s \in DOMAIN graph : graph[s].tail <= Len(text)
    BY <2>2, <1>3
  <2>5. GraphInv'
    BY <2>1, <2>2, <2>3, <2>4, <1>1, <1>3 DEF GraphInv
  <2> QED BY <2>5, <1>6 DEF LatticeInv
<1> QED BY <1>7, <1>8

LEMMA GraphUnchanged ==
    ASSUME GraphInv, UNCHANGED <<connection, input, graph>>
    PROVE  GraphInv'
BY DEF GraphInv

LEMMA SettleKeeps ==
    ASSUME GraphInv, Settle
    PROVE  LatticeInv'
<1>1. eos' = NodeAfter(Len(graph), BosEos) /\ UNCHANGED <<connection, input, graph>>
  BY DEF Settle
<1>2. Len(graph) \in DOMAIN graph
  BY GraphFacts
<1>3. PICK n : n = NodeAfter(Len(graph), BosEos)
  OBVIOUS
<1>4. IsNodeAfter(n, Len(graph)) /\ n.entry = BosEos /\ n.index = 1
  BY <1>2, <1>3, EntryFacts, NodeAfterFacts
<1>5. IsNodeAfter(n, Len(graph))'
  BY <1>1, <1>2, <1>4, NodeStays
<1>6. EosInv'
  BY <1>1, <1>3, <1>4, <1>5 DEF EosInv
<1> QED BY <1>1, <1>6, GraphUnchanged DEF LatticeInv

LEMMA NextKeepsLattice ==
    ASSUME LatticeInv, [Next]_vars
    PROVE  LatticeInv'
<1>1. CASE \E chunk \in Chunk : PushBack(chunk)
  BY <1>1, PushBackKeeps DEF LatticeInv
<1>2. CASE Settle
  BY <1>2, SettleKeeps DEF LatticeInv
<1>3. CASE UNCHANGED latticeVars
  <2>1. UNCHANGED <<connection, input, graph, eos>>
    BY <1>3 DEF latticeVars
  <2>2. GraphInv'
    BY <2>1, GraphUnchanged DEF LatticeInv
  <2>3. EosInv'
    BY <2>1 DEF LatticeInv, EosInv, IsNodeAfter
  <2> QED BY <2>2, <2>3 DEF LatticeInv
<1>4. CASE UNCHANGED vars
  BY <1>3, <1>4 DEF vars, latticeVars
<1>5. (\E p \in Patterns : Create(p)) => UNCHANGED latticeVars
  BY DEF Create
<1>6. OpenCap \/ NoMoreCaps \/ Increment \/ Destroy => UNCHANGED latticeVars
  BY DEF OpenCap, NoMoreCaps, Increment, Destroy
<1> QED BY <1>1, <1>2, <1>3, <1>4, <1>5, <1>6 DEF Next
-----------------------------------------------------------------------------
(* The paths                                                               *)

\* The Bos node, or a node that push_back() or settle() has made.
IsLatticeNode(n) == n = Bos \/ (n.preceding \in DOMAIN graph /\ IsNodeAfter(n, n.preceding))

\* m stands in the step that n names as its preceding one.
IsLink(n, m) ==
    n.preceding \in DOMAIN graph /\ \E j \in DOMAIN graph[n.preceding].nodes : m = graph[n.preceding].nodes[j]

\* A tail of a path: backwards over links.
IsChain(p) ==
    /\ p \in Seq(Node) /\ Len(p) \in Nat \ {0}
    /\ \A k \in 1..Len(p) - 1 : IsLink(p[k], p[k + 1])
    /\ \A k \in 1..Len(p) : IsLatticeNode(p[k])

IsPathFrom(p, n) == IsChain(p) /\ p[1] = n /\ p[Len(p)].preceding = NoStep

LEMMA NodesAreLatticeNodes ==
    ASSUME GraphInv, NEW s \in DOMAIN graph, NEW i \in DOMAIN graph[s].nodes
    PROVE  LET n == graph[s].nodes[i]
           IN  /\ n \in Node /\ IsLatticeNode(n) /\ n.preceding < s
               /\ n.preceding = NoStep <=> s = 1
               /\ s = 1 <=> n = Bos
<1>1. PICK n : n = graph[s].nodes[i]
  OBVIOUS
<1>2. DOMAIN graph = 1..Len(graph) /\ Len(graph) \in Nat /\ n \in Node
  BY <1>1, GraphFacts
<1>3. CASE s = 1
  <2>1. graph[1].nodes = <<Bos>>
    BY DEF GraphInv
  <2>2. n = Bos
    BY <1>1, <1>3, <2>1
  <2> QED BY <1>1, <1>2, <1>3, <2>2 DEF IsLatticeNode, Bos, NoStep
<1>4. CASE s # 1
  <2>1. IsStepNode(connection, graph, input, s, i, n)
    BY <1>1, <1>2, <1>4 DEF GraphInv, IsStepOf
  <2>2. n.preceding < s /\ IsNodeAfter(n, n.preceding)
    BY <2>1 DEF IsStepNode, IsNodeAfter
  <2>3. n.preceding \in DOMAIN graph /\ n.preceding # NoStep
    <3>1. n.preceding \in DOMAIN graph
      BY <2>2 DEF IsNodeAfter, IsNodeIn
    <3> QED BY <3>1, <1>2 DEF NoStep
  <2>4. n # Bos
    BY <2>3 DEF Bos
  <2> QED BY <1>1, <1>2, <1>4, <2>2, <2>3, <2>4 DEF IsLatticeNode
<1> QED BY <1>3, <1>4

LEMMA LatticeNodeFacts ==
    ASSUME GraphInv, NEW n, IsLatticeNode(n)
    PROVE  /\ n \in Node /\ n.preceding \in 0..Len(graph)
           /\ n.preceding = NoStep <=> n = Bos
           /\ n # Bos => n.preceding \in DOMAIN graph /\ IsNodeAfter(n, n.preceding)
<1>1. DOMAIN graph = 1..Len(graph) /\ Len(graph) \in Nat
  BY GraphFacts
<1>2. CASE n = Bos
  BY <1>1, <1>2, EntryFacts DEF Bos, Node, NoStep
<1>3. CASE n # Bos
  <2>1. n.preceding \in DOMAIN graph /\ IsNodeAfter(n, n.preceding)
    BY <1>3 DEF IsLatticeNode
  <2>2. n \in Node
    BY <2>1 DEF IsNodeAfter, IsNodeIn
  <2> QED BY <1>1, <1>3, <2>1, <2>2 DEF NoStep
<1> QED BY <1>2, <1>3

\* What a link leads to.
LEMMA LinkFacts ==
    ASSUME GraphInv, NEW n, NEW m, IsLink(n, m)
    PROVE  /\ n.preceding \in DOMAIN graph /\ m \in Node /\ IsLatticeNode(m) /\ m.preceding < n.preceding
           /\ m.preceding \in Nat
           /\ (m = Bos <=> n.preceding = 1)
<1>1. n.preceding \in DOMAIN graph
  BY DEF IsLink
<1>2. PICK j \in DOMAIN graph[n.preceding].nodes : m = graph[n.preceding].nodes[j]
  BY DEF IsLink
<1>3. PICK s \in DOMAIN graph : s = n.preceding
  BY <1>1
<1>4. m = graph[s].nodes[j] /\ j \in DOMAIN graph[s].nodes
  BY <1>2, <1>3
<1>5. m \in Node /\ IsLatticeNode(m) /\ m.preceding < s /\ (s = 1 <=> m = Bos)
  BY <1>4, NodesAreLatticeNodes
<1>6. m.preceding \in Nat
  BY <1>5 DEF Node
<1> QED BY <1>1, <1>3, <1>5, <1>6

Endings(f, s, i) ==
    LET n == graph[s].nodes[i]
    IN  IF s = 1 THEN {<<n>>}
        ELSE {<<n>> \o p : p \in UNION {f[n.preceding][j] : j \in DOMAIN graph[n.preceding].nodes}}

AreEndings(f) ==
    f = [s \in DOMAIN graph |->
          [i \in DOMAIN graph[s].nodes |->
              LET n == graph[s].nodes[i]
              IN  IF s = 1 THEN {<<n>>}
                  ELSE {<<n>> \o p : p \in UNION {f[n.preceding][j] : j \in DOMAIN graph[n.preceding].nodes}}]]

LEMMA EndingsExist == ASSUME GraphInv PROVE \E f : AreEndings(f)
<1> DEFINE Upto(f, n) == f = [s \in 1..n |-> [i \in DOMAIN graph[s].nodes |-> Endings(f, s, i)]]
           T == {n \in Nat : n <= Len(graph) => \E f : Upto(f, n)}
<1>0. DOMAIN graph = 1..Len(graph) /\ Len(graph) \in Nat
  BY GraphFacts
<1>1. 0 \in T
  <2> DEFINE f == [s \in 1..0 |-> 0]
  <2>1. 1..0 = {}
    OBVIOUS
  <2>2. Upto(f, 0)
    BY <2>1
  <2> QED BY <2>2
<1>2. ASSUME NEW n \in Nat, n \in T PROVE n + 1 \in T
  <2> SUFFICES ASSUME n + 1 <= Len(graph) PROVE \E f : Upto(f, n + 1)
    OBVIOUS
  <2>1. PICK g : Upto(g, n)
    BY <1>2
  <2> DEFINE new == [i \in DOMAIN graph[n + 1].nodes |-> Endings(g, n + 1, i)]
             f == [s \in 1..n + 1 |-> IF s = n + 1 THEN new ELSE g[s]]
  <2>2. \A s \in 1..n : f[s] = g[s]
    OBVIOUS
  <2>3. f[n + 1] = new
    OBVIOUS
  <2>4. \A s \in 1..n : g[s] = [i \in DOMAIN graph[s].nodes |-> Endings(g, s, i)]
    <3> TAKE s \in 1..n
    <3>1. g = [t \in 1..n |-> [i \in DOMAIN graph[t].nodes |-> Endings(g, t, i)]]
      BY <2>1
    <3> DEFINE E(t) == [i \in DOMAIN graph[t].nodes |-> Endings(g, t, i)]
    <3>2. g = [t \in 1..n |-> E(t)]
      BY <3>1
    <3> HIDE DEF E
    <3>3. g[s] = E(s)
      BY <3>2
    <3> QED BY <3>3 DEF E
  <2> HIDE DEF f, new
  <2>5. ASSUME NEW s \in 1..n + 1, NEW i \in DOMAIN graph[s].nodes
        PROVE  Endings(f, s, i) = Endings(g, s, i)
    <3>1. CASE s = 1
      BY <3>1 DEF Endings
    <3>2. CASE s # 1
      <4>1. PICK m : m = graph[s].nodes[i]
        OBVIOUS
      <4>2. s \in DOMAIN graph
        BY <1>0
      <4>3. m.preceding < s /\ m \in Node /\ m.preceding # 0
        BY <4>1, <4>2, <3>2, NodesAreLatticeNodes DEF NoStep
      <4>4. m.preceding \in 1..n
        BY <4>3 DEF Node
      <4>5. f[m.preceding] = g[m.preceding]
        BY <4>4, <2>2
      <4> QED BY <4>1, <4>5, <3>2 DEF Endings
    <3> QED BY <3>1, <3>2
  <2>6. \A s \in 1..n + 1 : f[s] = [i \in DOMAIN graph[s].nodes |-> Endings(g, s, i)]
    <3> TAKE s \in 1..n + 1
    <3>1. CASE s = n + 1
      BY <3>1, <2>3 DEF new
    <3>2. CASE s \in 1..n
      BY <3>2, <2>2, <2>4
    <3> QED BY <3>1, <3>2
  <2>7. \A s \in 1..n + 1 : f[s] = [i \in DOMAIN graph[s].nodes |-> Endings(f, s, i)]
    <3> TAKE s \in 1..n + 1
    <3>1. [i \in DOMAIN graph[s].nodes |-> Endings(f, s, i)] = [i \in DOMAIN graph[s].nodes |-> Endings(g, s, i)]
      BY <2>5
    <3> QED BY <3>1, <2>6
  <2>8. f = [s \in 1..n + 1 |-> f[s]]
    BY DEF f
  <2>9. f = [s \in 1..n + 1 |-> [i \in DOMAIN graph[s].nodes |-> Endings(f, s, i)]]
    <3> DEFINE E(s) == [i \in DOMAIN graph[s].nodes |-> Endings(f, s, i)]
    <3>1. \A s \in 1..n + 1 : f[s] = E(s)
      BY <2>7
    <3> HIDE DEF E
    <3>2. f = [s \in 1..n + 1 |-> E(s)]
      BY <3>1, <2>8
    <3> QED BY <3>2 DEF E
  <2> QED BY <2>9
<1>3. Nat \subseteq T
  <2> HIDE DEF T
  <2> QED BY <1>1, <1>2, SetInduction
<1>4. PICK f : Upto(f, Len(graph))
  BY <1>0, <1>3
<1>5. AreEndings(f)
  BY <1>4, <1>0 DEF AreEndings, Endings
<1> QED BY <1>5

LEMMA PathsFacts ==
    ASSUME GraphInv, NEW s \in DOMAIN graph, NEW i \in DOMAIN graph[s].nodes
    PROVE  Paths[s][i] = Endings(Paths, s, i)
<1> DEFINE f == CHOOSE f : AreEndings(f)
<1>1. AreEndings(f)
  BY EndingsExist
<1>2. Paths = f
  BY DEF Paths, AreEndings
<1> HIDE DEF f
<1> DEFINE E(g, t) == [k \in DOMAIN graph[t].nodes |-> Endings(g, t, k)]
<1>3. f = [t \in DOMAIN graph |-> E(f, t)]
  BY <1>1 DEF AreEndings, Endings
<1>4. E(f, s)[i] = Endings(f, s, i)
  OBVIOUS
<1> HIDE DEF E
<1>5. f[s] = E(f, s)
  BY <1>3
<1>6. f[s][i] = Endings(f, s, i)
  BY <1>4, <1>5
<1> QED BY <1>2, <1>6

\* A node in front of a chain to which it links.
LEMMA ChainBegins ==
    ASSUME GraphInv, NEW n, IsLatticeNode(n), n \in Node, NEW p, IsChain(p), IsLink(n, p[1])
    PROVE  /\ IsChain(<<n>> \o p) /\ (<<n>> \o p)[1] = n /\ Len(<<n>> \o p) = Len(p) + 1
           /\ \A k \in 1..Len(p) : (<<n>> \o p)[k + 1] = p[k]
<1>1. <<n>> \in Seq(Node) /\ Len(<<n>>) = 1 /\ <<n>>[1] = n
  OBVIOUS
<1>2. p \in Seq(Node) /\ Len(p) \in Nat \ {0}
  BY DEF IsChain
<1> DEFINE q == <<n>> \o p
           one == <<n>>
<1> HIDE DEF one
<1>3. q \in Seq(Node) /\ IsJoin(q, one, p)
  <2>1. one \in Seq(Node)
    BY <1>1 DEF one
  <2> QED BY <2>1, <1>2, JoinProperties DEF one
<1>4. one[1] = n /\ Len(one) = 1
  BY <1>1 DEF one
<1> HIDE DEF q
<1>5. Len(q) = Len(p) + 1 /\ q[1] = n /\ \A k \in 1..Len(p) : q[k + 1] = p[k]
  <2>1. Len(q) = 1 + Len(p) /\ (\A k \in 1..1 : q[k] = one[k]) /\ \A k \in 1..Len(p) : q[1 + k] = p[k]
    BY <1>3, <1>4 DEF IsJoin
  <2>2. \A k \in 1..Len(p) : 1 + k = k + 1
    OBVIOUS
  <2> QED BY <2>1, <2>2, <1>2, <1>4
<1>6. ASSUME NEW k \in 1..Len(q) - 1 PROVE IsLink(q[k], q[k + 1])
  <2>1. CASE k = 1
    <3>1. q[2] = p[1]
      BY <1>2, <1>5
    <3> QED BY <3>1, <2>1, <1>5
  <2>2. CASE k # 1
    <3>1. PICK j \in 1..Len(p) - 1 : k = j + 1
      <4>1. k - 1 \in 1..Len(p) - 1 /\ k = (k - 1) + 1
        BY <1>2, <1>5, <2>2
      <4> QED BY <4>1
    <3>2. q[k] = p[j] /\ q[k + 1] = p[j + 1]
      BY <1>2, <1>5, <3>1
    <3>3. IsLink(p[j], p[j + 1])
      BY <3>1 DEF IsChain
    <3> QED BY <3>2, <3>3
  <2> QED BY <2>1, <2>2
<1>7. ASSUME NEW k \in 1..Len(q) PROVE IsLatticeNode(q[k])
  <2>1. CASE k = 1
    BY <2>1, <1>5
  <2>2. CASE k # 1
    <3>1. PICK j \in 1..Len(p) : k = j + 1
      <4>1. k - 1 \in 1..Len(p) /\ k = (k - 1) + 1
        BY <1>2, <1>5, <2>2
      <4> QED BY <4>1
    <3>2. IsLatticeNode(p[j])
      BY DEF IsChain
    <3> QED BY <3>1, <3>2, <1>5
  <2> QED BY <2>1, <2>2
<1>8. IsChain(q)
  BY <1>2, <1>3, <1>5, <1>6, <1>7 DEF IsChain
<1> QED BY <1>5, <1>8 DEF q

\* And the chain without its first node.
LEMMA ChainRest ==
    ASSUME GraphInv, NEW q, IsChain(q), Len(q) # 1
    PROVE  \E p : /\ IsChain(p) /\ IsLink(q[1], p[1]) /\ q = <<q[1]>> \o p /\ Len(q) = Len(p) + 1
                  /\ \A k \in 1..Len(p) : p[k] = q[k + 1]
<1>1. q \in Seq(Node) /\ Len(q) \in Nat \ {0}
  BY DEF IsChain
<1> DEFINE p == SubSeq(q, 1 + 1, Len(q))
<1>2. p \in Seq(Node) /\ IsPart(p, q, 1, Len(q))
  <2>1. 1 \in Nat /\ Len(q) \in Nat /\ 1 <= Len(q) /\ Len(q) <= Len(q)
    BY <1>1
  <2> QED BY <2>1, <1>1, PartProperties
<1> HIDE DEF p
<1>3. Len(p) = Len(q) - 1 /\ \A k \in 1..Len(p) : p[k] = q[k + 1]
  <2>1. Len(p) = Len(q) - 1 /\ \A k \in 1..Len(q) - 1 : p[k] = q[1 + k]
    BY <1>2 DEF IsPart
  <2>2. \A k \in 1..Len(q) - 1 : 1 + k = k + 1
    OBVIOUS
  <2> QED BY <2>1, <2>2
<1>4. Len(p) \in Nat \ {0}
  BY <1>1, <1>3
<1>5. IsChain(p)
  <2>1. ASSUME NEW k \in 1..Len(p) - 1 PROVE IsLink(p[k], p[k + 1])
    <3>1. k + 1 \in 1..Len(q) - 1 /\ k \in 1..Len(p) /\ k + 1 \in 1..Len(p)
      BY <1>1, <1>3
    <3>2. IsLink(q[k + 1], q[(k + 1) + 1])
      BY <3>1 DEF IsChain
    <3> QED BY <3>1, <3>2, <1>3
  <2>2. ASSUME NEW k \in 1..Len(p) PROVE IsLatticeNode(p[k])
    <3>1. k + 1 \in 1..Len(q)
      BY <1>1, <1>3
    <3>2. IsLatticeNode(q[k + 1])
      BY <3>1 DEF IsChain
    <3> QED BY <3>2, <1>3
  <2> QED BY <1>2, <1>4, <2>1, <2>2 DEF IsChain
<1>6. IsLink(q[1], p[1])
  <2>1. 1 \in 1..Len(q) - 1 /\ 1 \in 1..Len(p) /\ 1 + 1 = 2
    BY <1>1, <1>3, <1>4
  <2>2. IsLink(q[1], q[1 + 1])
    BY <2>1 DEF IsChain
  <2> QED BY <2>1, <2>2, <1>3
<1>7. q = <<q[1]>> \o p
  <2>1. q[1] \in Node /\ IsLatticeNode(q[1])
    <3>1. 1 \in 1..Len(q)
      BY <1>1
    <3> QED BY <3>1, <1>1, ElementOfSeq DEF IsChain
  <2>2. PICK r : r = <<q[1]>> \o p
    OBVIOUS
  <2>3. IsChain(r) /\ r[1] = q[1] /\ Len(r) = Len(p) + 1 /\ \A k \in 1..Len(p) : r[k + 1] = p[k]
    BY <2>1, <2>2, <1>5, <1>6, ChainBegins
  <2>4. r \in Seq(Node) /\ Len(r) = Len(q)
    BY <2>3, <1>3, <1>1 DEF IsChain
  <2>5. ASSUME NEW k \in 1..Len(q) PROVE r[k] = q[k]
    <3>1. CASE k = 1
      BY <3>1, <2>3
    <3>2. CASE k # 1
      <4>1. k - 1 \in 1..Len(p) /\ (k - 1) + 1 = k
        BY <3>2, <1>1, <1>3
      <4>2. r[(k - 1) + 1] = p[k - 1] /\ p[k - 1] = q[(k - 1) + 1]
        BY <4>1, <2>3, <1>3
      <4> QED BY <4>1, <4>2
    <3> QED BY <3>1, <3>2
  <2>6. r = q
    BY <1>1, <2>4, <2>5, SeqEqual
  <2> QED BY <2>2, <2>6
<1> QED BY <1>3, <1>5, <1>6, <1>7

LEMMA OneNodeChain ==
    ASSUME GraphInv, NEW n, IsLatticeNode(n)
    PROVE  IsChain(<<n>>) /\ <<n>>[1] = n /\ Len(<<n>>) = 1
<1>1. n \in Node
  BY LatticeNodeFacts
<1>2. PICK p : p = <<n>>
  OBVIOUS
<1>3. p \in Seq(Node) /\ Len(p) = 1 /\ p[1] = n
  BY <1>1, <1>2
<1>4. IsChain(p)
  BY <1>3 DEF IsChain
<1> QED BY <1>2, <1>3, <1>4

\* A path from a node is the node and a path from one that it links to.
LEMMA PathSteps ==
    ASSUME GraphInv, NEW n, IsLatticeNode(n)
    PROVE  /\ n = Bos => \A p : IsPathFrom(p, n) <=> p = <<n>>
           /\ n # Bos => \A p : IsPathFrom(p, n) <=>
                 \E j \in DOMAIN graph[n.preceding].nodes : \E q :
                    IsPathFrom(q, graph[n.preceding].nodes[j]) /\ p = <<n>> \o q
<1>1. n \in Node /\ (n.preceding = NoStep <=> n = Bos) /\ (n # Bos => n.preceding \in DOMAIN graph)
  BY LatticeNodeFacts
<1>2. ASSUME NEW p, n = Bos, IsPathFrom(p, n) PROVE p = <<n>>
  <2>1. IsChain(p) /\ p[1] = n
    BY <1>2 DEF IsPathFrom
  <2>2. CASE Len(p) = 1
    <3>1. p \in Seq(Node)
      BY <2>1 DEF IsChain
    <3>2. PICK q : q = <<n>>
      OBVIOUS
    <3>3. q \in Seq(Node) /\ Len(q) = 1 /\ q[1] = n
      BY <1>1, <3>2
    <3>4. \A k \in 1..Len(p) : p[k] = q[k]
      BY <2>1, <2>2, <3>3
    <3> QED BY <2>2, <3>1, <3>2, <3>3, <3>4, SeqEqual
  <2>3. CASE Len(p) # 1
    <3>1. \E q : IsLink(p[1], q[1])
      BY <2>1, <2>3, ChainRest
    <3>2. n.preceding \in DOMAIN graph
      BY <2>1, <3>1 DEF IsLink
    <3>3. 0 \notin DOMAIN graph
      BY GraphFacts
    <3> QED BY <1>1, <1>2, <3>2, <3>3 DEF NoStep
  <2> QED BY <2>2, <2>3
<1>3. ASSUME NEW p, n = Bos, p = <<n>> PROVE IsPathFrom(p, n)
  <2>1. IsChain(p) /\ p[1] = n /\ Len(p) = 1
    BY <1>3, OneNodeChain
  <2> QED BY <2>1, <1>1, <1>3 DEF IsPathFrom
<1>4. ASSUME NEW p, n # Bos, IsPathFrom(p, n)
      PROVE  \E j \in DOMAIN graph[n.preceding].nodes : \E q :
                IsPathFrom(q, graph[n.preceding].nodes[j]) /\ p = <<n>> \o q
  <2>1. IsChain(p) /\ p[1] = n /\ p[Len(p)].preceding = NoStep
    BY <1>4 DEF IsPathFrom
  <2>2. Len(p) # 1
    BY <2>1, <1>1, <1>4
  <2>3. PICK q : /\ IsChain(q) /\ IsLink(p[1], q[1]) /\ p = <<p[1]>> \o q /\ Len(p) = Len(q) + 1
                 /\ \A k \in 1..Len(q) : q[k] = p[k + 1]
    BY <2>1, <2>2, ChainRest
  <2>4. q[Len(q)] = p[Len(p)]
    <3>1. Len(q) \in Nat \ {0}
      BY <2>3 DEF IsChain
    <3> QED BY <3>1, <2>3
  <2>5. PICK j \in DOMAIN graph[n.preceding].nodes : q[1] = graph[n.preceding].nodes[j]
    BY <2>1, <2>3 DEF IsLink
  <2>6. IsPathFrom(q, graph[n.preceding].nodes[j])
    BY <2>1, <2>3, <2>4, <2>5 DEF IsPathFrom
  <2> QED BY <2>1, <2>3, <2>5, <2>6
<1>5. ASSUME NEW p, n # Bos, NEW j \in DOMAIN graph[n.preceding].nodes, NEW q,
             IsPathFrom(q, graph[n.preceding].nodes[j]), p = <<n>> \o q
      PROVE  IsPathFrom(p, n)
  <2>1. IsChain(q) /\ q[1] = graph[n.preceding].nodes[j] /\ q[Len(q)].preceding = NoStep
    BY <1>5 DEF IsPathFrom
  <2>2. IsLink(n, q[1])
    BY <1>1, <1>5, <2>1 DEF IsLink
  <2>3. IsChain(p) /\ p[1] = n /\ Len(p) = Len(q) + 1 /\ \A k \in 1..Len(q) : p[k + 1] = q[k]
    BY <1>1, <1>5, <2>1, <2>2, ChainBegins
  <2>4. p[Len(p)] = q[Len(q)]
    <3>1. Len(q) \in Nat \ {0}
      BY <2>1 DEF IsChain
    <3> QED BY <3>1, <2>3
  <2> QED BY <2>1, <2>3, <2>4 DEF IsPathFrom
<1> QED BY <1>2, <1>3, <1>4, <1>5

\* The reference enumerates the paths.
LEMMA PathsArePaths ==
    ASSUME GraphInv
    PROVE  \A s \in DOMAIN graph : \A i \in DOMAIN graph[s].nodes : \A p :
              p \in Paths[s][i] <=> IsPathFrom(p, graph[s].nodes[i])
<1> DEFINE T == {n \in Nat : \A s \in DOMAIN graph : s <= n =>
                    \A i \in DOMAIN graph[s].nodes : \A p :
                       p \in Paths[s][i] <=> IsPathFrom(p, graph[s].nodes[i])}
<1>0. DOMAIN graph = 1..Len(graph) /\ Len(graph) \in Nat
  BY GraphFacts
<1>1. 0 \in T
  BY <1>0
<1>2. ASSUME NEW n \in Nat, n \in T PROVE n + 1 \in T
  <2> SUFFICES ASSUME NEW s \in DOMAIN graph, s <= n + 1, NEW i \in DOMAIN graph[s].nodes, NEW p
               PROVE  p \in Paths[s][i] <=> IsPathFrom(p, graph[s].nodes[i])
    OBVIOUS
  <2>1. PICK x : x = graph[s].nodes[i]
    OBVIOUS
  <2>2. x \in Node /\ IsLatticeNode(x) /\ x.preceding < s /\ (s = 1 <=> x = Bos) /\ x.preceding \in Nat
    BY <2>1, NodesAreLatticeNodes DEF Node
  <2>3. Paths[s][i] = Endings(Paths, s, i)
    BY PathsFacts
  <2>4. CASE s = 1
    <3>1. Paths[s][i] = {<<x>>}
      BY <2>1, <2>3, <2>4 DEF Endings
    <3> QED BY <3>1, <2>1, <2>2, <2>4, PathSteps
  <2>5. CASE s # 1
    <3>1. Paths[s][i] = {<<x>> \o q : q \in UNION {Paths[x.preceding][j] : j \in DOMAIN graph[x.preceding].nodes}}
      BY <2>1, <2>3, <2>5 DEF Endings
    <3>2. x.preceding \in DOMAIN graph /\ x.preceding <= n
      BY <2>2, <2>5, <1>0, LatticeNodeFacts
    <3>3. \A j \in DOMAIN graph[x.preceding].nodes : \A q :
             q \in Paths[x.preceding][j] <=> IsPathFrom(q, graph[x.preceding].nodes[j])
      BY <1>2, <3>2
    <3>4. p \in Paths[s][i] <=> \E j \in DOMAIN graph[x.preceding].nodes : \E q :
             q \in Paths[x.preceding][j] /\ p = <<x>> \o q
      BY <3>1
    <3>5. IsPathFrom(p, x) <=> \E j \in DOMAIN graph[x.preceding].nodes : \E q :
             IsPathFrom(q, graph[x.preceding].nodes[j]) /\ p = <<x>> \o q
      BY <2>2, <2>5, PathSteps
    <3> QED BY <3>3, <3>4, <3>5, <2>1
  <2> QED BY <2>4, <2>5
<1>3. Nat \subseteq T
  <2> HIDE DEF T
  <2> QED BY <1>1, <1>2, SetInduction
<1> QED BY <1>0, <1>3

LEMMA WholePathsArePaths ==
    ASSUME LatticeInv, eos # NoNode
    PROVE  /\ IsLatticeNode(eos) /\ eos.preceding = Len(graph) /\ eos # Bos
           /\ \A p : p \in WholePaths <=> IsPathFrom(p, eos)
<1>1. GraphInv /\ IsNodeAfter(eos, Len(graph))
  BY DEF LatticeInv, EosInv
<1>2. eos.preceding = Len(graph) /\ Len(graph) \in DOMAIN graph
  BY <1>1, GraphFacts DEF IsNodeAfter, IsNodeIn
<1>3. IsLatticeNode(eos)
  BY <1>1, <1>2 DEF IsLatticeNode
<1>4. eos # Bos
  <2>1. 0 \notin DOMAIN graph
    BY <1>1, GraphFacts
  <2> QED BY <2>1, <1>2 DEF Bos, NoStep
<1>5. WholePaths = {<<eos>> \o p : p \in UNION {Paths[eos.preceding][i] : i \in DOMAIN graph[eos.preceding].nodes}}
  BY DEF WholePaths
<1>6. \A j \in DOMAIN graph[eos.preceding].nodes : \A q :
         q \in Paths[eos.preceding][j] <=> IsPathFrom(q, graph[eos.preceding].nodes[j])
  BY <1>1, <1>2, PathsArePaths
<1>7. ASSUME NEW p PROVE p \in WholePaths <=> IsPathFrom(p, eos)
  <2>1. p \in WholePaths <=> \E j \in DOMAIN graph[eos.preceding].nodes : \E q :
           q \in Paths[eos.preceding][j] /\ p = <<eos>> \o q
    BY <1>5
  <2>2. IsPathFrom(p, eos) <=> \E j \in DOMAIN graph[eos.preceding].nodes : \E q :
           IsPathFrom(q, graph[eos.preceding].nodes[j]) /\ p = <<eos>> \o q
    BY <1>1, <1>3, <1>4, PathSteps
  <2> QED BY <2>1, <2>2, <1>6
<1> QED BY <1>2, <1>3, <1>4, <1>7
-----------------------------------------------------------------------------
(* The cheapest path                                                       *)

\* A chain goes back at least one step with every node.
LEMMA ChainLength ==
    ASSUME GraphInv, NEW p, IsChain(p)
    PROVE  /\ \A k \in 1..Len(p) : p[k] \in Node /\ p[k].preceding \in Nat /\ p[k].preceding + k <= p[1].preceding + 1
           /\ Len(p) <= p[1].preceding + 1 /\ p[1].preceding <= Len(graph)
<1>1. p \in Seq(Node) /\ Len(p) \in Nat \ {0}
  BY DEF IsChain
<1>2. \A k \in 1..Len(p) : p[k] \in Node /\ p[k].preceding \in Nat /\ p[k].preceding <= Len(graph)
  <2> TAKE k \in 1..Len(p)
  <2>1. IsLatticeNode(p[k])
    BY DEF IsChain
  <2>2. p[k] \in Node /\ p[k].preceding \in 0..Len(graph) /\ Len(graph) \in Nat
    BY <2>1, LatticeNodeFacts, GraphFacts
  <2> QED BY <2>2
<1> DEFINE c == [k \in 1..Len(p) |-> p[k].preceding]
<1>3. \A k \in 1..Len(p) : c[k] = p[k].preceding /\ c[k] \in Nat
  BY <1>2
<1> HIDE DEF c
<1>4. \A k \in 1..Len(p) - 1 : c[k + 1] < c[k]
  <2> TAKE k \in 1..Len(p) - 1
  <2>1. IsLink(p[k], p[k + 1]) /\ k \in 1..Len(p) /\ k + 1 \in 1..Len(p)
    BY <1>1 DEF IsChain
  <2>2. p[k + 1].preceding < p[k].preceding
    BY <2>1, LinkFacts
  <2> QED BY <2>1, <2>2, <1>3
<1> DEFINE T == {k \in Nat : k + 1 <= Len(p) => c[k + 1] + k <= c[1]}
<1>5. 0 \in T
  BY <1>1, <1>3
<1>6. ASSUME NEW k \in Nat, k \in T PROVE k + 1 \in T
  <2> SUFFICES ASSUME (k + 1) + 1 <= Len(p) PROVE c[(k + 1) + 1] + (k + 1) <= c[1]
    OBVIOUS
  <2>1. c[k + 1] + k <= c[1]
    BY <1>1, <1>6
  <2>2. k + 1 \in 1..Len(p) - 1 /\ k + 1 \in 1..Len(p) /\ (k + 1) + 1 \in 1..Len(p) /\ 1 \in 1..Len(p)
    BY <1>1
  <2> QED BY <2>1, <2>2, <1>3, <1>4
<1>7. Nat \subseteq T
  <2> HIDE DEF T
  <2> QED BY <1>5, <1>6, SetInduction
<1>8. \A k \in 1..Len(p) : c[k] + k <= c[1] + 1
  <2> TAKE k \in 1..Len(p)
  <2>1. k - 1 \in Nat /\ (k - 1) + 1 = k /\ k <= Len(p) /\ 1 \in 1..Len(p)
    BY <1>1
  <2>2. c[k] + (k - 1) <= c[1]
    BY <2>1, <1>7
  <2> QED BY <2>1, <2>2, <1>3
<1>9. \A k \in 1..Len(p) : p[k].preceding + k <= p[1].preceding + 1
  BY <1>1, <1>3, <1>8
<1>10. Len(p) \in 1..Len(p) /\ 1 \in 1..Len(p)
  BY <1>1
<1> QED BY <1>2, <1>9, <1>10, <1>1

LEMMA ChainFits ==
    ASSUME GraphInv, NEW d, LinkCosts(d), NEW p, IsChain(p)
    PROVE  Fits(p, d)
<1>1. p \in Seq(Node) /\ Len(p) \in Nat \ {0}
  BY DEF IsChain
<1>2. d \in Nat /\ MaxSteps * d < MaxCost /\ connection \in Connections
  BY DEF LinkCosts, GraphInv
<1>3. Len(p) - 1 \in Nat /\ MaxSteps \in Nat /\ Len(p) - 1 <= MaxSteps
  <2>1. Len(p) <= p[1].preceding + 1 /\ p[1].preceding <= Len(graph) /\ p[1].preceding \in Nat
    <3>1. 1 \in 1..Len(p)
      BY <1>1
    <3> QED BY <3>1, ChainLength
  <2>2. Len(graph) \in Nat /\ Len(graph) <= MaxSteps /\ MaxSteps \in Nat
    BY GraphFacts, StepsAssumption
  <2> QED BY <1>1, <2>1, <2>2
<1>4. (Len(p) - 1) * d < MaxCost
  <2> DEFINE l == Len(p) - 1
  <2>1. l \in Nat /\ MaxSteps \in Nat /\ l <= MaxSteps
    BY <1>3
  <2> HIDE DEF l
  <2>2. l * d <= MaxSteps * d /\ l * d \in Nat /\ MaxSteps * d \in Nat
    BY <2>1, <1>2, Multiples
  <2>3. l * d < MaxCost
    BY <2>2, <1>2, MaxCostAssumption
  <2> QED BY <2>3 DEF l
<1>5. ASSUME NEW k \in 1..Len(p) - 1 PROVE LinkOf(p, k) \in Within(d)
  <2>1. k \in 1..Len(p) /\ k + 1 \in 1..Len(p)
    BY <1>1
  <2>2. p[k] \in Node /\ p[k + 1] \in Node
    BY <2>1, <1>1, ElementOfSeq
  <2>3. p[k].entry \in AllEntries /\ p[k + 1].entry \in AllEntries
    BY <2>2 DEF Node
  <2> QED BY <1>2, <2>3 DEF LinkCosts, LinkOf, Edge, Connection
<1> QED BY <1>1, <1>2, <1>4, <1>5 DEF Fits

\* A path from a node behind another one costs what the rest costs and the link.
LEMMA CostOfStep ==
    ASSUME GraphInv, NEW d, LinkCosts(d), NEW n, n # Bos, IsLatticeNode(n), NEW q, IsChain(q), IsLink(n, q[1])
    PROVE  PathCost(<<n>> \o q) = AddCost(AddCost(Edge(q[1], n), n.entry.cost), PathCost(q))
<1>1. PICK p : p = <<n>> \o q
  OBVIOUS
<1>2. n \in Node
  BY LatticeNodeFacts
<1>3. IsChain(p) /\ p[1] = n /\ Len(p) = Len(q) + 1 /\ \A k \in 1..Len(q) : p[k + 1] = q[k]
  BY <1>1, <1>2, ChainBegins
<1>4. Len(q) \in Nat \ {0} /\ Len(p) \in Nat \ {0}
  BY <1>3 DEF IsChain
<1>5. IsRest(q, p, 2)
  <2>1. \A k \in 1..Len(q) : q[k] = p[2 - 1 + k]
    BY <1>3, <1>4
  <2> QED BY <2>1, <1>3, <1>4 DEF IsRest
<1>6. Fits(p, d)
  BY <1>3, ChainFits
<1>7. PathCost(p) = AddCost(CostTo(p)[2 - 1], PathCost(q))
  BY <1>5, <1>6, CostSplit
<1>8. CostTo(p)[1] = AddCost(0, LinkOf(p, 1))
  <2>1. 1 \in 1..Len(p) - 1 /\ 1 - 1 = 0
    BY <1>3, <1>4
  <2>2. /\ CostTo(p)[0] = 0
        /\ \A k \in 1..Len(p) - 1 : CostTo(p)[k] = AddCost(CostTo(p)[k - 1], LinkOf(p, k))
    <3>1. Len(p) \in Nat \ {0}
      BY <1>4
    <3> QED BY <3>1, CostToFacts
  <2>3. CostTo(p)[1] = AddCost(CostTo(p)[1 - 1], LinkOf(p, 1))
    BY <2>1, <2>2
  <2> QED BY <2>1, <2>2, <2>3
<1>9. LinkOf(p, 1) = AddCost(Edge(q[1], n), n.entry.cost)
  <2>1. p[1 + 1] = q[1]
    BY <1>3, <1>4
  <2> QED BY <2>1, <1>3 DEF LinkOf
<1>10. LinkOf(p, 1) \in Within(d) /\ d \in Nat /\ d < MaxCost
  <2>1. 1 \in 1..Len(p) - 1
    BY <1>3, <1>4
  <2>2. LinkOf(p, 1) \in Within(d) /\ d \in Nat /\ (Len(p) - 1) * d < MaxCost
    BY <2>1, <1>6 DEF Fits
  <2> DEFINE l == Len(p) - 1
  <2>3. l \in Nat /\ 1 <= l /\ l * d < MaxCost
    BY <2>1, <2>2, <1>4
  <2> HIDE DEF l
  <2>4. 1 * d <= l * d /\ 1 * d = d /\ l * d \in Nat
    BY <2>2, <2>3, Multiples
  <2> QED BY <2>2, <2>3, <2>4, MaxCostAssumption
<1>11. AddCost(0, LinkOf(p, 1)) = LinkOf(p, 1)
  BY <1>10, WithinIsInt
<1>12. PathCost(p) = AddCost(LinkOf(p, 1), PathCost(q))
  BY <1>7, <1>8, <1>11
<1> QED BY <1>1, <1>9, <1>12

\* The cost that a node remembers is in range, is what some path to it costs,
\* and is not more than what any of them costs.
Optimal(n, d) ==
    /\ n.cost \in Within(n.preceding * d)
    /\ \E p : IsPathFrom(p, n) /\ PathCost(p) = n.cost
    /\ \A p : IsPathFrom(p, n) => n.cost <= PathCost(p)

LEMMA BosIsOptimal ==
    ASSUME GraphInv, NEW d, LinkCosts(d)
    PROVE  Optimal(Bos, d)
<1>1. IsLatticeNode(Bos)
  BY DEF IsLatticeNode
<1>2. \A p : IsPathFrom(p, Bos) <=> p = <<Bos>>
  BY <1>1, PathSteps
<1>3. PICK p : p = <<Bos>>
  OBVIOUS
<1>4. Len(p) = 1
  BY <1>3
<1>5. PathCost(p) = 0
  <2>1. CostTo(p)[0] = 0
    <3>1. Len(p) \in Nat \ {0}
      BY <1>4
    <3> QED BY <3>1, CostToFacts
  <2> QED BY <2>1, <1>4 DEF PathCost
<1>6. Bos.cost = 0 /\ Bos.preceding = 0
  BY DEF Bos, NoStep
<1>7. 0 \in Within(0 * d)
  <2>1. 0 * d = 0
    BY DEF LinkCosts
  <2> QED BY <2>1 DEF Within
<1> QED BY <1>2, <1>3, <1>5, <1>6, <1>7 DEF Optimal

\* What the nodes in front of a node remember makes its own cost the cheapest.
LEMMA NodeIsOptimal ==
    ASSUME GraphInv, NEW d, LinkCosts(d), NEW n, n # Bos, IsLatticeNode(n),
           \A m : IsLatticeNode(m) /\ m.preceding < n.preceding => Optimal(m, d)
    PROVE  Optimal(n, d)
<1>1. n \in Node /\ n.preceding \in DOMAIN graph /\ IsNodeAfter(n, n.preceding)
  BY LatticeNodeFacts
<1>2. PICK s \in DOMAIN graph : s = n.preceding
  BY <1>1
<1>3. /\ DOMAIN graph = 1..Len(graph) /\ Len(graph) \in Nat /\ Len(graph) <= MaxSteps /\ MaxSteps \in Nat
      /\ graph[s].nodes \in Seq(Node) /\ graph[s].nodes # <<>>
      /\ \A i \in DOMAIN graph[s].nodes : graph[s].nodes[i] \in Node
  BY GraphFacts, StepsAssumption
<1>4. d \in Nat /\ MaxSteps * d < MaxCost /\ connection \in Connections
  BY DEF LinkCosts, GraphInv
<1> DEFINE At(i) == graph[s].nodes[i]
           link(i) == AddCost(Edge(At(i), n), n.entry.cost)
<1>5. /\ n.edges = [i \in DOMAIN graph[s].nodes |-> connection[<<At(i).entry.name, n.entry.name>>]]
      /\ n.best = Best(graph[s], n.edges)
      /\ n.cost = AddCost(CostThrough(graph[s], n.edges, n.best), n.entry.cost)
  BY <1>1, <1>2 DEF IsNodeAfter, IsNodeIn
<1>6. ASSUME NEW i \in DOMAIN graph[s].nodes
      PROVE  /\ At(i) \in Node /\ IsLatticeNode(At(i)) /\ At(i).preceding \in Nat /\ At(i).preceding + 1 <= s
             /\ IsLink(n, At(i)) /\ Optimal(At(i), d) /\ At(i).entry \in AllEntries
  <2>1. At(i) \in Node /\ IsLatticeNode(At(i)) /\ At(i).preceding < s
    BY NodesAreLatticeNodes
  <2>2. At(i).preceding \in Nat /\ At(i).entry \in AllEntries
    BY <2>1 DEF Node
  <2>3. At(i).preceding + 1 <= s
    BY <2>1, <2>2, <1>3
  <2>4. IsLink(n, At(i))
    BY <1>1, <1>2 DEF IsLink
  <2>5. Optimal(At(i), d)
    BY <2>1, <1>2
  <2> QED BY <2>1, <2>2, <2>3, <2>4, <2>5
<1> HIDE DEF At
<1>7. s - 1 \in Nat /\ s \in Nat /\ s <= MaxSteps
  BY <1>3
<1> DEFINE w == (s - 1) * d
<1>8. w \in Nat /\ w + d = s * d /\ s * d \in Nat /\ s * d < MaxCost
  <2>1. (s - 1) * d \in Nat /\ (s - 1 + 1) * d = (s - 1) * d + 1 * d /\ 1 * d = d
    BY <1>4, <1>7, Multiples
  <2>2. s - 1 + 1 = s
    BY <1>7
  <2>3. s * d \in Nat /\ s * d <= MaxSteps * d /\ MaxSteps * d \in Nat
    BY <1>3, <1>4, <1>7, Multiples
  <2>4. s * d < MaxCost
    BY <2>3, <1>4, MaxCostAssumption
  <2> QED BY <2>1, <2>2, <2>3, <2>4
<1>9. ASSUME NEW i \in DOMAIN graph[s].nodes
      PROVE  At(i).cost \in Within(w)
  <2> DEFINE k == At(i).preceding
  <2>1. k \in Nat /\ k <= s - 1 /\ At(i).cost \in Within(k * d)
    BY <1>6, <1>7 DEF Optimal
  <2> HIDE DEF k
  <2>2. k * d <= (s - 1) * d /\ k * d \in Nat
    BY <2>1, <1>4, <1>7, Multiples
  <2> HIDE DEF w
  <2>3. k * d <= w
    BY <2>2 DEF w
  <2> QED BY <2>1, <2>2, <2>3, <1>8, WithinGrows
<1> HIDE DEF w
<1>10. n.entry \in AllEntries
  BY <1>1 DEF Node
<1>11. ASSUME NEW i \in DOMAIN graph[s].nodes
       PROVE  /\ n.edges[i] = Edge(At(i), n) /\ Edge(At(i), n) \in Int
              /\ link(i) \in Within(d) /\ Edge(At(i), n) \in Within(d)
              /\ link(i) = MaxCost <=> Edge(At(i), n) = MaxCost \/ n.entry.cost = MaxCost
              /\ CostThrough(graph[s], n.edges, i) = AddCost(At(i).cost, Edge(At(i), n))
  <2>1. n.edges[i] = connection[<<At(i).entry.name, n.entry.name>>]
    BY <1>5
  <2>2. n.edges[i] = Edge(At(i), n)
    BY <2>1 DEF Edge, Connection
  <2>3. Edge(At(i), n) \in Int /\ link(i) \in Within(d)
    BY <1>4, <1>6, <1>10 DEF LinkCosts, Edge, Connection
  <2>5. /\ Edge(At(i), n) \in Within(d)
        /\ link(i) = MaxCost <=> Edge(At(i), n) = MaxCost \/ n.entry.cost = MaxCost
    BY <1>4, <1>6, <1>10 DEF LinkCosts, Edge, Connection
  <2>4. CostThrough(graph[s], n.edges, i) = AddCost(At(i).cost, n.edges[i])
    BY DEF CostThrough, At
  <2> QED BY <2>2, <2>3, <2>4, <2>5
<1>20. \A i \in DOMAIN graph[s].nodes : n.edges[i] \in Int
  BY <1>11
<1>12. /\ n.best \in DOMAIN graph[s].nodes
       /\ \A j \in DOMAIN graph[s].nodes :
             CostThrough(graph[s], n.edges, n.best) <= CostThrough(graph[s], n.edges, j)
       /\ \A j \in DOMAIN graph[s].nodes : CostThrough(graph[s], n.edges, j) \in Int
  <2>1. PICK edges : edges = n.edges
    OBVIOUS
  <2>2. n.best = Best(graph[s], edges) /\ \A i \in DOMAIN graph[s].nodes : edges[i] \in Int
    BY <2>1, <1>5, <1>20
  <2>3. /\ Best(graph[s], edges) \in DOMAIN graph[s].nodes
        /\ \A j \in DOMAIN graph[s].nodes :
              CostThrough(graph[s], edges, Best(graph[s], edges)) <= CostThrough(graph[s], edges, j)
        /\ \A j \in DOMAIN graph[s].nodes : CostThrough(graph[s], edges, j) \in Int
    BY <2>2, <1>3, BestFacts
  <2> QED BY <2>1, <2>2, <2>3
<1>13. ASSUME NEW i \in DOMAIN graph[s].nodes
       PROVE  AddCost(CostThrough(graph[s], n.edges, i), n.entry.cost) = AddCost(link(i), At(i).cost)
  <2>1. n.entry.cost \in Int /\ At(i).cost \in Int
    <3>1. At(i).cost \in Int
      BY <1>6 DEF Node
    <3> QED BY <3>1, <1>10, EntryFacts
  <2>2. n.entry.cost \in Within(d)
    BY <1>10 DEF LinkCosts
  <2>3. w + d < MaxCost
    BY <1>8
  <2> DEFINE a == At(i).cost
             b == Edge(At(i), n)
             c == n.entry.cost
  <2>4. /\ a \in Within(w) /\ b \in Within(d) /\ c \in Within(d)
        /\ AddCost(b, c) = MaxCost <=> b = MaxCost \/ c = MaxCost
        /\ a \in Int /\ b \in Int /\ c \in Int
    BY <2>1, <2>2, <1>9, <1>11
  <2> HIDE DEF a, b, c
  <2>5. AddCost(AddCost(a, b), c) = AddCost(AddCost(b, c), a)
    BY <2>3, <2>4, <1>4, <1>8, MaxCostAssumption DEF AddCost, Within
  <2> QED BY <2>5, <1>11 DEF a, b, c
<1>14. n.cost = AddCost(link(n.best), At(n.best).cost) /\ n.cost \in Within(s * d)
  <2>1. n.cost = AddCost(link(n.best), At(n.best).cost)
    BY <1>5, <1>12, <1>13
  <2>2. link(n.best) \in Within(d) /\ At(n.best).cost \in Within(w)
    BY <1>9, <1>11, <1>12
  <2>3. AddCost(link(n.best), At(n.best).cost) \in Within(d + w)
    <3>1. d + w < MaxCost
      BY <1>4, <1>8
    <3> QED BY <3>1, <2>2, <1>4, <1>8, AddWithin
  <2>4. d + w = s * d
    BY <1>4, <1>8
  <2> QED BY <2>1, <2>3, <2>4
<1>15. ASSUME NEW j \in DOMAIN graph[s].nodes, NEW q, IsPathFrom(q, At(j))
       PROVE  PathCost(<<n>> \o q) = AddCost(link(j), PathCost(q)) /\ PathCost(q) \in Within(w)
  <2>1. IsChain(q) /\ q[1] = At(j)
    BY <1>15 DEF IsPathFrom
  <2>2. PathCost(<<n>> \o q) = AddCost(link(j), PathCost(q))
    BY <2>1, <1>6, CostOfStep
  <2> DEFINE l == Len(q) - 1
  <2>3. Len(q) \in Nat \ {0}
    BY <2>1 DEF IsChain
  <2>4. l \in Nat /\ l <= s - 1
    <3>1. Len(q) <= At(j).preceding + 1
      BY <2>1, ChainLength
    <3> QED BY <3>1, <2>3, <1>6, <1>7
  <2>5. PathCost(q) \in Within(l * d) /\ l * d \in Nat
    <3>1. Fits(q, d) /\ l \in 0..Len(q) - 1
      BY <2>1, <2>3, ChainFits
    <3> QED BY <3>1, CostWithin DEF PathCost
  <2> HIDE DEF l
  <2>6. l * d <= w
    BY <2>4, <1>4, <1>7, Multiples DEF w
  <2> QED BY <2>2, <2>5, <2>6, <1>8, WithinGrows
<1>16. \E p : IsPathFrom(p, n) /\ PathCost(p) = n.cost
  <2>1. PICK q : IsPathFrom(q, At(n.best)) /\ PathCost(q) = At(n.best).cost
    BY <1>6, <1>12 DEF Optimal
  <2>2. IsPathFrom(<<n>> \o q, n)
    BY <2>1, <1>2, <1>12, PathSteps DEF At
  <2>3. PathCost(<<n>> \o q) = n.cost
    BY <2>1, <1>12, <1>14, <1>15
  <2> QED BY <2>2, <2>3
<1>17. ASSUME NEW p, IsPathFrom(p, n) PROVE n.cost <= PathCost(p)
  <2>0. PICK j \in DOMAIN graph[s].nodes : \E q : IsPathFrom(q, At(j)) /\ p = <<n>> \o q
    BY <1>2, <1>17, PathSteps DEF At
  <2>1. PICK q : IsPathFrom(q, At(j)) /\ p = <<n>> \o q
    BY <2>0
  <2>2. PathCost(p) = AddCost(link(j), PathCost(q)) /\ PathCost(q) \in Within(w)
    BY <2>1, <1>15
  <2>3. At(j).cost <= PathCost(q) /\ At(j).cost \in Within(w)
    BY <2>1, <1>6, <1>9 DEF Optimal
  <2>4. AddCost(link(j), At(j).cost) <= AddCost(link(j), PathCost(q))
    <3>1. w + d < MaxCost /\ link(j) \in Within(d)
      BY <1>8, <1>11
    <3> QED BY <3>1, <2>2, <2>3, <1>4, <1>8, AddMonotone
  <2>5. n.cost <= AddCost(link(j), At(j).cost)
    <3> DEFINE x == CostThrough(graph[s], n.edges, n.best)
               y == CostThrough(graph[s], n.edges, j)
               e == n.entry.cost
    <3>1. x <= y /\ x \in Int /\ y \in Int
      BY <1>12
    <3>2. n.cost = AddCost(x, e) /\ AddCost(y, e) = AddCost(link(j), At(j).cost)
      BY <1>5, <1>13
    <3>3. e \in Within(d) /\ e \in Int
      BY <1>10 DEF LinkCosts
    <3>4. x = AddCost(At(n.best).cost, Edge(At(n.best), n)) /\ y = AddCost(At(j).cost, Edge(At(j), n))
      BY <1>11, <1>12
    <3> DEFINE a == At(n.best).cost
               b == Edge(At(n.best), n)
               a2 == At(j).cost
               b2 == Edge(At(j), n)
    <3>5. a \in Within(w) /\ a2 \in Within(w) /\ b \in Within(d) /\ b2 \in Within(d) /\ b \in Int /\ b2 \in Int
          /\ AddCost(b, e) \in Within(d) /\ AddCost(b2, e) \in Within(d)
      BY <1>9, <1>11, <1>12
    <3>6. x = AddCost(a, b) /\ y = AddCost(a2, b2)
      BY <3>4
    <3> HIDE DEF x, y, e, a, b, a2, b2
    <3>7. AddCost(x, e) <= AddCost(y, e)
      <4>1. a \in Int /\ a2 \in Int
        BY <3>5, <1>8, MaxCostAssumption DEF Within
      <4>2. /\ w + d < MaxCost /\ AddCost(a, b) \in Within(w + d) /\ AddCost(a2, b2) \in Within(w + d)
            /\ w + d \in Nat
        <5>1. w + d < MaxCost
          BY <1>8
        <5> QED BY <5>1, <3>5, <1>4, <1>8, AddWithin
      <4>3. x \in Within(w + d) /\ y \in Within(w + d) /\ (x = MaxCost <=> a = MaxCost \/ b = MaxCost)
            /\ (y = MaxCost <=> a2 = MaxCost \/ b2 = MaxCost)
        <5>1. w + d < MaxCost
          BY <1>8
        <5> QED BY <5>1, <4>2, <3>5, <3>6, <1>4, <1>8, AddWithin
      <4>4. AddCost(x, e) <= MaxCost
        <5>1. n.cost <= MaxCost
          BY <1>8, <1>14, MaxCostAssumption DEF Within
        <5> QED BY <5>1, <3>2
      <4> QED BY <4>1, <4>2, <4>3, <4>4, <3>1, <3>3, MaxCostAssumption DEF AddCost, Within
    <3> QED BY <3>2, <3>7
  <2>6. n.cost \in Int /\ AddCost(link(j), At(j).cost) \in Int /\ AddCost(link(j), PathCost(q)) \in Int
    <3>1. \A x \in Within(w) : x \in Int
      BY <1>8, MaxCostAssumption DEF Within
    <3>2. link(j) \in Int
      BY <1>11, <1>4, MaxCostAssumption DEF Within
    <3>3. n.cost \in Int
      BY <1>1 DEF Node
    <3> QED BY <3>1, <3>2, <3>3, <2>2, <2>3, AddIsInt
  <2> QED BY <2>2, <2>4, <2>5, <2>6
<1> QED BY <1>2, <1>14, <1>16, <1>17 DEF Optimal

LEMMA NodesAreOptimal ==
    ASSUME GraphInv, NEW d, LinkCosts(d)
    PROVE  \A n : IsLatticeNode(n) => Optimal(n, d)
<1> DEFINE T == {k \in Nat : \A n : IsLatticeNode(n) /\ n.preceding <= k => Optimal(n, d)}
<1>0. \A n : IsLatticeNode(n) => n.preceding \in Nat /\ (n # Bos => n.preceding # 0)
  <2> SUFFICES ASSUME NEW n, IsLatticeNode(n) PROVE n.preceding \in Nat /\ (n # Bos => n.preceding # 0)
    OBVIOUS
  <2>1. n \in Node /\ (n.preceding = 0 <=> n = Bos)
    BY LatticeNodeFacts DEF NoStep
  <2> QED BY <2>1 DEF Node
<1>1. 0 \in T
  <2> SUFFICES ASSUME NEW n, IsLatticeNode(n), n.preceding <= 0 PROVE Optimal(n, d)
    OBVIOUS
  <2>1. n = Bos
    BY <1>0
  <2> QED BY <2>1, BosIsOptimal
<1>2. ASSUME NEW k \in Nat, k \in T PROVE k + 1 \in T
  <2> SUFFICES ASSUME NEW n, IsLatticeNode(n), n.preceding <= k + 1 PROVE Optimal(n, d)
    OBVIOUS
  <2>1. CASE n = Bos
    BY <2>1, BosIsOptimal
  <2>2. CASE n # Bos
    <3>1. \A m : IsLatticeNode(m) /\ m.preceding < n.preceding => Optimal(m, d)
      <4> SUFFICES ASSUME NEW m, IsLatticeNode(m), m.preceding < n.preceding PROVE Optimal(m, d)
        OBVIOUS
      <4>1. m.preceding <= k
        BY <1>0
      <4> QED BY <4>1, <1>2
    <3> QED BY <3>1, <2>2, NodeIsOptimal
  <2> QED BY <2>1, <2>2
<1>3. Nat \subseteq T
  <2> HIDE DEF T
  <2> QED BY <1>1, <1>2, SetInduction
<1> QED BY <1>0, <1>3

\* The least of the costs of some paths.
LEMMA CheapestFacts ==
    ASSUME NEW costs, NEW c, c \in costs, costs \subseteq Int, \A x \in costs : c <= x
    PROVE  CheapestOf(costs) = c
<1>1. CheapestOf(costs) \in costs /\ \A x \in costs : CheapestOf(costs) <= x
  BY DEF CheapestOf
<1>2. CheapestOf(costs) <= c /\ c <= CheapestOf(costs) /\ c \in Int /\ CheapestOf(costs) \in Int
  BY <1>1
<1> QED BY <1>2

LEMMA PathCostIsInt ==
    ASSUME GraphInv, NEW d, LinkCosts(d), NEW p, IsChain(p)
    PROVE  PathCost(p) \in Int /\ PathCost(p) \in Within((Len(p) - 1) * d) /\ (Len(p) - 1) * d < MaxCost
<1>1. Fits(p, d) /\ Len(p) \in Nat \ {0}
  BY ChainFits DEF IsChain
<1>2. Len(p) - 1 \in 0..Len(p) - 1
  BY <1>1
<1> DEFINE l == Len(p) - 1
<1>3. l * d \in Nat /\ l * d < MaxCost /\ PathCost(p) \in Within(l * d)
  BY <1>1, <1>2, CostWithin DEF PathCost
<1>4. PathCost(p) \in Int
  <2> HIDE DEF l
  <2> QED BY <1>3, WithinIsInt
<1> QED BY <1>3, <1>4

LEMMA CostsAreOptimal ==
    ASSUME GraphInv, CostsFit
    PROVE  PathCostIsOptimal
<1>1. PICK d : LinkCosts(d)
  BY LinksFit
<1> SUFFICES ASSUME NEW s \in DOMAIN graph, NEW i \in DOMAIN graph[s].nodes
             PROVE  graph[s].nodes[i].cost = CheapestOf({PathCost(p) : p \in Paths[s][i]})
  BY DEF PathCostIsOptimal
<1>2. PICK n : n = graph[s].nodes[i]
  OBVIOUS
<1>3. IsLatticeNode(n) /\ n \in Node
  BY <1>2, NodesAreLatticeNodes
<1>4. Optimal(n, d)
  BY <1>1, <1>3, NodesAreOptimal
<1>5. \A p : p \in Paths[s][i] <=> IsPathFrom(p, n)
  BY <1>2, PathsArePaths
<1> DEFINE costs == {PathCost(p) : p \in Paths[s][i]}
<1>6. n.cost \in costs
  BY <1>4, <1>5 DEF Optimal
<1>7. \A x \in costs : n.cost <= x
  BY <1>4, <1>5 DEF Optimal
<1>8. costs \subseteq Int
  BY <1>1, <1>5, PathCostIsInt DEF IsPathFrom
<1> HIDE DEF costs
<1>9. CheapestOf(costs) = n.cost
  BY <1>6, <1>7, <1>8, CheapestFacts
<1> QED BY <1>2, <1>9 DEF costs

\* PathCostIsOptimal: each node that push_back() makes remembers the cost of the
\* cheapest of all paths to it, although it is computed from one step only.
THEOREM NodesRememberTheCheapest ==
    ASSUME CostsFit
    PROVE  Spec => []PathCostIsOptimal
<1> DEFINE R == LatticeInv /\ CostsFit
<1>1. Init => R
  BY InitIsGraph DEF Init
<1>2. R /\ [Next]_vars => R'
  BY NextKeepsLattice
<1>3. R => PathCostIsOptimal
  BY CostsAreOptimal DEF LatticeInv
<1> HIDE DEF R
<1> QED BY <1>1, <1>2, <1>3, PTL DEF Spec
-----------------------------------------------------------------------------
(* The tails of paths                                                      *)

TailCost(t) == AddCost(CostTo(t)[Len(t) - 1], t[Len(t)].entry.cost)
WholeCost(t) == AddCost(CostTo(t)[Len(t) - 1], t[Len(t)].cost)

LEMMA ChainGoesOn ==
    ASSUME GraphInv, NEW t, IsChain(t), NEW m, IsLink(t[Len(t)], m)
    PROVE  /\ IsChain(Append(t, m)) /\ Len(Append(t, m)) = Len(t) + 1 /\ Len(t) \in Nat \ {0}
           /\ \A k \in 1..Len(t) : Append(t, m)[k] = t[k]
           /\ Append(t, m)[Len(t) + 1] = m
<1>1. t \in Seq(Node) /\ Len(t) \in Nat \ {0}
  BY DEF IsChain
<1>2. m \in Node /\ IsLatticeNode(m)
  BY LinkFacts
<1> DEFINE u == Append(t, m)
<1>3. u \in Seq(Node) /\ Len(u) = Len(t) + 1 /\ (\A k \in 1..Len(t) : u[k] = t[k]) /\ u[Len(t) + 1] = m
  BY <1>1, <1>2, AppendProperties
<1> HIDE DEF u
<1>4. ASSUME NEW k \in 1..Len(u) - 1 PROVE IsLink(u[k], u[k + 1])
  <2>1. CASE k = Len(t)
    BY <2>1, <1>1, <1>3
  <2>2. CASE k # Len(t)
    <3>1. k \in 1..Len(t) - 1 /\ k \in 1..Len(t) /\ k + 1 \in 1..Len(t)
      BY <2>2, <1>1, <1>3
    <3>2. IsLink(t[k], t[k + 1])
      BY <3>1 DEF IsChain
    <3> QED BY <3>1, <3>2, <1>3
  <2> QED BY <2>1, <2>2
<1>5. ASSUME NEW k \in 1..Len(u) PROVE IsLatticeNode(u[k])
  <2>1. CASE k = Len(t) + 1
    BY <2>1, <1>2, <1>3
  <2>2. CASE k # Len(t) + 1
    <3>1. k \in 1..Len(t)
      BY <2>2, <1>1, <1>3
    <3>2. IsLatticeNode(t[k])
      BY <3>1 DEF IsChain
    <3> QED BY <3>1, <3>2, <1>3
  <2> QED BY <2>1, <2>2
<1>6. IsChain(u)
  BY <1>1, <1>3, <1>4, <1>5 DEF IsChain
<1> QED BY <1>1, <1>3, <1>6 DEF u

\* What is behind the tail of a path.
LEMMA RestOfPath ==
    ASSUME GraphInv, NEW p, NEW x, IsPathFrom(p, x), NEW t, IsChain(t), IsStart(t, p)
    PROVE  \E q : IsPathFrom(q, t[Len(t)]) /\ IsRest(q, p, Len(t))
<1>1. /\ p \in Seq(Node) /\ Len(p) \in Nat \ {0} /\ p[Len(p)].preceding = NoStep
      /\ \A k \in 1..Len(p) - 1 : IsLink(p[k], p[k + 1])
      /\ \A k \in 1..Len(p) : IsLatticeNode(p[k])
  BY DEF IsPathFrom, IsChain
<1> DEFINE a == Len(t)
           q == SubSeq(p, (a - 1) + 1, Len(p))
<1>2. a \in Nat \ {0} /\ a <= Len(p) /\ a - 1 \in Nat /\ a \in 1..Len(p) /\ \A k \in 1..a : t[k] = p[k]
  BY <1>1 DEF IsStart, IsChain
<1> HIDE DEF a
<1>3. q \in Seq(Node) /\ IsPart(q, p, a - 1, Len(p))
  <2>1. a - 1 <= Len(p) /\ Len(p) <= Len(p)
    BY <1>1, <1>2
  <2> QED BY <2>1, <1>1, <1>2, PartProperties
<1> HIDE DEF q
<1>4. Len(q) = Len(p) - a + 1 /\ Len(q) \in Nat \ {0} /\ \A k \in 1..Len(q) : q[k] = p[a - 1 + k]
  <2>1. Len(q) = Len(p) - (a - 1) /\ \A k \in 1..Len(p) - (a - 1) : q[k] = p[a - 1 + k]
    BY <1>3 DEF IsPart
  <2> QED BY <2>1, <1>1, <1>2
<1>5. IsRest(q, p, a)
  BY <1>2, <1>4 DEF IsRest
<1>6. IsChain(q)
  <2>1. ASSUME NEW k \in 1..Len(q) - 1 PROVE IsLink(q[k], q[k + 1])
    <3>1. a - 1 + k \in 1..Len(p) - 1 /\ k \in 1..Len(q) /\ k + 1 \in 1..Len(q) /\ a - 1 + (k + 1) = (a - 1 + k) + 1
      BY <1>1, <1>2, <1>4
    <3>2. IsLink(p[a - 1 + k], p[(a - 1 + k) + 1])
      BY <3>1, <1>1
    <3> QED BY <3>1, <3>2, <1>4
  <2>2. ASSUME NEW k \in 1..Len(q) PROVE IsLatticeNode(q[k])
    <3>1. a - 1 + k \in 1..Len(p)
      BY <1>1, <1>2, <1>4
    <3> QED BY <3>1, <1>1, <1>4
  <2> QED BY <2>1, <2>2, <1>3, <1>4 DEF IsChain
<1>7. q[1] = t[a] /\ q[Len(q)] = p[Len(p)]
  <2>1. 1 \in 1..Len(q) /\ Len(q) \in 1..Len(q) /\ a - 1 + 1 = a /\ a - 1 + Len(q) = Len(p) /\ a \in 1..a
    BY <1>1, <1>2, <1>4
  <2> QED BY <2>1, <1>2, <1>4
<1>8. IsPathFrom(q, t[a])
  BY <1>1, <1>6, <1>7 DEF IsPathFrom
<1> QED BY <1>5, <1>8 DEF a

\* A path from the last node of a tail makes the tail whole.
LEMMA PathGoesOn ==
    ASSUME GraphInv, NEW t, IsChain(t), NEW q, IsPathFrom(q, t[Len(t)])
    PROVE  \E p : IsPathFrom(p, t[1]) /\ IsStart(t, p) /\ IsRest(q, p, Len(t))
<1> DEFINE a == Len(t)
           b == Len(q)
<1>1. /\ t \in Seq(Node) /\ a \in Nat \ {0}
      /\ \A k \in 1..a - 1 : IsLink(t[k], t[k + 1])
      /\ \A k \in 1..a : IsLatticeNode(t[k])
  BY DEF IsChain
<1>2. /\ q \in Seq(Node) /\ b \in Nat \ {0}
      /\ \A k \in 1..b - 1 : IsLink(q[k], q[k + 1])
      /\ \A k \in 1..b : IsLatticeNode(q[k])
      /\ q[1] = t[a] /\ q[b].preceding = NoStep
  BY DEF IsPathFrom, IsChain
<1> HIDE DEF a, b
<1> DEFINE l == a + b - 1
           p == [k \in 1..l |-> IF k <= a THEN t[k] ELSE q[k - a + 1]]
<1>3. l \in Nat \ {0} /\ a <= l /\ a \in 1..l
  BY <1>1, <1>2
<1>4. \A k \in 1..a : p[k] = t[k]
  BY <1>1, <1>3
<1>5. \A k \in 1..b : p[a - 1 + k] = q[k]
  <2> SUFFICES ASSUME NEW k \in 1..b PROVE p[a - 1 + k] = q[k]
    OBVIOUS
  <2>1. a - 1 + k \in 1..l
    BY <1>1, <1>2
  <2>2. CASE k = 1
    <3>1. a - 1 + k = a /\ a \in 1..a
      BY <1>1, <2>2
    <3> QED BY <3>1, <1>2, <1>4, <2>2
  <2>3. CASE k # 1
    <3>1. ~(a - 1 + k <= a) /\ (a - 1 + k) - a + 1 = k
      BY <1>1, <2>3
    <3> QED BY <3>1, <2>1
  <2> QED BY <2>2, <2>3
<1>6. ASSUME NEW k \in 1..l, k \notin 1..a PROVE k - a + 1 \in 1..b /\ a - 1 + (k - a + 1) = k
  BY <1>1, <1>2, <1>6
<1>7. \A k \in 1..l : p[k] \in Node /\ IsLatticeNode(p[k])
  <2> SUFFICES ASSUME NEW k \in 1..l PROVE p[k] \in Node /\ IsLatticeNode(p[k])
    OBVIOUS
  <2>1. DOMAIN t = 1..a /\ DOMAIN q = 1..b /\ (\A i \in 1..a : t[i] \in Node) /\ (\A i \in 1..b : q[i] \in Node)
    BY <1>1, <1>2, LenProperties, ElementOfSeq DEF a, b
  <2>2. CASE k \in 1..a
    BY <2>1, <2>2, <1>1, <1>4
  <2>3. CASE k \notin 1..a
    <3>1. k - a + 1 \in 1..b /\ p[k] = q[k - a + 1]
      BY <2>3, <1>5, <1>6
    <3> QED BY <3>1, <2>1, <1>2
  <2> QED BY <2>2, <2>3
<1>8. p \in [1..l -> Node]
  BY <1>7
<1>9. p \in Seq(Node) /\ Len(p) = l
  BY <1>3, <1>8, FunctionIsSeq
<1> HIDE DEF p
<1>10. ASSUME NEW k \in 1..l - 1 PROVE IsLink(p[k], p[k + 1])
  <2>1. CASE k \in 1..a - 1
    <3>1. k \in 1..a /\ k + 1 \in 1..a
      BY <2>1, <1>1
    <3> QED BY <3>1, <2>1, <1>1, <1>4
  <2>2. CASE k \notin 1..a - 1
    <3>1. PICK j \in 1..b - 1 : k = a - 1 + j
      <4>1. k - a + 1 \in 1..b - 1 /\ k = a - 1 + (k - a + 1)
        BY <2>2, <1>1, <1>2
      <4> QED BY <4>1
    <3>2. j \in 1..b /\ j + 1 \in 1..b /\ k + 1 = a - 1 + (j + 1)
      BY <3>1, <1>1, <1>2
    <3>3. p[k] = q[j] /\ p[k + 1] = q[j + 1]
      BY <3>1, <3>2, <1>5
    <3> QED BY <3>1, <3>3, <1>2
  <2> QED BY <2>1, <2>2
<1>11. IsChain(p)
  BY <1>3, <1>7, <1>9, <1>10 DEF IsChain
<1>12. p[1] = t[1] /\ p[l] = q[b]
  <2>1. 1 \in 1..a /\ b \in 1..b /\ l = a - 1 + b
    BY <1>1, <1>2
  <2> QED BY <2>1, <1>4, <1>5
<1>13. IsPathFrom(p, t[1])
  BY <1>2, <1>9, <1>11, <1>12 DEF IsPathFrom
<1>14. IsStart(t, p)
  BY <1>3, <1>4, <1>9 DEF IsStart, a
<1>15. IsRest(q, p, a)
  <2>1. b = l - a + 1
    BY <1>1, <1>2
  <2> HIDE DEF l
  <2> QED BY <2>1, <1>3, <1>5, <1>9 DEF IsRest, b
<1> QED BY <1>13, <1>14, <1>15 DEF a

\* The room that a chain leaves for the costs behind it.
LEMMA TailRoom ==
    ASSUME GraphInv, NEW d, LinkCosts(d), NEW t, IsChain(t)
    PROVE  LET a == Len(t)
               c == CostTo(t)[a - 1]
               n == t[a]
           IN  /\ a \in Nat \ {0} /\ d \in Nat /\ n \in Node /\ n.preceding \in Nat
               /\ (a - 1) * d \in Nat /\ c \in Within((a - 1) * d) /\ c \in Int
               /\ n.preceding * d \in Nat
               /\ (a - 1) * d + n.preceding * d < MaxCost
               /\ (a - 1) * d + d < MaxCost
               /\ d + d < MaxCost
<1> DEFINE a == Len(t)
           n == t[a]
           h == n.preceding
           c == CostTo(t)[a - 1]
<1>1. a \in Nat \ {0} /\ t \in Seq(Node)
  BY DEF IsChain
<1>2. a \in 1..a /\ a - 1 \in 0..a - 1 /\ a - 1 \in Nat
  BY <1>1
<1>3. n \in Node /\ h \in Nat /\ h + a <= t[1].preceding + 1 /\ t[1].preceding <= Len(graph) /\ t[1].preceding \in Nat
  <2>1. 1 \in 1..a
    BY <1>1
  <2> QED BY <1>2, <2>1, ChainLength
<1>4. Len(graph) \in Nat /\ Len(graph) <= MaxSteps /\ MaxSteps \in Nat /\ 1 <= MaxSteps
  BY GraphFacts, StepsAssumption
<1>5. d \in Nat /\ MaxSteps * d + d < MaxCost
  BY DEF LinkCosts
<1>6. Fits(t, d)
  BY ChainFits
<1>7. (a - 1) * d \in Nat /\ (a - 1) * d < MaxCost /\ c \in Within((a - 1) * d)
  BY <1>2, <1>6, CostWithin
<1> HIDE DEF a, n, h, c
<1> DEFINE b == a - 1
<1>8. b \in Nat /\ b + h <= MaxSteps /\ b <= MaxSteps
  BY <1>1, <1>3, <1>4
<1>9. c \in Int
  <2>1. b * d \in Nat /\ b * d < MaxCost /\ c \in Within(b * d)
    BY <1>7
  <2> HIDE DEF b
  <2> QED BY <2>1, WithinIsInt
<1> HIDE DEF b
<1>10. /\ h * d \in Nat /\ b * d \in Nat /\ (b + h) * d = b * d + h * d /\ b + h \in Nat
       /\ (b + h) * d <= MaxSteps * d /\ MaxSteps * d \in Nat /\ b * d <= MaxSteps * d
       /\ 1 * d <= MaxSteps * d /\ 1 * d = d
  <2>1. b + h \in Nat
    BY <1>3, <1>8
  <2> QED BY <2>1, <1>3, <1>4, <1>5, <1>8, Multiples
<1>11. b * d + h * d < MaxCost /\ b * d + d < MaxCost /\ d + d < MaxCost
  <2> DEFINE x == b * d
             y == h * d
             z == MaxSteps * d
  <2>1. x \in Nat /\ y \in Nat /\ z \in Nat /\ x + y <= z /\ x <= z /\ d <= z /\ z + d < MaxCost /\ d \in Nat
    BY <1>5, <1>10
  <2> HIDE DEF x, y, z
  <2>2. x + y < MaxCost /\ x + d < MaxCost /\ d + d < MaxCost
    BY <2>1, MaxCostAssumption
  <2> QED BY <2>2 DEF x, y
<1> QED BY <1>1, <1>3, <1>5, <1>7, <1>9, <1>10, <1>11 DEF a, n, h, c, b

\* A node has the cost of the cheapest path to it.
LEMMA WholeCostFacts ==
    ASSUME GraphInv, NEW d, LinkCosts(d), NEW t, IsChain(t)
    PROVE  /\ \A p : IsPathFrom(p, t[1]) /\ IsStart(t, p) => WholeCost(t) <= PathCost(p)
           /\ \E p : IsPathFrom(p, t[1]) /\ IsStart(t, p) /\ WholeCost(t) = PathCost(p)
           /\ WholeCost(t) \in Int /\ WholeCost(t) <= MaxCost
<1> DEFINE a == Len(t)
           c == CostTo(t)[a - 1]
           n == t[a]
           u == (a - 1) * d
           v == n.preceding * d
<1>1. /\ a \in Nat \ {0} /\ d \in Nat /\ n \in Node /\ n.preceding \in Nat
      /\ u \in Nat /\ c \in Within(u) /\ v \in Nat /\ u + v < MaxCost
  BY TailRoom
<1>2. IsLatticeNode(n)
  <2>1. a \in 1..a
    BY <1>1
  <2> QED BY <2>1 DEF IsChain
<1>3. /\ n.cost \in Within(v)
      /\ \E q : IsPathFrom(q, n) /\ PathCost(q) = n.cost
      /\ \A q : IsPathFrom(q, n) => n.cost <= PathCost(q)
  BY <1>2, NodesAreOptimal DEF Optimal
<1>4. ASSUME NEW p, IsPathFrom(p, t[1]), IsStart(t, p), NEW q, IsPathFrom(q, n), IsRest(q, p, a)
      PROVE  PathCost(p) = AddCost(c, PathCost(q)) /\ PathCost(q) \in Within(v)
  <2>1. IsChain(p) /\ IsChain(q) /\ q[1] = n
    BY <1>4 DEF IsPathFrom
  <2>2. Fits(p, d)
    BY <2>1, ChainFits
  <2>3. PathCost(p) = AddCost(CostTo(p)[a - 1], PathCost(q))
    BY <1>4, <2>2, CostSplit
  <2>4. CostTo(p)[a - 1] = c
    <3>1. Len(p) \in Nat \ {0} /\ Len(t) \in Nat \ {0} /\ a - 1 \in Nat
      BY <2>1, <1>1 DEF IsChain
    <3>2. a - 1 < Len(p) /\ a - 1 < Len(t) /\ \A k \in 1..(a - 1) + 1 : p[k] = t[k]
      BY <1>4, <1>1, <3>1 DEF IsStart
    <3>3. \A k \in 0..a - 1 : CostTo(p)[k] = CostTo(t)[k]
      BY <3>1, <3>2, CostOfSame
    <3>4. a - 1 \in 0..a - 1
      BY <3>1
    <3> QED BY <3>3, <3>4
  <2>5. PathCost(q) \in Within(v)
    <3> DEFINE l == Len(q) - 1
    <3>1. PathCost(q) \in Within(l * d) /\ Len(q) \in Nat \ {0}
      BY <2>1, PathCostIsInt DEF IsChain
    <3>2. Len(q) <= n.preceding + 1
      BY <2>1, ChainLength
    <3>3. l \in Nat /\ l <= n.preceding
      BY <3>1, <3>2, <1>1
    <3> HIDE DEF l
    <3>4. l * d \in Nat /\ l * d <= n.preceding * d
      BY <3>3, <1>1, Multiples
    <3> HIDE DEF v
    <3>5. l * d <= v
      BY <3>4 DEF v
    <3> QED BY <3>1, <3>4, <3>5, <1>1, WithinGrows
  <2> QED BY <2>3, <2>4, <2>5
<1> HIDE DEF u, v
<1>5. ASSUME NEW p, IsPathFrom(p, t[1]), IsStart(t, p) PROVE WholeCost(t) <= PathCost(p)
  <2>1. PICK q : IsPathFrom(q, n) /\ IsRest(q, p, a)
    BY <1>5, RestOfPath
  <2>2. PathCost(p) = AddCost(c, PathCost(q)) /\ PathCost(q) \in Within(v)
    BY <2>1, <1>4, <1>5
  <2>3. n.cost <= PathCost(q)
    BY <2>1, <1>3
  <2>4. v + u < MaxCost
    BY <1>1
  <2>5. AddCost(c, n.cost) <= AddCost(c, PathCost(q))
    BY <2>2, <2>3, <2>4, <1>1, <1>3, AddMonotone
  <2> QED BY <2>2, <2>5 DEF WholeCost
<1>6. PICK q : IsPathFrom(q, n) /\ PathCost(q) = n.cost
  BY <1>3
<1>7. PICK p : IsPathFrom(p, t[1]) /\ IsStart(t, p) /\ IsRest(q, p, a)
  BY <1>6, PathGoesOn
<1>8. WholeCost(t) = PathCost(p)
  BY <1>4, <1>6, <1>7 DEF WholeCost
<1>9. WholeCost(t) \in Int /\ WholeCost(t) <= MaxCost
  <2>1. AddCost(c, n.cost) \in Within(u + v) /\ u + v \in Nat
    BY <1>1, <1>3, AddWithin
  <2> DEFINE x == AddCost(c, n.cost)
             w == u + v
  <2>2. x \in Within(w) /\ w \in Nat /\ w < MaxCost
    BY <2>1, <1>1
  <2> HIDE DEF x, w
  <2>3. x \in Int /\ x <= MaxCost
    BY <2>2, WithinIsInt
  <2> QED BY <2>3 DEF x, WholeCost
<1> QED BY <1>5, <1>7, <1>8, <1>9

\* The numbers of the additions that open_cap() makes, in its order and in the path's.
LEMMA AddRegroup ==
    ASSUME NEW u \in Nat, NEW d \in Nat, u + d < MaxCost, d + d < MaxCost,
           NEW c \in Within(u), NEW e \in Within(d), NEW g \in Within(d), NEW f \in Within(d),
           AddCost(g, e) \in Within(d)
    PROVE  /\ AddCost(AddCost(c, e), g) = AddCost(c, AddCost(g, e))
           /\ AddCost(AddCost(c, e), AddCost(g, f)) = AddCost(AddCost(c, AddCost(g, e)), f)
<1> DEFINE x == AddCost(c, AddCost(g, e))
<1>1. c \in Int /\ e \in Int /\ g \in Int /\ f \in Int
  BY MaxCostAssumption DEF Within
<1>2. AddCost(c, e) = MaxCost <=> c = MaxCost \/ e = MaxCost
  BY AddWithin
<1>3. AddCost(g, e) = MaxCost <=> g = MaxCost \/ e = MaxCost
  BY AddWithin
<1>4. AddCost(g, f) = MaxCost <=> g = MaxCost \/ f = MaxCost
  BY AddWithin
<1>5. x = MaxCost <=> c = MaxCost \/ AddCost(g, e) = MaxCost
  BY AddWithin
<1>6. AddCost(AddCost(c, e), g) = x
  BY <1>1, <1>2, <1>3, MaxCostAssumption DEF AddCost
<1>7. AddCost(AddCost(c, e), AddCost(g, f)) = AddCost(x, f)
  <2>1. CASE c = MaxCost \/ e = MaxCost \/ g = MaxCost
    <3>1. x = MaxCost /\ (AddCost(c, e) = MaxCost \/ AddCost(g, f) = MaxCost)
      BY <2>1, <1>2, <1>3, <1>4, <1>5
    <3> QED BY <3>1 DEF AddCost
  <2>2. CASE ~(c = MaxCost \/ e = MaxCost \/ g = MaxCost)
    <3>1. AddCost(g, e) = g + e /\ AddCost(c, e) = c + e /\ g + e # MaxCost /\ c + e # MaxCost
      BY <2>2, <1>2, <1>3 DEF AddCost
    <3>2. x = c + (g + e) /\ x # MaxCost
      BY <3>1, <2>2, <1>5 DEF AddCost
    <3>3. CASE f = MaxCost
      BY <3>3, <1>4 DEF AddCost
    <3>4. CASE f # MaxCost
      <4>1. AddCost(g, f) = g + f /\ g + f # MaxCost
        BY <3>4, <2>2, <1>4 DEF AddCost
      <4>2. AddCost(x, f) = x + f
        BY <3>2, <3>4 DEF AddCost
      <4>3. AddCost(c + e, g + f) = (c + e) + (g + f)
        BY <3>1, <4>1 DEF AddCost
      <4> QED BY <3>1, <3>2, <4>1, <4>2, <4>3, <1>1
    <3> QED BY <3>3, <3>4
  <2> QED BY <2>1, <2>2
<1> QED BY <1>6, <1>7

\* The costs of a tail that goes on with a node of the preceding step, as open_cap()
\* adds them up, and the cost of the whole path when it is the best node.
LEMMA TailStep ==
    ASSUME GraphInv, NEW d, LinkCosts(d), NEW t, IsChain(t), t[Len(t)] # Bos,
           NEW i \in DOMAIN graph[t[Len(t)].preceding].nodes
    PROVE  LET n == t[Len(t)]
               m == graph[n.preceding].nodes[i]
               next == Append(t, m)
           IN  /\ IsLink(n, m) /\ IsChain(next)
               /\ TailCost(next) = AddCost(AddCost(TailCost(t), n.edges[i]), m.entry.cost)
               /\ TailCost(next) = AddCost(TailCost(t), AddCost(n.edges[i], m.entry.cost))
               /\ WholeCost(next) = AddCost(AddCost(TailCost(t), n.edges[i]), m.cost)
               /\ i = n.best => WholeCost(next) = WholeCost(t)
<1> DEFINE a == Len(t)
           n == t[a]
           m == graph[n.preceding].nodes[i]
           next == Append(t, m)
           c == CostTo(t)[a - 1]
           u == (a - 1) * d
           e == n.entry.cost
           g == n.edges[i]
           f == m.entry.cost
<1>1. /\ a \in Nat \ {0} /\ d \in Nat /\ n \in Node /\ n.preceding \in Nat
      /\ u \in Nat /\ c \in Within(u) /\ n.preceding * d \in Nat /\ u + n.preceding * d < MaxCost
      /\ u + d < MaxCost /\ d + d < MaxCost
  BY TailRoom
<1>2. IsLatticeNode(n)
  <2>1. a \in 1..a
    BY <1>1
  <2> QED BY <2>1 DEF IsChain
<1>3. n.preceding \in DOMAIN graph /\ IsNodeAfter(n, n.preceding)
  BY <1>2, LatticeNodeFacts
<1>4. IsLink(n, m)
  BY <1>3 DEF IsLink
<1>5. /\ IsChain(next) /\ Len(next) = a + 1 /\ (\A k \in 1..a : next[k] = t[k]) /\ next[a + 1] = m
  BY <1>4, ChainGoesOn
<1>6. m \in Node /\ IsLatticeNode(m) /\ m.preceding \in Nat /\ m.preceding < n.preceding
  BY <1>4, LinkFacts
<1>7. n.entry \in AllEntries /\ m.entry \in AllEntries /\ connection \in Connections
  BY <1>1, <1>6 DEF Node, GraphInv
<1>8. g = connection[<<m.entry.name, n.entry.name>>]
  BY <1>3 DEF IsNodeAfter, IsNodeIn
<1>9. g = Edge(m, n)
  BY <1>8 DEF Edge, Connection
<1>10. e \in Within(d) /\ f \in Within(d)
  BY <1>7 DEF LinkCosts
<1>11. g \in Within(d) /\ AddCost(g, e) \in Within(d)
  BY <1>7, <1>8 DEF LinkCosts
<1> HIDE DEF u, g, e, f
<1>12. /\ AddCost(AddCost(c, e), g) = AddCost(c, AddCost(g, e))
       /\ AddCost(AddCost(c, e), AddCost(g, f)) = AddCost(AddCost(c, AddCost(g, e)), f)
  <2> HIDE DEF c
  <2> QED BY <1>1, <1>10, <1>11, AddRegroup
<1>13. CostTo(next)[a] = AddCost(c, AddCost(g, e))
  <2>1. Len(next) \in Nat \ {0} /\ a \in 1..Len(next) - 1
    BY <1>1, <1>5
  <2>2. \A k \in 1..Len(next) - 1 : CostTo(next)[k] = AddCost(CostTo(next)[k - 1], LinkOf(next, k))
    BY <2>1, CostToFacts
  <2>3. CostTo(next)[a] = AddCost(CostTo(next)[a - 1], LinkOf(next, a))
    BY <2>1, <2>2
  <2>4. LinkOf(next, a) = AddCost(g, e)
    <3>1. next[a] = n
      BY <1>1, <1>5
    <3> QED BY <3>1, <1>5, <1>9 DEF LinkOf, e
  <2>5. CostTo(next)[a - 1] = c
    <3>1. Len(t) \in Nat \ {0} /\ a - 1 \in Nat
      BY <1>1
    <3>2. a - 1 < Len(next) /\ a - 1 < Len(t) /\ \A k \in 1..(a - 1) + 1 : next[k] = t[k]
      BY <1>1, <1>5
    <3>3. \A k \in 0..a - 1 : CostTo(next)[k] = CostTo(t)[k]
      BY <2>1, <3>1, <3>2, CostOfSame
    <3>4. a - 1 \in 0..a - 1
      BY <3>1
    <3> QED BY <3>3, <3>4
  <2> QED BY <2>3, <2>4, <2>5
<1>14. TailCost(t) = AddCost(c, e)
  BY DEF TailCost, e
<1>15. TailCost(next) = AddCost(CostTo(next)[a], f) /\ WholeCost(next) = AddCost(CostTo(next)[a], m.cost)
  <2>1. Len(next) - 1 = a
    BY <1>1, <1>5
  <2> QED BY <2>1, <1>5 DEF TailCost, WholeCost, f
<1>16. /\ TailCost(next) = AddCost(AddCost(TailCost(t), g), f)
       /\ TailCost(next) = AddCost(TailCost(t), AddCost(g, f))
       /\ WholeCost(next) = AddCost(AddCost(TailCost(t), g), m.cost)
  BY <1>12, <1>13, <1>14, <1>15
<1>17. ASSUME i = n.best PROVE WholeCost(next) = WholeCost(t)
  <2>1. n.cost = AddCost(CostThrough(graph[n.preceding], n.edges, n.best), e)
    BY <1>3 DEF IsNodeAfter, IsNodeIn, e
  <2>2. CostThrough(graph[n.preceding], n.edges, n.best) = AddCost(m.cost, g)
    BY <1>17 DEF CostThrough, g
  <2> DEFINE w == m.preceding * d
  <2>3. m.cost \in Within(w) /\ w \in Nat /\ w + d <= n.preceding * d
    <3>1. Optimal(m, d)
      BY <1>6, NodesAreOptimal
    <3>2. m.preceding + 1 <= n.preceding
      BY <1>1, <1>6
    <3>3. m.preceding * d \in Nat /\ m.preceding * d + d <= n.preceding * d
      BY <3>2, <1>1, <1>6, Multiples
    <3> QED BY <3>1, <3>3 DEF Optimal
  <2> HIDE DEF w
  <2>4. w + d < MaxCost /\ u + d + w < MaxCost
    BY <2>3, <1>1, MaxCostAssumption
  <2>5. AddCost(AddCost(m.cost, g), e) = AddCost(AddCost(g, e), m.cost)
    <3>2. AddCost(e, g) = AddCost(g, e) /\ AddCost(g, e) \in Within(d) /\ AddCost(e, g) \in Within(d)
      <4>1. d + d < MaxCost
        BY <1>1
      <4>2. AddCost(e, g) = AddCost(g, e)
        BY <4>1, <1>1, <1>10, <1>11, AddWithin
      <4> QED BY <4>2, <1>11
    <3>3. AddCost(AddCost(m.cost, g), e) = AddCost(m.cost, AddCost(e, g))
      <4>1. d \in Nat /\ d + d < MaxCost
        BY <1>1
      <4> QED BY <4>1, <2>3, <2>4, <1>10, <1>11, <3>2, AddRegroup
    <3>4. AddCost(m.cost, AddCost(g, e)) = AddCost(AddCost(g, e), m.cost)
      BY <2>3, <2>4, <1>1, <3>2, AddWithin
    <3> QED BY <3>2, <3>3, <3>4
  <2>6. AddCost(AddCost(c, AddCost(g, e)), m.cost) = AddCost(c, AddCost(AddCost(g, e), m.cost))
    <3> HIDE DEF c
    <3> QED BY <2>3, <2>4, <1>1, <1>11, AddAssociates
  <2>7. WholeCost(t) = AddCost(c, n.cost)
    BY DEF WholeCost
  <2> QED BY <2>1, <2>2, <2>5, <2>6, <2>7, <1>13, <1>15
<1> QED BY <1>4, <1>5, <1>16, <1>17 DEF g, f
-----------------------------------------------------------------------------
(* The patterns                                                            *)

Element == [kind : {"node"}, node : Node] \cup [kind : {"wildcard"}, step : Nat]

\* The element of a pattern that ends it is the one for the BOS node.
EndsPattern(x) == IF x.kind = "node" THEN x.node.preceding = NoStep ELSE x.step = NoStep

\* Only the first element ends the pattern, and at most one is a wildcard.
IsPattern(P) ==
    /\ P \in Seq(Element)
    /\ \A k \in 1..Len(P) : EndsPattern(P[k]) <=> k = 1
    /\ \A j, k \in 1..Len(P) : P[j].kind = "wildcard" /\ P[k].kind = "wildcard" => j = k

Takes(x, n) == IF x.kind = "node" THEN SameNode(n, x.node) ELSE n.preceding = x.step
Passes(x, n) == x.kind = "wildcard" /\ n.preceding > x.step

LEMMA ElementFacts ==
    ASSUME NEW x \in Element
    PROVE  \/ x.kind = "node" /\ x.node \in Node
           \/ x.kind = "wildcard" /\ x.step \in Nat
BY DEF Element

LEMMA LeftStep ==
    ASSUME NEW P, NEW l \in Nat, l # 0, P[l] \in Element, NEW n, n.preceding \in Nat
    PROVE  LeftAfter(P, l, n) = IF Takes(P[l], n) THEN l - 1 ELSE IF Passes(P[l], n) THEN l ELSE Mismatch
<1> DEFINE x == P[l]
           match == ElementMatch(x, n)
<1>1. LeftAfter(P, l, n) = IF match < 0 THEN Mismatch ELSE IF match = 0 THEN l - 1 ELSE l
  BY DEF LeftAfter, Mismatch
<1>2. CASE x.kind = "node" /\ x.node \in Node
  <2>1. match = IF SameNode(n, x.node) THEN 0 ELSE -1
    BY <1>2 DEF ElementMatch
  <2> HIDE DEF x, match
  <2>2. "node" # "wildcard"
    OBVIOUS
  <2> QED BY <1>1, <1>2, <2>1, <2>2 DEF Takes, Passes, x
<1>3. CASE x.kind = "wildcard" /\ x.step \in Nat
  <2>1. match = IF n.preceding < x.step THEN -1 ELSE n.preceding - x.step
    BY <1>3 DEF ElementMatch
  <2>2. x.kind # "node"
    BY <1>3
  <2>3. Takes(x, n) <=> n.preceding = x.step
    BY <2>2 DEF Takes
  <2>4. Passes(x, n) <=> n.preceding > x.step
    BY <1>3 DEF Passes
  <2> HIDE DEF x, match
  <2>5. LeftAfter(P, l, n) = IF n.preceding = x.step THEN l - 1 ELSE IF n.preceding > x.step THEN l ELSE Mismatch
    BY <1>1, <1>3, <2>1
  <2> QED BY <2>3, <2>4, <2>5 DEF x
<1> QED BY <1>2, <1>3, ElementFacts

Lefts(f, P, p) ==
    f = [k \in 0..Len(p) |-> IF k = 0 THEN Len(P) ELSE LeftAfter(P, f[k - 1], p[k])]

LEMMA LeftsExist == ASSUME NEW P, NEW p, Len(p) \in Nat PROVE \E f : Lefts(f, P, p)
<1> DEFINE Upto(f, n) == f = [k \in 0..n |-> IF k = 0 THEN Len(P) ELSE LeftAfter(P, f[k - 1], p[k])]
           T == {n \in Nat : \E f : Upto(f, n)}
<1>1. 0 \in T
  <2> DEFINE f == [k \in 0..0 |-> Len(P)]
  <2>1. \A k \in 0..0 : k = 0
    OBVIOUS
  <2>2. Upto(f, 0)
    BY <2>1
  <2> QED BY <2>2
<1>2. ASSUME NEW n \in Nat, n \in T PROVE n + 1 \in T
  <2>1. PICK g : Upto(g, n)
    BY <1>2
  <2> DEFINE f == [k \in 0..n + 1 |-> IF k = n + 1 THEN LeftAfter(P, g[n], p[n + 1]) ELSE g[k]]
  <2>2. \A k \in 0..n : f[k] = g[k] /\ k \in 0..n + 1 /\ k # n + 1
    OBVIOUS
  <2>3. f[n + 1] = LeftAfter(P, g[n], p[n + 1]) /\ n \in 0..n /\ (n + 1) - 1 = n /\ n + 1 # 0
    OBVIOUS
  <2>4. \A k \in 0..n : g[k] = IF k = 0 THEN Len(P) ELSE LeftAfter(P, g[k - 1], p[k])
    BY <2>1
  <2> HIDE DEF f
  <2>5. \A k \in 0..n + 1 : f[k] = IF k = 0 THEN Len(P) ELSE LeftAfter(P, f[k - 1], p[k])
    <3> TAKE k \in 0..n + 1
    <3>1. CASE k = n + 1
      BY <3>1, <2>2, <2>3
    <3>2. CASE k = 0
      BY <3>2, <2>2, <2>4
    <3>3. CASE k \in 1..n
      <4>1. k \in 0..n /\ k - 1 \in 0..n /\ k # 0
        BY <3>3
      <4> QED BY <4>1, <2>2, <2>4
    <3> QED BY <3>1, <3>2, <3>3
  <2>6. f = [k \in 0..n + 1 |-> f[k]]
    BY DEF f
  <2>7. Upto(f, n + 1)
    BY <2>5, <2>6
  <2> QED BY <2>7
<1>3. Nat \subseteq T
  <2> HIDE DEF T
  <2> QED BY <1>1, <1>2, SetInduction
<1>4. \E f : Upto(f, Len(p))
  BY <1>3
<1> QED BY <1>4 DEF Lefts

LEMMA LeftFacts ==
    ASSUME NEW P, NEW p, Len(p) \in Nat
    PROVE  /\ LeftBehind(P, p)[0] = Len(P)
           /\ \A k \in 1..Len(p) : LeftBehind(P, p)[k] = LeftAfter(P, LeftBehind(P, p)[k - 1], p[k])
<1> DEFINE f == CHOOSE f : Lefts(f, P, p)
<1>1. Lefts(f, P, p)
  BY LeftsExist
<1>2. LeftBehind(P, p) = f
  BY DEF LeftBehind, Lefts
<1> HIDE DEF f
<1>3. \A k \in 0..Len(p) : f[k] = IF k = 0 THEN Len(P) ELSE LeftAfter(P, f[k - 1], p[k])
  BY <1>1 DEF Lefts
<1>4. 0 \in 0..Len(p) /\ \A k \in 1..Len(p) : k \in 0..Len(p) /\ k # 0
  OBVIOUS
<1> QED BY <1>2, <1>3, <1>4

\* What is left behind the tail of a path does not depend on the rest.
LEMMA LeftOfSame ==
    ASSUME NEW P, NEW p, NEW t, Len(p) \in Nat, Len(t) \in Nat, IsStart(t, p)
    PROVE  \A k \in 0..Len(t) : LeftBehind(P, p)[k] = LeftBehind(P, t)[k]
<1> DEFINE T == {k \in Nat : k <= Len(t) => LeftBehind(P, p)[k] = LeftBehind(P, t)[k]}
<1>1. /\ LeftBehind(P, p)[0] = Len(P)
      /\ \A k \in 1..Len(p) : LeftBehind(P, p)[k] = LeftAfter(P, LeftBehind(P, p)[k - 1], p[k])
  BY LeftFacts
<1>2. /\ LeftBehind(P, t)[0] = Len(P)
      /\ \A k \in 1..Len(t) : LeftBehind(P, t)[k] = LeftAfter(P, LeftBehind(P, t)[k - 1], t[k])
  BY LeftFacts
<1>3. 0 \in T
  BY <1>1, <1>2
<1>4. ASSUME NEW k \in Nat, k \in T PROVE k + 1 \in T
  <2> SUFFICES ASSUME k + 1 <= Len(t) PROVE LeftBehind(P, p)[k + 1] = LeftBehind(P, t)[k + 1]
    OBVIOUS
  <2>1. k + 1 \in 1..Len(t) /\ k + 1 \in 1..Len(p) /\ (k + 1) - 1 = k /\ p[k + 1] = t[k + 1]
    BY DEF IsStart
  <2>2. LeftBehind(P, p)[k] = LeftBehind(P, t)[k]
    BY <1>4
  <2> QED BY <2>1, <2>2, <1>1, <1>2
<1>5. Nat \subseteq T
  <2> HIDE DEF T
  <2> QED BY <1>3, <1>4, SetInduction
<1> QED BY <1>5

\* A mismatch stays one.
LEMMA MismatchStays ==
    ASSUME NEW P, NEW p, Len(p) \in Nat, NEW i \in 0..Len(p), LeftBehind(P, p)[i] = Mismatch
    PROVE  LeftBehind(P, p)[Len(p)] = Mismatch
<1> DEFINE T == {k \in Nat : i + k <= Len(p) => LeftBehind(P, p)[i + k] = Mismatch}
<1>1. \A k \in 1..Len(p) : LeftBehind(P, p)[k] = LeftAfter(P, LeftBehind(P, p)[k - 1], p[k])
  BY LeftFacts
<1>2. 0 \in T
  OBVIOUS
<1>3. ASSUME NEW k \in Nat, k \in T PROVE k + 1 \in T
  <2> SUFFICES ASSUME i + (k + 1) <= Len(p) PROVE LeftBehind(P, p)[i + (k + 1)] = Mismatch
    OBVIOUS
  <2>1. i + (k + 1) \in 1..Len(p) /\ (i + (k + 1)) - 1 = i + k /\ i + k <= Len(p)
    OBVIOUS
  <2>2. LeftBehind(P, p)[i + k] = Mismatch
    BY <2>1, <1>3
  <2>3. LeftBehind(P, p)[i + (k + 1)] = LeftAfter(P, Mismatch, p[i + (k + 1)])
    BY <2>1, <2>2, <1>1
  <2> QED BY <2>3 DEF LeftAfter
<1>4. Nat \subseteq T
  <2> HIDE DEF T
  <2> QED BY <1>2, <1>3, SetInduction
<1>5. Len(p) - i \in Nat /\ i + (Len(p) - i) = Len(p)
  OBVIOUS
<1> QED BY <1>4, <1>5

LEMMA ChainDecreases ==
    ASSUME GraphInv, NEW p, IsChain(p)
    PROVE  \A i, j \in 1..Len(p) : i < j => p[j].preceding < p[i].preceding
<1>1. p \in Seq(Node) /\ Len(p) \in Nat \ {0}
  BY DEF IsChain
<1>2. \A k \in 1..Len(p) : p[k].preceding \in Nat
  BY ChainLength
<1> DEFINE c == [k \in 1..Len(p) |-> p[k].preceding]
<1>3. \A k \in 1..Len(p) : c[k] = p[k].preceding /\ c[k] \in Nat
  BY <1>2
<1> HIDE DEF c
<1>4. \A k \in 1..Len(p) - 1 : c[k + 1] < c[k]
  <2> TAKE k \in 1..Len(p) - 1
  <2>1. IsLink(p[k], p[k + 1]) /\ k \in 1..Len(p) /\ k + 1 \in 1..Len(p)
    BY <1>1 DEF IsChain
  <2>2. p[k + 1].preceding < p[k].preceding
    BY <2>1, LinkFacts
  <2> QED BY <2>1, <2>2, <1>3
<1> SUFFICES ASSUME NEW i \in 1..Len(p) PROVE \A j \in 1..Len(p) : i < j => c[j] < c[i]
  BY <1>3
<1> DEFINE T == {k \in Nat : i + (k + 1) <= Len(p) => c[i + (k + 1)] < c[i]}
<1>5. 0 \in T
  <2> SUFFICES ASSUME i + 1 <= Len(p) PROVE c[i + 1] < c[i]
    OBVIOUS
  <2>1. i \in 1..Len(p) - 1
    BY <1>1
  <2> QED BY <2>1, <1>4
<1>6. ASSUME NEW k \in Nat, k \in T PROVE k + 1 \in T
  <2> SUFFICES ASSUME i + ((k + 1) + 1) <= Len(p) PROVE c[i + ((k + 1) + 1)] < c[i]
    OBVIOUS
  <2>1. /\ i + (k + 1) \in 1..Len(p) - 1 /\ (i + (k + 1)) + 1 = i + ((k + 1) + 1) /\ i + (k + 1) <= Len(p)
        /\ i + (k + 1) \in 1..Len(p) /\ i + ((k + 1) + 1) \in 1..Len(p)
    BY <1>1
  <2>2. c[i + (k + 1)] < c[i] /\ c[i + ((k + 1) + 1)] < c[i + (k + 1)]
    BY <2>1, <1>4, <1>6
  <2> QED BY <2>1, <2>2, <1>3
<1>7. Nat \subseteq T
  <2> HIDE DEF T
  <2> QED BY <1>5, <1>6, SetInduction
<1>8. ASSUME NEW j \in 1..Len(p), i < j PROVE c[j] < c[i]
  <2>1. j - i - 1 \in Nat /\ i + ((j - i - 1) + 1) = j /\ j <= Len(p)
    BY <1>1, <1>8
  <2> QED BY <2>1, <1>7
<1> QED BY <1>8

\* The nodes of a path that stand where the pattern has a node.
IsAllowed(P, p) ==
    \/ P = <<>>
    \/ /\ \A k \in 1..Len(P) : P[k].kind # "wildcard"
       /\ Len(p) = Len(P) /\ \A k \in 1..Len(P) : SameNode(p[Len(p) - k + 1], P[k].node)
    \/ \E w \in 1..Len(P) :
          /\ P[w].kind = "wildcard" /\ Len(p) >= Len(P) /\ p[Len(p) - w + 1].preceding = P[w].step
          /\ \A k \in 1..w - 1 : SameNode(p[Len(p) - k + 1], P[k].node)
          /\ \A k \in 1..Len(P) - w : SameNode(p[k], P[Len(P) - k + 1].node)

LEMMA ReverseFacts ==
    ASSUME NEW S, NEW p \in Seq(S)
    PROVE  /\ Reverse(p) \in Seq(S) /\ Len(Reverse(p)) = Len(p) /\ Len(p) \in Nat
           /\ DOMAIN Reverse(p) = 1..Len(p)
           /\ \A k \in 1..Len(p) : Reverse(p)[k] = p[Len(p) - k + 1]
<1>1. Len(p) \in Nat /\ DOMAIN p = 1..Len(p) /\ \A k \in 1..Len(p) : p[k] \in S
  BY LenProperties, ElementOfSeq
<1>2. \A k \in 1..Len(p) : Len(p) - k + 1 \in 1..Len(p)
  BY <1>1
<1>3. Reverse(p) \in [1..Len(p) -> S] /\ \A k \in 1..Len(p) : Reverse(p)[k] = p[Len(p) - k + 1]
  BY <1>1, <1>2 DEF Reverse
<1> QED BY <1>1, <1>3, FunctionIsSeq

\* The reference, position by position.
LEMMA AllowedMeans ==
    ASSUME pattern \in Seq(Element), NEW p \in Seq(Node)
    PROVE  Allowed(p) <=> IsAllowed(pattern, p)
<1> DEFINE l == Len(p)
           M == Len(pattern)
           forward == Reverse(p)
           wild == {k \in DOMAIN pattern : pattern[k].kind = "wildcard"}
           Of(elements) == [k \in DOMAIN elements |-> elements[k].node]
           Around(w) ==
              LET front == w - 1
                  back == Len(pattern) - w
              IN  /\ Len(forward) > front + back
                  /\ forward[w].preceding = pattern[w].step
                  /\ SameNodes(SubSeq(forward, 1, front), Of(SubSeq(pattern, 1, front)))
                  /\ SameNodes(SubSeq(forward, Len(forward) - back + 1, Len(forward)),
                               Of(SubSeq(pattern, w + 1, Len(pattern))))
           Meant(w) ==
              /\ l >= M /\ p[l - w + 1].preceding = pattern[w].step
              /\ \A k \in 1..w - 1 : SameNode(p[l - k + 1], pattern[k].node)
              /\ \A k \in 1..M - w : SameNode(p[k], pattern[M - k + 1].node)
<1>1. /\ forward \in Seq(Node) /\ Len(forward) = l /\ l \in Nat /\ DOMAIN forward = 1..l
      /\ \A k \in 1..l : forward[k] = p[l - k + 1]
  BY ReverseFacts
<1>2. M \in Nat /\ DOMAIN pattern = 1..M
  BY LenProperties
<1>3. Allowed(p) <=> \/ pattern = <<>>
                     \/ wild = {} /\ SameNodes(forward, Of(pattern))
                     \/ \E w \in wild : Around(w)
  BY DEF Allowed
<1> HIDE DEF forward, l, M
<1>4. ASSUME NEW s \in Seq(Node), NEW e \in Seq(Element)
      PROVE  SameNodes(s, Of(e)) <=> Len(s) = Len(e) /\ \A k \in 1..Len(s) : SameNode(s[k], e[k].node)
  <2>1. Len(s) \in Nat /\ DOMAIN s = 1..Len(s) /\ Len(e) \in Nat /\ DOMAIN e = 1..Len(e)
    BY LenProperties
  <2>2. PICK o : o = Of(e)
    OBVIOUS
  <2>3. DOMAIN o = 1..Len(e) /\ (\A k \in 1..Len(e) : o[k] = e[k].node)
    BY <2>1, <2>2
  <2>4. Len(o) = Len(e)
    <3> DEFINE S == {o[k] : k \in 1..Len(e)}
    <3>1. o = [k \in 1..Len(e) |-> o[k]]
      BY <2>1, <2>2
    <3>2. o \in [1..Len(e) -> S]
      BY <3>1
    <3> QED BY <2>1, <3>2, FunctionIsSeq
  <2> QED BY <2>1, <2>2, <2>3, <2>4 DEF SameNodes
<1>5. wild = {} <=> \A k \in 1..M : pattern[k].kind # "wildcard"
  BY <1>2
<1>6. SameNodes(forward, Of(pattern)) <=>
         l = M /\ \A k \in 1..M : SameNode(p[l - k + 1], pattern[k].node)
  <2>1. SameNodes(forward, Of(pattern)) <=> l = M /\ \A k \in 1..l : SameNode(forward[k], pattern[k].node)
    BY <1>1, <1>4 DEF M
  <2> QED BY <2>1, <1>1
<1>7. ASSUME NEW w \in 1..M PROVE Around(w) <=> Meant(w)
  <2> DEFINE front == w - 1
             back == M - w
             f1 == SubSeq(forward, 0 + 1, front)
             e1 == SubSeq(pattern, 0 + 1, front)
             f2 == SubSeq(forward, (l - back) + 1, l)
             e2 == SubSeq(pattern, w + 1, M)
  <2>1. front \in Nat /\ back \in Nat /\ w \in Nat /\ front + back = M - 1
    BY <1>2
  <2>2. Around(w) <=> /\ l > front + back
                      /\ forward[w].preceding = pattern[w].step
                      /\ SameNodes(f1, Of(e1))
                      /\ SameNodes(f2, Of(e2))
    BY <1>1 DEF M
  <2> HIDE DEF Around
  <2>3. l > front + back <=> l >= M
    BY <2>1, <1>1, <1>2
  <2>4. CASE ~(l >= M)
    BY <2>2, <2>3, <2>4
  <2>5. CASE l >= M
    <3>1. w \in 1..l /\ l - back \in Nat /\ l - back <= l /\ front <= l /\ front <= M /\ w <= M /\ 0 <= front
      BY <2>1, <2>5, <1>1, <1>2
    <3>2. forward[w] = p[l - w + 1]
      BY <3>1, <1>1
    <3>3. /\ f1 \in Seq(Node) /\ IsPart(f1, forward, 0, front)
          /\ f2 \in Seq(Node) /\ IsPart(f2, forward, l - back, l)
      <4>1. l <= l /\ 0 \in Nat /\ Len(forward) = l
        BY <1>1
      <4> HIDE DEF front, back
      <4>2. f1 \in Seq(Node) /\ IsPart(f1, forward, 0, front)
        BY <4>1, <3>1, <2>1, <1>1, PartProperties
      <4>3. f2 \in Seq(Node) /\ IsPart(f2, forward, l - back, l)
        BY <4>1, <3>1, <2>1, <1>1, PartProperties
      <4> QED BY <4>2, <4>3
    <3>4. /\ e1 \in Seq(Element) /\ IsPart(e1, pattern, 0, front)
          /\ e2 \in Seq(Element) /\ IsPart(e2, pattern, w, M)
      <4>1. M <= M /\ 0 \in Nat /\ Len(pattern) = M
        BY <1>2 DEF M
      <4> HIDE DEF front, back
      <4>2. e1 \in Seq(Element) /\ IsPart(e1, pattern, 0, front)
        BY <4>1, <3>1, <2>1, PartProperties
      <4>3. e2 \in Seq(Element) /\ IsPart(e2, pattern, w, M)
        BY <4>1, <3>1, <2>1, <1>2, PartProperties
      <4> QED BY <4>2, <4>3
    <3> HIDE DEF f1, f2, e1, e2, Of
    <3>5. /\ Len(f1) = front /\ Len(e1) = front /\ (\A k \in 1..front : f1[k] = forward[k] /\ e1[k] = pattern[k])
      <4>1. Len(f1) = front - 0 /\ Len(e1) = front - 0
            /\ (\A k \in 1..front - 0 : f1[k] = forward[0 + k] /\ e1[k] = pattern[0 + k])
        BY <3>3, <3>4 DEF IsPart
      <4>2. front - 0 = front /\ \A k \in 1..front : 0 + k = k
        BY <2>1
      <4> QED BY <4>1, <4>2
    <3>6. /\ Len(f2) = back /\ Len(e2) = back
          /\ \A k \in 1..back : f2[k] = forward[l - back + k] /\ e2[k] = pattern[w + k]
      <4>1. Len(f2) = l - (l - back) /\ Len(e2) = M - w
            /\ (\A k \in 1..l - (l - back) : f2[k] = forward[l - back + k])
            /\ (\A k \in 1..M - w : e2[k] = pattern[w + k])
        BY <3>3, <3>4 DEF IsPart
      <4>2. l - (l - back) = back
        BY <2>1, <1>1
      <4> QED BY <4>1, <4>2
    <3>7. SameNodes(f1, Of(e1)) <=> \A k \in 1..front : SameNode(p[l - k + 1], pattern[k].node)
      <4>1. SameNodes(f1, Of(e1)) <=> Len(f1) = Len(e1) /\ \A k \in 1..Len(f1) : SameNode(f1[k], e1[k].node)
        BY <3>3, <3>4, <1>4
      <4>2. \A k \in 1..front : k \in 1..l
        BY <3>1, <1>1, <2>1
      <4>3. \A k \in 1..front : f1[k] = p[l - k + 1]
        BY <4>2, <3>5, <1>1
      <4> QED BY <4>1, <4>3, <3>5
    <3>8. SameNodes(f2, Of(e2)) <=> \A k \in 1..back : SameNode(p[k], pattern[M - k + 1].node)
      <4>1. SameNodes(f2, Of(e2)) <=> Len(f2) = Len(e2) /\ \A k \in 1..Len(f2) : SameNode(f2[k], e2[k].node)
        BY <3>3, <3>4, <1>4
      <4>2. SameNodes(f2, Of(e2)) <=> \A k \in 1..back : SameNode(forward[l - back + k], pattern[w + k].node)
        BY <4>1, <3>6
      <4>3. ASSUME NEW k \in 1..back
            PROVE  /\ back - k + 1 \in 1..back /\ back - (back - k + 1) + 1 = k
                   /\ forward[l - back + k] = p[back - k + 1] /\ w + k = M - (back - k + 1) + 1
        <5>1. back - k + 1 \in 1..back /\ l - back + k \in 1..l /\ l - (l - back + k) + 1 = back - k + 1
          <6> HIDE DEF back
          <6> QED BY <2>1, <3>1, <1>1
        <5>2. forward[l - back + k] = p[back - k + 1]
          BY <5>1, <1>1
        <5>3. w + k = M - (back - k + 1) + 1 /\ back - (back - k + 1) + 1 = k
          BY <2>1, <1>2
        <5> QED BY <5>1, <5>2, <5>3
      <4>4. ASSUME \A k \in 1..back : SameNode(p[k], pattern[M - k + 1].node), NEW k \in 1..back
            PROVE  SameNode(forward[l - back + k], pattern[w + k].node)
        BY <4>3, <4>4
      <4>5. ASSUME \A k \in 1..back : SameNode(forward[l - back + k], pattern[w + k].node), NEW k \in 1..back
            PROVE  SameNode(p[k], pattern[M - k + 1].node)
        <5>1. PICK j \in 1..back : j = back - k + 1
          BY <4>3
        <5>2. back - j + 1 = k /\ w + j = M - k + 1
          BY <5>1, <2>1, <1>2
        <5>3. forward[l - back + j] = p[k]
          BY <5>2, <4>3
        <5>4. SameNode(forward[l - back + j], pattern[w + j].node)
          BY <4>5
        <5> QED BY <5>2, <5>3, <5>4
      <4> QED BY <4>2, <4>4, <4>5
    <3> QED BY <2>2, <2>3, <2>5, <3>2, <3>7, <3>8
  <2> QED BY <2>4, <2>5
<1>8. (\E w \in wild : Around(w)) <=> \E w \in 1..M : pattern[w].kind = "wildcard" /\ Meant(w)
  <2> HIDE DEF Around, Meant
  <2> QED BY <1>2, <1>7
<1>9. Allowed(p) <=> \/ pattern = <<>>
                     \/ /\ \A k \in 1..M : pattern[k].kind # "wildcard"
                        /\ l = M /\ \A k \in 1..M : SameNode(p[l - k + 1], pattern[k].node)
                     \/ \E w \in 1..M : pattern[w].kind = "wildcard" /\ Meant(w)
  <2> HIDE DEF Around, Meant, wild
  <2> QED BY <1>3, <1>5, <1>6, <1>8
<1> QED BY <1>9 DEF IsAllowed, l, M

\* How the elements of a pattern are used up along a path.
LEMMA LeftAlong ==
    ASSUME GraphInv, NEW P, IsPattern(P), NEW p, NEW x, IsPathFrom(p, x)
    PROVE  /\ Len(P) \in Nat /\ Len(p) \in Nat \ {0} /\ p \in Seq(Node)
           /\ \A k \in 1..Len(p) : p[k].preceding \in Nat /\ (p[k].preceding = NoStep <=> k = Len(p))
           /\ LeftBehind(P, p)[0] = Len(P)
           /\ \A k \in 1..Len(p) : LeftBehind(P, p)[k - 1] = 0 => LeftBehind(P, p)[k] = 0
           /\ \A k \in 1..Len(p) : LeftBehind(P, p)[k - 1] \in 1..Len(P) =>
                 LeftBehind(P, p)[k] =
                    IF Takes(P[LeftBehind(P, p)[k - 1]], p[k]) THEN LeftBehind(P, p)[k - 1] - 1
                    ELSE IF Passes(P[LeftBehind(P, p)[k - 1]], p[k]) THEN LeftBehind(P, p)[k - 1] ELSE Mismatch
<1>1. IsChain(p) /\ p[Len(p)].preceding = NoStep
  BY DEF IsPathFrom
<1>2. p \in Seq(Node) /\ Len(p) \in Nat \ {0}
  BY <1>1 DEF IsChain
<1>3. \A k \in 1..Len(p) : p[k].preceding \in Nat
  BY <1>1, ChainLength
<1>4. \A k \in 1..Len(p) : k # Len(p) => p[k].preceding # NoStep
  <2> SUFFICES ASSUME NEW k \in 1..Len(p), k # Len(p) PROVE p[k].preceding # NoStep
    OBVIOUS
  <2>1. Len(p) \in 1..Len(p) /\ k < Len(p)
    BY <1>2
  <2>2. p[Len(p)].preceding < p[k].preceding
    BY <1>1, <2>1, ChainDecreases
  <2> QED BY <2>1, <2>2, <1>1, <1>3 DEF NoStep
<1>5. Len(P) \in Nat /\ \A k \in 1..Len(P) : P[k] \in Element
  BY LenProperties, ElementOfSeq DEF IsPattern
<1>6. /\ LeftBehind(P, p)[0] = Len(P)
      /\ \A k \in 1..Len(p) : LeftBehind(P, p)[k] = LeftAfter(P, LeftBehind(P, p)[k - 1], p[k])
  BY <1>2, LeftFacts
<1>7. \A n : LeftAfter(P, 0, n) = 0
  BY DEF LeftAfter
<1>8. ASSUME NEW k \in 1..Len(p), NEW l, l = LeftBehind(P, p)[k - 1], l \in 1..Len(P)
      PROVE  LeftBehind(P, p)[k] = IF Takes(P[l], p[k]) THEN l - 1 ELSE IF Passes(P[l], p[k]) THEN l ELSE Mismatch
  <2>1. l \in Nat /\ l # 0 /\ P[l] \in Element
    BY <1>5, <1>8
  <2>2. LeftBehind(P, p)[k] = LeftAfter(P, l, p[k])
    BY <1>6, <1>8
  <2>3. p[k].preceding \in Nat
    BY <1>3
  <2> QED BY <2>1, <2>2, <2>3, LeftStep
<1> QED BY <1>1, <1>2, <1>3, <1>4, <1>5, <1>6, <1>7, <1>8

\* What the pattern allows is never refused on the way.
LEMMA AllowedMatches ==
    ASSUME GraphInv, NEW P, IsPattern(P), NEW p, NEW x, IsPathFrom(p, x), IsAllowed(P, p),
           NEW t, Len(t) \in Nat, IsStart(t, p)
    PROVE  MatchesTail(P, t)
<1> DEFINE left == LeftBehind(P, p)
           M == Len(P)
           l == Len(p)
<1>1. /\ M \in Nat /\ l \in Nat \ {0} /\ p \in Seq(Node)
      /\ \A k \in 1..l : p[k].preceding \in Nat
      /\ left[0] = M
      /\ \A k \in 1..l : left[k - 1] = 0 => left[k] = 0
  BY LeftAlong
<1>2. ASSUME NEW k \in 1..l, NEW n \in 1..M, left[k - 1] = n
      PROVE  left[k] = IF Takes(P[n], p[k]) THEN n - 1 ELSE IF Passes(P[n], p[k]) THEN n ELSE Mismatch
  BY <1>2, LeftAlong
<1> HIDE DEF left
<1>3. ASSUME NEW n \in 1..M, NEW y \in Node, P[n].kind # "wildcard", SameNode(y, P[n].node)
      PROVE  Takes(P[n], y)
  <2>1. P[n] \in Element
    BY ElementOfSeq DEF IsPattern
  <2>2. P[n].kind = "node"
    BY <1>3, <2>1, ElementFacts
  <2> QED BY <1>3, <2>2 DEF Takes
<1>4. ASSUME NEW k \in 1..l PROVE p[k] \in Node
  BY <1>1, ElementOfSeq
<1>5. CASE P = <<>>
  <2> DEFINE T == {k \in Nat : k <= l => left[k] = 0}
  <2>1. M = 0
    BY <1>5
  <2>2. 0 \in T
    BY <1>1, <2>1
  <2>3. ASSUME NEW k \in Nat, k \in T PROVE k + 1 \in T
    <3> SUFFICES ASSUME k + 1 <= l PROVE left[k + 1] = 0
      OBVIOUS
    <3>1. k + 1 \in 1..l /\ (k + 1) - 1 = k /\ left[k] = 0
      BY <1>1, <2>3
    <3> QED BY <3>1, <1>1
  <2>4. Nat \subseteq T
    <3> HIDE DEF T
    <3> QED BY <2>2, <2>3, SetInduction
  <2>5. \A k \in 0..l : left[k] # Mismatch
    BY <2>4 DEF Mismatch
  <2> QED BY <2>5, <1>1, LeftOfSame DEF left, MatchesTail, Remaining, IsStart
<1>6. CASE /\ \A k \in 1..M : P[k].kind # "wildcard"
           /\ l = M /\ \A k \in 1..M : SameNode(p[l - k + 1], P[k].node)
  <2> DEFINE T == {k \in Nat : k <= l => left[k] = l - k}
  <2>2. 0 \in T
    BY <1>1, <1>6
  <2>3. ASSUME NEW k \in Nat, k \in T PROVE k + 1 \in T
    <3> SUFFICES ASSUME k + 1 <= l PROVE left[k + 1] = l - (k + 1)
      OBVIOUS
    <3> DEFINE n == l - k
    <3>1. k + 1 \in 1..l /\ (k + 1) - 1 = k /\ left[k] = n /\ n \in 1..M /\ l - n + 1 = k + 1 /\ n - 1 = l - (k + 1)
      BY <1>1, <1>6, <2>3
    <3> HIDE DEF n
    <3>2. SameNode(p[k + 1], P[n].node)
      BY <3>1, <1>6
    <3>3. Takes(P[n], p[k + 1])
      BY <3>1, <3>2, <1>3, <1>4, <1>6
    <3>4. left[k + 1] = n - 1
      BY <3>1, <3>3, <1>2
    <3> QED BY <3>1, <3>4
  <2>4. Nat \subseteq T
    <3> HIDE DEF T
    <3> QED BY <2>2, <2>3, SetInduction
  <2>5. \A k \in 0..l : left[k] # Mismatch
    BY <2>4, <1>1 DEF Mismatch
  <2> QED BY <2>5, <1>1, LeftOfSame DEF left, MatchesTail, Remaining, IsStart
<1>7. ASSUME NEW w \in 1..M, P[w].kind = "wildcard", l >= M, p[l - w + 1].preceding = P[w].step,
             \A k \in 1..w - 1 : SameNode(p[l - k + 1], P[k].node),
             \A k \in 1..M - w : SameNode(p[k], P[M - k + 1].node)
      PROVE  MatchesTail(P, t)
  <2> DEFINE left2(k) == IF k <= M - w THEN M - k ELSE IF k <= l - w THEN w ELSE l - k
             T == {k \in Nat : k <= l => left[k] = left2(k)}
  <2>1. \A k \in 1..M : k # w => P[k].kind # "wildcard"
    BY <1>7 DEF IsPattern
  <2>2. 0 \in T
    BY <1>1
  <2>3. ASSUME NEW k \in Nat, k \in T PROVE k + 1 \in T
    <3> SUFFICES ASSUME k + 1 <= l PROVE left[k + 1] = left2(k + 1)
      OBVIOUS
    <3>1. k + 1 \in 1..l /\ (k + 1) - 1 = k /\ left[k] = left2(k) /\ p[k + 1] \in Node
      BY <1>1, <1>4, <2>3
    <3>2. CASE k + 1 <= M - w
      <4> DEFINE n == M - k
      <4>1. n \in 1..M /\ n # w /\ left[k] = n /\ left2(k + 1) = n - 1 /\ k + 1 \in 1..M - w /\ M - (k + 1) + 1 = n
        BY <3>1, <3>2, <1>1, <1>7
      <4> HIDE DEF n
      <4>2. Takes(P[n], p[k + 1])
        BY <4>1, <3>1, <2>1, <1>3, <1>7
      <4>3. left[k + 1] = n - 1
        BY <4>1, <4>2, <3>1, <1>2
      <4> HIDE DEF left2
      <4> QED BY <4>1, <4>3
    <3>3. CASE ~(k + 1 <= M - w) /\ k + 1 <= l - w
      <4>1. left[k] = w /\ left2(k + 1) = w /\ k + 1 < l - w + 1 /\ l - w + 1 \in 1..l
        BY <3>1, <3>3, <1>1, <1>7
      <4>2. p[l - w + 1].preceding < p[k + 1].preceding
        <5>1. IsChain(p)
          BY DEF IsPathFrom
        <5> QED BY <5>1, <4>1, <3>1, ChainDecreases
      <4>3. P[w] \in Element
        BY ElementOfSeq DEF IsPattern
      <4>4. P[w].step \in Nat /\ p[k + 1].preceding \in Nat
        BY <4>3, <1>7, <3>1, <1>1, ElementFacts
      <4>5. Passes(P[w], p[k + 1]) /\ ~Takes(P[w], p[k + 1])
        BY <4>2, <4>4, <1>7 DEF Passes, Takes
      <4>6. left[k + 1] = w
        BY <4>1, <4>5, <3>1, <1>2
      <4> HIDE DEF left2
      <4> QED BY <4>1, <4>6
    <3>4. CASE ~(k + 1 <= M - w) /\ k + 1 = l - w + 1
      <4>1. left[k] = w /\ left2(k + 1) = w - 1
        BY <3>1, <3>4, <1>1, <1>7
      <4>2. Takes(P[w], p[k + 1])
        <5>1. P[w].kind # "node"
          BY <1>7
        <5> QED BY <5>1, <1>7, <3>4 DEF Takes
      <4>3. left[k + 1] = w - 1
        BY <4>1, <4>2, <3>1, <1>2
      <4> HIDE DEF left2
      <4> QED BY <4>1, <4>3
    <3>5. CASE ~(k + 1 <= M - w) /\ k + 1 > l - w + 1
      <4> DEFINE n == l - k
      <4>1. n \in 1..w - 1 /\ n \in 1..M /\ n # w /\ left[k] = n /\ left2(k + 1) = n - 1 /\ l - n + 1 = k + 1
        BY <3>1, <3>5, <1>1, <1>7
      <4> HIDE DEF n
      <4>2. Takes(P[n], p[k + 1])
        BY <4>1, <3>1, <2>1, <1>3, <1>7
      <4>3. left[k + 1] = n - 1
        BY <4>1, <4>2, <3>1, <1>2
      <4> HIDE DEF left2
      <4> QED BY <4>1, <4>3
    <3>6. k + 1 <= l - w \/ k + 1 = l - w + 1 \/ k + 1 > l - w + 1
      <4>1. k + 1 \in Int /\ l - w \in Int
        BY <1>1
      <4> HIDE DEF l
      <4> QED BY <4>1
    <3> QED BY <3>2, <3>3, <3>4, <3>5, <3>6
  <2>4. Nat \subseteq T
    <3> HIDE DEF T
    <3> QED BY <2>2, <2>3, SetInduction
  <2>5. \A k \in 0..l : left[k] # Mismatch
    <3> SUFFICES ASSUME NEW k \in 0..l PROVE left[k] # Mismatch
      OBVIOUS
    <3>1. left[k] = left2(k)
      BY <2>4
    <3>2. left2(k) >= 0
      BY <1>1, <1>7
    <3> HIDE DEF left2
    <3> QED BY <3>1, <3>2 DEF Mismatch
  <2> QED BY <2>5, <1>1, LeftOfSame DEF left, MatchesTail, Remaining, IsStart
<1> QED BY <1>5, <1>6, <1>7 DEF IsAllowed

\* What is not refused up to the BOS node is allowed.
LEMMA MatchesAllowed ==
    ASSUME GraphInv, NEW P, IsPattern(P), NEW p, NEW x, IsPathFrom(p, x), MatchesTail(P, p)
    PROVE  IsAllowed(P, p)
<1> DEFINE left == LeftBehind(P, p)
           M == Len(P)
           l == Len(p)
<1>1. /\ M \in Nat /\ l \in Nat \ {0} /\ p \in Seq(Node)
      /\ \A k \in 1..l : p[k] \in Node /\ p[k].preceding \in Nat /\ (p[k].preceding = NoStep <=> k = l)
      /\ left[0] = M
  BY LeftAlong, LenProperties, ElementOfSeq
<1>2. ASSUME NEW k \in 1..l, NEW n \in 1..M, left[k - 1] = n
      PROVE  left[k] = IF Takes(P[n], p[k]) THEN n - 1 ELSE IF Passes(P[n], p[k]) THEN n ELSE Mismatch
  BY <1>2, LeftAlong
<1>3. \A k \in 0..l : left[k] # Mismatch
  BY <1>1, MismatchStays DEF MatchesTail, Remaining
<1>20. \A n \in 1..M : P[n] \in Element /\ (EndsPattern(P[n]) <=> n = 1)
  BY ElementOfSeq DEF IsPattern
<1> HIDE DEF left, M, l
<1>4. ASSUME NEW k \in 1..l, NEW n \in 1..M, Takes(P[n], p[k]) PROVE n = 1 <=> k = l
  <2>1. P[n] \in Element /\ (EndsPattern(P[n]) <=> n = 1)
    BY <1>20
  <2>2. p[k].preceding = NoStep <=> k = l
    BY <1>1
  <2>3. CASE P[n].kind = "node"
    <3>1. p[k].preceding = P[n].node.preceding
      BY <1>4, <2>3 DEF Takes, SameNode
    <3> QED BY <2>1, <2>2, <2>3, <3>1 DEF EndsPattern
  <2>4. CASE P[n].kind # "node"
    <3>1. p[k].preceding = P[n].step
      BY <1>4, <2>4 DEF Takes
    <3> QED BY <2>1, <2>2, <2>4, <3>1 DEF EndsPattern
  <2> QED BY <2>3, <2>4
<1>5. ASSUME NEW n \in 1..M PROVE ~Passes(P[n], p[l])
  <2>1. P[n] \in Element /\ p[l].preceding = 0
    BY <1>1, <1>20 DEF NoStep
  <2> QED BY <2>1, ElementFacts DEF Passes
<1>6. CASE M = 0
  BY <1>6, EmptySeq DEF IsPattern, IsAllowed, M
\* Elements are left as long as the path goes on.
<1>7. CASE M # 0
  <2> DEFINE T == {k \in Nat : k < l => left[k] \in 1..M}
  <2>1. 0 \in T
    BY <1>1, <1>7
  <2>2. ASSUME NEW k \in Nat, k \in T PROVE k + 1 \in T
    <3> SUFFICES ASSUME k + 1 < l PROVE left[k + 1] \in 1..M
      OBVIOUS
    <3>1. k + 1 \in 1..l /\ (k + 1) - 1 = k /\ k + 1 # l /\ k + 1 \in 0..l
      BY <1>1
    <3>2. PICK n \in 1..M : left[k] = n
      BY <1>1, <2>2
    <3>3. CASE Takes(P[n], p[k + 1])
      <4>1. n # 1 /\ left[k + 1] = n - 1
        BY <3>1, <3>2, <3>3, <1>2, <1>4
      <4> QED BY <4>1, <1>1
    <3>4. CASE ~Takes(P[n], p[k + 1])
      <4>1. left[k + 1] = n
        BY <3>1, <3>2, <3>4, <1>2, <1>3
      <4> QED BY <4>1
    <3> QED BY <3>3, <3>4
  <2>3. Nat \subseteq T
    <3> HIDE DEF T
    <3> QED BY <2>1, <2>2, SetInduction
  <2>4. \A k \in 0..l - 1 : left[k] \in 1..M
    BY <2>3, <1>1
  <2>5. \A k \in 1..l : left[k - 1] \in 1..M /\ k - 1 \in 0..l - 1
    BY <2>4, <1>1
  <2>6. ASSUME NEW k \in 1..l, NEW n \in 1..M, left[k - 1] = n
        PROVE  \/ Takes(P[n], p[k]) /\ left[k] = n - 1
               \/ Passes(P[n], p[k]) /\ left[k] = n
    <3>1. left[k] # Mismatch
      BY <1>3
    <3> QED BY <2>6, <3>1, <1>2
  <2>7. left[l] = 0 /\ left[l - 1] = 1 /\ l \in 1..l
    <3>1. l \in 1..l
      BY <1>1
    <3>2. PICK n \in 1..M : left[l - 1] = n
      BY <3>1, <2>5
    <3>3. Takes(P[n], p[l]) /\ left[l] = n - 1
      BY <3>1, <3>2, <2>6, <1>5
    <3>4. n = 1
      BY <3>1, <3>3, <1>4
    <3> QED BY <3>1, <3>2, <3>3, <3>4
  <2>8. CASE \A n \in 1..M : P[n].kind # "wildcard"
    <3> DEFINE U == {k \in Nat : k <= l => left[k] = M - k}
    <3>1. 0 \in U
      BY <1>1
    <3>2. ASSUME NEW k \in Nat, k \in U PROVE k + 1 \in U
      <4> SUFFICES ASSUME k + 1 <= l PROVE left[k + 1] = M - (k + 1)
        OBVIOUS
      <4>1. k + 1 \in 1..l /\ (k + 1) - 1 = k /\ left[k] = M - k
        BY <1>1, <3>2
      <4>2. PICK n \in 1..M : n = left[k]
        BY <4>1, <2>5
      <4>3. left[k + 1] = n - 1
        BY <4>1, <4>2, <2>6, <2>8 DEF Passes
      <4> QED BY <4>1, <4>2, <4>3, <1>1
    <3>3. Nat \subseteq U
      <4> HIDE DEF U
      <4> QED BY <3>1, <3>2, SetInduction
    <3>4. l = M
      BY <3>3, <2>7, <1>1
    <3>5. ASSUME NEW n \in 1..M PROVE SameNode(p[l - n + 1], P[n].node)
      <4> DEFINE k == l - n + 1
      <4>1. k \in 1..l /\ k - 1 = l - n /\ k - 1 \in Nat /\ k - 1 <= l /\ M - (k - 1) = n
        BY <3>4, <1>1
      <4> HIDE DEF k
      <4>2. left[k - 1] = n
        BY <4>1, <3>3
      <4>3. Takes(P[n], p[k])
        BY <4>1, <4>2, <2>6, <2>8 DEF Passes
      <4>4. P[n].kind = "node"
        BY <1>20, <2>8, ElementFacts
      <4> QED BY <4>3, <4>4 DEF Takes, k
    <3> QED BY <2>8, <3>4, <3>5 DEF IsAllowed, l, M
  <2>9. ASSUME NEW w \in 1..M, P[w].kind = "wildcard"
        PROVE  IsAllowed(P, p)
    <3>1. \A n \in 1..M : n # w => P[n].kind = "node"
      <4>1. \A n \in 1..M : n # w => P[n].kind # "wildcard"
        BY <2>9 DEF IsPattern, M
      <4> QED BY <4>1, <1>20, ElementFacts
    <3>2. \A n \in 1..M : \A y : n # w => ~Passes(P[n], y)
      BY <3>1 DEF Passes
    \* From the end of the pattern to the wildcard
    <3> DEFINE U == {k \in Nat : k <= M - w => k <= l /\ left[k] = M - k}
    <3>3. 0 \in U
      BY <1>1
    <3>4. ASSUME NEW k \in Nat, k \in U PROVE k + 1 \in U
      <4> SUFFICES ASSUME k + 1 <= M - w PROVE k + 1 <= l /\ left[k + 1] = M - (k + 1)
        OBVIOUS
      <4>1. k <= l /\ left[k] = M - k /\ M - k # w /\ M - k \in 1..M /\ M - k > 1
        BY <3>4, <1>1, <2>9
      <4>2. k # l
        BY <4>1, <2>7
      <4>3. k + 1 \in 1..l /\ (k + 1) - 1 = k
        BY <4>1, <4>2, <1>1
      <4>4. left[k + 1] = (M - k) - 1
        <5> DEFINE n == M - k
        <5>1. n \in 1..M /\ n # w /\ left[k] = n
          BY <4>1
        <5> HIDE DEF n
        <5>2. left[k + 1] = n - 1
          BY <5>1, <4>3, <2>6, <3>2
        <5> QED BY <5>2 DEF n
      <4> QED BY <4>3, <4>4, <1>1
    <3>5. Nat \subseteq U
      <4> HIDE DEF U
      <4> QED BY <3>3, <3>4, SetInduction
    <3>6. \A k \in 0..M - w : k <= l /\ left[k] = M - k
      BY <3>5, <1>1
    \* And from its beginning
    <3> DEFINE V == {k \in Nat : k <= w => k <= l /\ left[l - k] = k}
    <3>7. 0 \in V
      BY <2>7, <1>1
    <3>8. ASSUME NEW k \in Nat, k \in V PROVE k + 1 \in V
      <4> SUFFICES ASSUME k + 1 <= w PROVE k + 1 <= l /\ left[l - (k + 1)] = k + 1
        OBVIOUS
      <4>1. k <= l /\ left[l - k] = k /\ k < w /\ k < M
        BY <3>8, <1>1, <2>9
      <4>2. k # l
        <5>1. l - l = 0
          BY <1>1
        <5> QED BY <5>1, <4>1, <1>1
      <4> DEFINE j == l - k
      <4>3. j \in 1..l /\ j - 1 = l - (k + 1) /\ left[j] = k
        BY <4>1, <4>2, <1>1
      <4> HIDE DEF j
      <4>4. PICK n \in 1..M : n = left[j - 1]
        BY <4>3, <2>5
      <4>5. left[j] = n - 1
        <5>1. n # w => left[j] = n - 1
          BY <4>3, <4>4, <2>6, <3>2
        <5>2. left[j] = n - 1 \/ left[j] = n
          BY <4>3, <4>4, <2>6
        <5> QED BY <5>1, <5>2, <4>1, <4>3
      <4>6. n = k + 1
        BY <4>3, <4>5
      <4>7. k + 1 <= l
        BY <4>1, <4>2, <1>1
      <4>8. left[l - (k + 1)] = k + 1
        BY <4>3, <4>4, <4>6
      <4> QED BY <4>7, <4>8
    <3>9. Nat \subseteq V
      <4> HIDE DEF V
      <4> QED BY <3>7, <3>8, SetInduction
    <3>10. \A k \in 0..w : k <= l /\ left[l - k] = k
      BY <3>9
    <3> HIDE DEF U, V
    <3>11. \A k \in 1..w : l - k + 1 \in 1..l /\ left[(l - k + 1) - 1] = k /\ left[l - k + 1] = k - 1
      <4> TAKE k \in 1..w
      <4>1. k \in 0..w /\ k - 1 \in 0..w /\ k \in Nat
        BY <2>9
      <4>2. k <= l /\ left[l - k] = k /\ left[l - (k - 1)] = k - 1
        BY <4>1, <3>10
      <4>3. (l - k + 1) - 1 = l - k /\ l - (k - 1) = l - k + 1 /\ l - k + 1 \in 1..l
        BY <4>1, <4>2, <1>1
      <4> QED BY <4>2, <4>3
    <3>12. \A k \in 1..w : Takes(P[k], p[l - k + 1])
      <4> SUFFICES ASSUME NEW k \in 1..w PROVE Takes(P[k], p[l - k + 1])
        OBVIOUS
      <4> DEFINE j == l - k + 1
      <4>1. j \in 1..l /\ left[j - 1] = k /\ left[j] = k - 1 /\ k \in 1..M /\ k - 1 # k
        BY <3>11, <1>1, <2>9
      <4> HIDE DEF j
      <4>2. Takes(P[k], p[j])
        BY <4>1, <2>6
      <4> QED BY <4>2 DEF j
    <3>13. p[l - w + 1].preceding = P[w].step
      <4>1. w \in 1..w /\ P[w].kind # "node"
        BY <2>9, <1>1
      <4> QED BY <4>1, <3>12 DEF Takes
    <3>14. \A k \in 1..w - 1 : SameNode(p[l - k + 1], P[k].node)
      <4> TAKE k \in 1..w - 1
      <4>1. k \in 1..w /\ k \in 1..M /\ k # w
        BY <2>9, <1>1
      <4> QED BY <4>1, <3>1, <3>12 DEF Takes
    <3>15. \A k \in 1..M - w : SameNode(p[k], P[M - k + 1].node)
      <4> TAKE k \in 1..M - w
      <4> DEFINE n == M - k + 1
      <4>1. k - 1 \in 0..M - w /\ k \in 0..M - w /\ M - (k - 1) = n /\ n \in 1..M /\ n # w /\ k >= 1
        BY <2>9, <1>1
      <4> HIDE DEF n
      <4>2. k \in 1..l /\ left[k - 1] = n
        BY <4>1, <3>6, <1>1
      <4>3. Takes(P[n], p[k])
        BY <4>1, <4>2, <2>6, <3>2
      <4> QED BY <4>1, <4>3, <3>1 DEF Takes, n
    <3>16. l >= M
      <4>1. M - w \in 0..M - w /\ w \in 0..w /\ w \in Nat
        BY <2>9, <1>1
      <4>2. M - w <= l /\ left[M - w] = w /\ w <= l /\ left[l - w] = w
        <5>1. M - (M - w) = w
          BY <1>1, <2>9
        <5> QED BY <4>1, <5>1, <3>6, <3>10
      <4>3. SUFFICES ASSUME l < M PROVE FALSE
        BY <1>1
      <4> DEFINE j == l - w + 1
      <4>4. j \in 0..M - w /\ M - j # w - 1
        BY <4>2, <4>3, <1>1, <2>9
      <4>5. left[j] = M - j
        BY <4>4, <3>6
      <4>6. left[j] = w - 1
        BY <3>11, <2>9, <4>1
      <4> QED BY <4>4, <4>5, <4>6
    <3> QED BY <2>9, <3>13, <3>14, <3>15, <3>16 DEF IsAllowed, l, M
  <2> QED BY <2>8, <2>9
<1> QED BY <1>6, <1>7

\* What a client makes of a path is a pattern.
LEMMA PatternsArePatterns ==
    ASSUME LatticeInv, eos # NoNode, NEW P \in Patterns
    PROVE  IsPattern(P)
<1>1. CASE P = <<>>
  <2>1. P \in Seq(Element) /\ Len(P) = 0
    BY <1>1
  <2>2. 1..Len(P) = {}
    BY <2>1
  <2> QED BY <2>1, <2>2 DEF IsPattern
<1>2. CASE P # <<>>
  <2>0. PICK p \in WholePaths :
           \E k \in (1..Len(p)) \X (0..Len(p)) : k[1] <= k[2] + 1 /\ P = PatternOf(p, k[1], k[2])
    BY <1>2 DEF Patterns
  <2>1. PICK i \in 1..Len(p), j \in 0..Len(p) : i <= j + 1 /\ P = PatternOf(p, i, j)
    <3>1. PICK k \in (1..Len(p)) \X (0..Len(p)) : k[1] <= k[2] + 1 /\ P = PatternOf(p, k[1], k[2])
      BY <2>0
    <3>2. k[1] \in 1..Len(p) /\ k[2] \in 0..Len(p)
      OBVIOUS
    <3> QED BY <3>1, <3>2
  <2> DEFINE l == Len(p)
             forward == Reverse(p)
             element == [n \in DOMAIN forward |-> NodeElement(forward[n])]
             A == SubSeq(element, 0 + 1, i - 1)
             W == IF i <= j THEN <<Wildcard(forward[i].preceding)>> ELSE <<>>
             B == SubSeq(element, j + 1, l)
  <2>2. GraphInv /\ IsPathFrom(p, eos)
    BY <2>0, WholePathsArePaths DEF LatticeInv
  <2>3. IsChain(p) /\ p[Len(p)].preceding = NoStep
    BY <2>2 DEF IsPathFrom
  <2>4. p \in Seq(Node) /\ l \in Nat \ {0} /\ (\A n \in 1..l : p[n].preceding \in Nat)
    BY <2>2, <2>3, ChainLength DEF IsChain
  <2>5. i \in 1..l /\ j \in 0..l /\ i <= j + 1
    BY <2>1
  <2>6. /\ forward \in Seq(Node) /\ Len(forward) = l /\ DOMAIN forward = 1..l
        /\ \A n \in 1..l : forward[n] = p[l - n + 1]
    BY <2>4, ReverseFacts
  <2>7. P = A \o W \o B
    <3>1. element \in [1..l -> {element[n] : n \in 1..l}]
      <4>1. DOMAIN element = 1..l
        BY <2>6
      <4> QED BY <4>1
    <3>2. Len(element) = l
      BY <2>4, <3>1, FunctionIsSeq
    <3>3. P = SubSeq(element, 1, i - 1) \o W \o SubSeq(element, j + 1, Len(element))
      BY <2>1 DEF PatternOf
    <3>4. 0 + 1 = 1
      OBVIOUS
    <3> HIDE DEF element, W
    <3> QED BY <3>2, <3>3, <3>4
  <2>8. \A n \in 1..l : forward[n] \in Node /\ forward[n].preceding \in Nat /\ (forward[n].preceding = NoStep <=> n = 1)
    <3> SUFFICES ASSUME NEW n \in 1..l
                 PROVE  forward[n] \in Node /\ forward[n].preceding \in Nat /\ (forward[n].preceding = NoStep <=> n = 1)
      OBVIOUS
    <3>1. forward[n] = p[l - n + 1] /\ l - n + 1 \in 1..l /\ l \in 1..l
      BY <2>4, <2>6
    <3>2. n # 1 => l - n + 1 < l
      BY <2>4
    <3>3. n # 1 => p[l].preceding < p[l - n + 1].preceding
      BY <2>2, <2>3, <3>1, <3>2, ChainDecreases
    <3>4. n = 1 => l - n + 1 = l
      BY <2>4
    <3>5. p[l - n + 1] \in Node
      BY <2>4, <3>1, ElementOfSeq
    <3> QED BY <2>3, <2>4, <3>1, <3>3, <3>4, <3>5 DEF NoStep
  <2> HIDE DEF forward, W, A, B
  <2>9. element \in Seq(Element) /\ Len(element) = l /\ \A n \in 1..l : element[n] = NodeElement(forward[n])
    <3>1. \A n \in 1..l : element[n] = NodeElement(forward[n]) /\ NodeElement(forward[n]) \in Element
      BY <2>6, <2>8 DEF NodeElement, Element
    <3>2. DOMAIN element = 1..l
      BY <2>6
    <3>3. element \in [1..l -> Element]
      BY <3>1, <3>2
    <3> QED BY <2>4, <3>1, <3>3, FunctionIsSeq
  <2> HIDE DEF element, l
  <2>10. /\ A \in Seq(Element) /\ Len(A) = i - 1 /\ (\A n \in 1..i - 1 : A[n] = element[n])
         /\ B \in Seq(Element) /\ Len(B) = l - j /\ (\A n \in 1..l - j : B[n] = element[j + n])
    <3>1. 0 \in Nat /\ i - 1 \in Nat /\ 0 <= i - 1 /\ i - 1 <= l /\ j \in Nat /\ l \in Nat /\ j <= l /\ l <= l
      BY <2>4, <2>5
    <3>2. A \in Seq(Element) /\ IsPart(A, element, 0, i - 1)
      BY <2>9, <3>1, PartProperties DEF A
    <3>3. B \in Seq(Element) /\ IsPart(B, element, j, l)
      BY <2>9, <3>1, PartProperties DEF B
    <3>4. (i - 1) - 0 = i - 1 /\ \A n \in 1..i - 1 : 0 + n = n
      BY <2>5
    <3>5. Len(A) = i - 1 /\ (\A n \in 1..i - 1 : A[n] = element[n])
      <4>1. Len(A) = (i - 1) - 0 /\ \A n \in 1..(i - 1) - 0 : A[n] = element[0 + n]
        BY <3>2 DEF IsPart
      <4> QED BY <4>1, <3>4
    <3> QED BY <3>2, <3>3, <3>5 DEF IsPart
  <2> DEFINE h == IF i <= j THEN 1 ELSE 0
  <2>11. W \in Seq(Element) /\ Len(W) = h /\ (i <= j => W[1] = Wildcard(forward[i].preceding))
    <3>1. Wildcard(forward[i].preceding) \in Element
      BY <2>5, <2>8 DEF Wildcard, Element
    <3>2. PICK x : x = Wildcard(forward[i].preceding)
      OBVIOUS
    <3>3. CASE i <= j
      <4>1. W = <<x>>
        BY <3>2, <3>3 DEF W
      <4> QED BY <3>1, <3>2, <3>3, <4>1
    <3>4. CASE ~(i <= j)
      <4>1. W = <<>>
        BY <3>4 DEF W
      <4> QED BY <3>4, <4>1
    <3> QED BY <3>3, <3>4
  <2> DEFINE AW == A \o W
  <2>12. /\ AW \in Seq(Element) /\ Len(AW) = i - 1 + h /\ (\A n \in 1..i - 1 : AW[n] = A[n])
         /\ (\A n \in 1..h : AW[i - 1 + n] = W[n])
    <3>1. AW \in Seq(Element) /\ IsJoin(AW, A, W)
      BY <2>10, <2>11, JoinProperties
    <3> HIDE DEF AW, h
    <3> QED BY <3>1, <2>10, <2>11 DEF IsJoin
  <2> HIDE DEF AW
  <2>13. /\ P \in Seq(Element) /\ Len(P) = (i - 1 + h) + (l - j) /\ (\A n \in 1..i - 1 + h : P[n] = AW[n])
         /\ (\A n \in 1..l - j : P[(i - 1 + h) + n] = B[n])
    <3>1. P = AW \o B
      BY <2>7 DEF AW
    <3>2. P \in Seq(Element) /\ IsJoin(P, AW, B)
      BY <3>1, <2>10, <2>12, JoinProperties
    <3> HIDE DEF h
    <3> QED BY <3>2, <2>10, <2>12 DEF IsJoin
  <2>14. h \in {0, 1} /\ (h = 1 <=> i <= j) /\ (h = 0 => i = j + 1) /\ l \in Nat
    BY <2>4, <2>5
  <2> HIDE DEF h
  \* A position is in front of the wildcard, the wildcard, or behind it.
  <2>15. ASSUME NEW n \in 1..Len(P)
         PROVE  \/ n \in 1..i - 1 /\ P[n] = NodeElement(forward[n]) /\ n \in 1..l
                \/ h = 1 /\ n = i /\ P[n] = Wildcard(forward[i].preceding)
                \/ \E m \in 1..l : P[n] = NodeElement(forward[m]) /\ n = (i - 1 + h) + (m - j) /\ m > j
    <3>1. CASE n \in 1..i - 1
      <4>1. n \in 1..i - 1 + h /\ n \in 1..l
        BY <3>1, <2>5, <2>14
      <4> QED BY <3>1, <4>1, <2>9, <2>10, <2>12, <2>13
    <3>2. CASE n = i /\ h = 1
      <4>1. n \in 1..i - 1 + h /\ 1 \in 1..h /\ n = i - 1 + 1 /\ i <= j
        BY <3>2, <2>5, <2>14
      <4>2. P[n] = AW[n] /\ AW[i - 1 + 1] = W[1]
        BY <4>1, <2>12, <2>13
      <4> QED BY <3>2, <4>1, <4>2, <2>11
    <3>3. CASE n \notin 1..i - 1 /\ ~(n = i /\ h = 1)
      <4> DEFINE o == n - (i - 1 + h)
      <4>1. o \in 1..l - j /\ n = (i - 1 + h) + o /\ j + o \in 1..l /\ j + o > j /\ o = (j + o) - j
        BY <3>3, <2>5, <2>13, <2>14
      <4> HIDE DEF o
      <4>2. P[n] = B[o] /\ B[o] = element[j + o] /\ element[j + o] = NodeElement(forward[j + o])
        BY <4>1, <2>9, <2>10, <2>13
      <4> QED BY <4>1, <4>2
    <3> QED BY <3>1, <3>2, <3>3
  <2>16. ASSUME NEW n \in 1..Len(P) PROVE EndsPattern(P[n]) <=> n = 1
    <3>1. CASE n \in 1..i - 1 /\ P[n] = NodeElement(forward[n]) /\ n \in 1..l
      BY <3>1, <2>8 DEF EndsPattern, NodeElement
    <3>2. CASE h = 1 /\ n = i /\ P[n] = Wildcard(forward[i].preceding)
      BY <3>2, <2>5, <2>8 DEF EndsPattern, Wildcard
    <3>3. CASE \E m \in 1..l : P[n] = NodeElement(forward[m]) /\ n = (i - 1 + h) + (m - j) /\ m > j
      <4>1. PICK m \in 1..l : P[n] = NodeElement(forward[m]) /\ n = (i - 1 + h) + (m - j) /\ m > j
        BY <3>3
      <4>2. n = 1 <=> m = 1
        BY <4>1, <2>5, <2>14
      <4> QED BY <4>1, <4>2, <2>8 DEF EndsPattern, NodeElement
    <3> QED BY <2>15, <3>1, <3>2, <3>3
  <2>17. ASSUME NEW n \in 1..Len(P), P[n].kind = "wildcard" PROVE n = i
    <3>1. \A y : NodeElement(y).kind # "wildcard"
      BY DEF NodeElement
    <3> QED BY <2>15, <2>17, <3>1
  <2> QED BY <2>13, <2>16, <2>17 DEF IsPattern
<1> QED BY <1>1, <1>2
-----------------------------------------------------------------------------
(* What a path spells                                                      *)

Keys(p) == [k \in DOMAIN p |-> Reverse(p)[k].entry.key]

\* Two parts of a sequence, one behind the other.
LEMMA PartsTogether ==
    ASSUME NEW S, NEW s \in Seq(S), NEW a \in Nat, NEW b \in Nat, a <= b, b <= Len(s)
    PROVE  SubSeq(s, 1, a) \o SubSeq(s, a + 1, b) = SubSeq(s, 1, b)
<1> DEFINE x == SubSeq(s, 0 + 1, a)
           y == SubSeq(s, a + 1, b)
           z == SubSeq(s, 0 + 1, b)
<1>0. 0 \in Nat /\ 0 <= a /\ 0 <= b /\ a <= Len(s) /\ Len(s) \in Nat
  BY LenProperties
<1>1. x \in Seq(S) /\ IsPart(x, s, 0, a)
  BY <1>0, PartProperties
<1>2. y \in Seq(S) /\ IsPart(y, s, a, b)
  BY <1>0, PartProperties
<1>3. z \in Seq(S) /\ IsPart(z, s, 0, b)
  BY <1>0, PartProperties
<1> HIDE DEF x, y, z
<1>4. x \o y \in Seq(S) /\ IsJoin(x \o y, x, y)
  BY <1>1, <1>2, JoinProperties
<1> DEFINE w == x \o y
<1> HIDE DEF w
<1>5. w \in Seq(S) /\ IsJoin(w, x, y)
  BY <1>4 DEF w
<1>6. /\ Len(x) = a /\ Len(y) = b - a /\ Len(z) = b
      /\ (\A i \in 1..a : x[i] = s[i]) /\ (\A i \in 1..b - a : y[i] = s[a + i]) /\ (\A i \in 1..b : z[i] = s[i])
  <2>1. \A i \in Nat : 0 + i = i
    OBVIOUS
  <2>2. Len(x) = a - 0 /\ (\A i \in 1..a - 0 : x[i] = s[0 + i]) /\ a - 0 = a
    BY <1>1 DEF IsPart
  <2>3. Len(z) = b - 0 /\ (\A i \in 1..b - 0 : z[i] = s[0 + i]) /\ b - 0 = b
    BY <1>3 DEF IsPart
  <2>4. Len(y) = b - a /\ (\A i \in 1..b - a : y[i] = s[a + i])
    BY <1>2 DEF IsPart
  <2> QED BY <2>1, <2>2, <2>3, <2>4
<1>7. Len(w) = b /\ (\A i \in 1..a : w[i] = x[i]) /\ (\A i \in 1..b - a : w[a + i] = y[i])
  <2>1. Len(w) = Len(x) + Len(y) /\ (\A i \in 1..Len(x) : w[i] = x[i]) /\ \A i \in 1..Len(y) : w[Len(x) + i] = y[i]
    BY <1>5 DEF IsJoin
  <2>2. Len(x) = a /\ Len(y) = b - a
    BY <1>6
  <2>3. a + (b - a) = b
    OBVIOUS
  <2> QED BY <2>1, <2>2, <2>3
<1>8. ASSUME NEW i \in 1..Len(w) PROVE w[i] = z[i]
  <2>1. CASE i \in 1..a
    BY <2>1, <1>6, <1>7
  <2>2. CASE i \notin 1..a
    <3>1. i - a \in 1..b - a /\ a + (i - a) = i /\ i \in 1..b
      BY <2>2, <1>7
    <3>2. w[a + (i - a)] = y[i - a] /\ y[i - a] = s[a + (i - a)]
      BY <3>1, <1>6, <1>7
    <3> QED BY <3>1, <3>2, <1>6
  <2> QED BY <2>1, <2>2
<1>9. w = z
  BY <1>3, <1>5, <1>6, <1>7, <1>8, SeqEqual
<1>10. 0 + 1 = 1
  OBVIOUS
<1> QED BY <1>9, <1>10 DEF w, x, y, z

\* A node in front of a path, which is read backwards, adds its key behind.
LEMMA SpellingGrows ==
    ASSUME NEW n \in Node, NEW q \in Seq(Node), Len(q) # 0, Keys(q) \in Seq(Seq(Letters)), n.entry.key \in Seq(Letters)
    PROVE  /\ Keys(<<n>> \o q) \in Seq(Seq(Letters))
           /\ Spelling(<<n>> \o q) = Spelling(q) \o n.entry.key
<1> DEFINE one == <<n>>
           p == one \o q
           l == Len(q)
<1>1. one \in Seq(Node) /\ Len(one) = 1 /\ one[1] = n
  OBVIOUS
<1> HIDE DEF one
<1>2. p \in Seq(Node) /\ IsJoin(p, one, q) /\ l \in Nat
  BY <1>1, JoinProperties
<1> HIDE DEF p
<1>3. Len(p) = l + 1 /\ p[1] = n /\ \A k \in 1..l : p[1 + k] = q[k]
  <2>1. Len(p) = 1 + l /\ (\A k \in 1..1 : p[k] = one[k]) /\ \A k \in 1..l : p[1 + k] = q[k]
    BY <1>1, <1>2 DEF IsJoin
  <2> QED BY <2>1, <1>1, <1>2
<1>4. /\ Len(Reverse(p)) = l + 1 /\ (\A k \in 1..l + 1 : Reverse(p)[k] = p[(l + 1) - k + 1])
      /\ Len(Reverse(q)) = l /\ (\A k \in 1..l : Reverse(q)[k] = q[l - k + 1])
  <2>1. p \in Seq(Node) /\ q \in Seq(Node) /\ Len(p) = l + 1
    BY <1>2, <1>3
  <2>2. Len(Reverse(p)) = Len(p) /\ \A k \in 1..Len(p) : Reverse(p)[k] = p[Len(p) - k + 1]
    BY <2>1, ReverseFacts
  <2>3. Len(Reverse(q)) = Len(q) /\ \A k \in 1..Len(q) : Reverse(q)[k] = q[Len(q) - k + 1]
    BY <2>1, ReverseFacts
  <2> QED BY <2>1, <2>2, <2>3
<1>5. DOMAIN p = 1..l + 1 /\ DOMAIN q = 1..l
  BY <1>2, <1>3, LenProperties
<1> HIDE DEF l
<1>6. Keys(q) = [k \in 1..l |-> Reverse(q)[k].entry.key] /\ Keys(p) = [k \in 1..l + 1 |-> Reverse(p)[k].entry.key]
  BY <1>5 DEF Keys
<1>7. Len(Keys(q)) = l
  <2>1. DOMAIN Keys(q) = 1..l
    BY <1>6
  <2> QED BY <2>1, <1>2, LenProperties
<1> DEFINE u == Append(Keys(q), n.entry.key)
<1>8. /\ u \in Seq(Seq(Letters)) /\ Len(u) = l + 1 /\ (\A k \in 1..l : u[k] = Keys(q)[k])
      /\ u[l + 1] = n.entry.key
  BY <1>7, AppendProperties
<1> HIDE DEF u
<1>9. DOMAIN u = 1..l + 1
  BY <1>8, LenProperties
<1>10. ASSUME NEW k \in 1..l + 1 PROVE u[k] = Keys(p)[k]
  <2>1. Keys(p)[k] = Reverse(p)[k].entry.key
    BY <1>6
  <2>2. CASE k = l + 1
    <3>1. (l + 1) - k + 1 = 1
      BY <2>2, <1>2
    <3> QED BY <3>1, <2>1, <2>2, <1>3, <1>4, <1>8
  <2>3. CASE k # l + 1
    <3>1. k \in 1..l /\ l - k + 1 \in 1..l /\ (l + 1) - k + 1 = 1 + (l - k + 1)
      BY <2>3, <1>2
    <3>2. Reverse(p)[k] = q[l - k + 1] /\ Reverse(q)[k] = q[l - k + 1]
      BY <3>1, <1>3, <1>4
    <3>3. Keys(q)[k] = Reverse(q)[k].entry.key
      BY <3>1, <1>6
    <3> QED BY <3>1, <3>2, <3>3, <2>1, <1>8
  <2> QED BY <2>2, <2>3
<1>11. Keys(p) = u
  <2>1. u = [k \in 1..l + 1 |-> u[k]]
    <3>1. u \in [1..Len(u) -> Seq(Letters)]
      BY <1>8
    <3> QED BY <3>1, <1>8
  <2>2. Keys(p) = [k \in 1..l + 1 |-> Keys(p)[k]]
    BY <1>6
  <2> QED BY <2>1, <2>2, <1>10
<1>12. FlattenSeq(u) = FlattenSeq(Keys(q)) \o n.entry.key
  BY FlattenAppend DEF u
<1>13. Spelling(p) = FlattenSeq(Keys(p)) /\ Spelling(q) = FlattenSeq(Keys(q))
  BY DEF Spelling, Keys
<1>14. Keys(p) \in Seq(Seq(Letters)) /\ Spelling(p) = Spelling(q) \o n.entry.key
  BY <1>8, <1>11, <1>12, <1>13
<1> QED BY <1>14 DEF p, one

LEMMA BosSpelling ==
    /\ Keys(<<Bos>>) \in Seq(Seq(Letters))
    /\ Spelling(<<Bos>>) = <<>>
<1>1. PICK p : p = <<Bos>>
  OBVIOUS
<1>2. Bos \in Node
  BY EntryFacts DEF Bos, Node, NoStep
<1>3. p \in Seq(Node) /\ Len(p) = 1 /\ p[1] = Bos /\ DOMAIN p = {1}
  BY <1>1, <1>2
<1>4. Reverse(p)[1] = Bos
  <2>1. 1 \in 1..Len(p) /\ Len(p) - 1 + 1 = 1
    BY <1>3
  <2> QED BY <2>1, <1>3, ReverseFacts
<1>5. Bos.entry.key = <<>>
  BY DEF Bos, BosEos
<1>6. Keys(p) = [k \in {1} |-> <<>>]
  <2>1. \A k \in {1} : Reverse(p)[k].entry.key = <<>>
    BY <1>4, <1>5
  <2> QED BY <2>1, <1>3 DEF Keys
<1>7. PICK e : e = <<>> /\ e \in Seq(Letters)
  <2>1. <<>> \in Seq(Letters)
    OBVIOUS
  <2> QED BY <2>1
<1>8. Keys(p) = <<e>>
  <2>1. Keys(p) = [k \in {1} |-> e]
    BY <1>6, <1>7
  <2>2. 1..1 = {1}
    OBVIOUS
  <2> QED BY <2>1, <2>2
<1>9. Append(<<>>, e) = <<e>>
  OBVIOUS
<1>10. <<>> \in Seq(Seq(Letters))
  OBVIOUS
<1>11. FlattenSeq(Append(<<>>, e)) = FlattenSeq(<<>>) \o e
  BY <1>7, <1>10, FlattenAppend
<1>12. FlattenSeq(Keys(p)) = <<>> \o <<>>
  BY <1>7, <1>8, <1>9, <1>11, FlattenEmpty
<1>13. <<>> \o <<>> = <<>>
  OBVIOUS
<1>14. Spelling(p) = FlattenSeq(Keys(p))
  BY DEF Spelling, Keys
<1>15. Keys(p) \in Seq(Seq(Letters))
  BY <1>7, <1>8
<1> QED BY <1>1, <1>12, <1>13, <1>14, <1>15

\* The path to a node spells the input up to the step of the node.
LEMMA PathsSpell ==
    ASSUME GraphInv
    PROVE  \A s \in DOMAIN graph : \A i \in DOMAIN graph[s].nodes : \A p :
              IsPathFrom(p, graph[s].nodes[i]) =>
                 Keys(p) \in Seq(Seq(Letters)) /\ Spelling(p) = SubSeq(input, 1, graph[s].tail)
<1> DEFINE T == {k \in Nat : \A s \in DOMAIN graph : s <= k =>
                    \A i \in DOMAIN graph[s].nodes : \A p :
                       IsPathFrom(p, graph[s].nodes[i]) =>
                          Keys(p) \in Seq(Seq(Letters)) /\ Spelling(p) = SubSeq(input, 1, graph[s].tail)}
<1>0. /\ DOMAIN graph = 1..Len(graph) /\ Len(graph) \in Nat /\ input \in Seq(Letters) /\ Len(input) \in Nat
      /\ \A s \in DOMAIN graph : graph[s].tail \in Nat /\ graph[s].tail <= Len(input)
  BY GraphFacts DEF GraphInv
<1>1. 0 \in T
  BY <1>0
<1>2. ASSUME NEW k \in Nat, k \in T PROVE k + 1 \in T
  <2> SUFFICES ASSUME NEW s \in DOMAIN graph, s <= k + 1, NEW i \in DOMAIN graph[s].nodes, NEW p,
                      IsPathFrom(p, graph[s].nodes[i])
               PROVE  Keys(p) \in Seq(Seq(Letters)) /\ Spelling(p) = SubSeq(input, 1, graph[s].tail)
    OBVIOUS
  <2>1. PICK n : n = graph[s].nodes[i]
    OBVIOUS
  <2>2. n \in Node /\ IsLatticeNode(n) /\ n.preceding < s /\ (s = 1 <=> n = Bos)
    BY <2>1, NodesAreLatticeNodes
  <2>3. CASE s = 1
    <3>1. p = <<Bos>>
      <4>1. n = Bos /\ IsPathFrom(p, n)
        BY <2>1, <2>2, <2>3
      <4> QED BY <4>1, <2>2, PathSteps
    <3>2. graph[s].tail = 0
      BY <2>3 DEF GraphInv
    <3>3. SubSeq(input, 1, 0) = <<>>
      BY <1>0
    <3> QED BY <3>1, <3>2, <3>3, BosSpelling
  <2>4. CASE s # 1
    <3>0. PICK j \in DOMAIN graph[n.preceding].nodes : \E q :
             IsPathFrom(q, graph[n.preceding].nodes[j]) /\ p = <<n>> \o q
      <4>1. n # Bos /\ IsPathFrom(p, n)
        BY <2>1, <2>2, <2>4
      <4> QED BY <4>1, <2>2, PathSteps
    <3>1. PICK q : IsPathFrom(q, graph[n.preceding].nodes[j]) /\ p = <<n>> \o q
      BY <3>0
    <3>2. n.preceding \in DOMAIN graph /\ n.preceding <= k
      BY <2>2, <2>4, <1>0, LatticeNodeFacts
    <3>3. PICK r \in DOMAIN graph : r = n.preceding
      BY <3>2
    <3>4. Keys(q) \in Seq(Seq(Letters)) /\ Spelling(q) = SubSeq(input, 1, graph[r].tail)
      BY <1>2, <3>1, <3>2, <3>3
    <3>5. graph[r].tail <= graph[s].tail /\ n.entry.key = SubSeq(input, graph[r].tail + 1, graph[s].tail)
      <4>1. s \in 2..Len(graph)
        BY <1>0, <2>4
      <4>2. IsStepNode(connection, graph, input, s, i, n)
        BY <4>1, <2>1 DEF GraphInv, IsStepOf
      <4> QED BY <4>2, <3>3 DEF IsStepNode
    <3> DEFINE a == graph[r].tail
               b == graph[s].tail
    <3>6. a \in Nat /\ b \in Nat /\ a <= b /\ b <= Len(input)
      BY <3>5, <1>0
    <3> HIDE DEF a, b
    <3>7. SubSeq(input, a + 1, b) \in Seq(Letters)
      BY <3>6, <1>0, PartProperties
    <3>8. q \in Seq(Node) /\ Len(q) # 0
      BY <3>1 DEF IsPathFrom, IsChain
    <3>9. Keys(p) \in Seq(Seq(Letters)) /\ Spelling(p) = SubSeq(input, 1, a) \o SubSeq(input, a + 1, b)
      BY <2>2, <3>1, <3>4, <3>5, <3>7, <3>8, SpellingGrows DEF a, b
    <3>10. SubSeq(input, 1, a) \o SubSeq(input, a + 1, b) = SubSeq(input, 1, b)
      BY <3>6, <1>0, PartsTogether
    <3> QED BY <3>9, <3>10 DEF b
  <2> QED BY <2>3, <2>4
<1>3. Nat \subseteq T
  <2> HIDE DEF T
  <2> QED BY <1>1, <1>2, SetInduction
<1> QED BY <1>0, <1>3

LEMMA WholePathsSpell ==
    ASSUME LatticeInv, eos # NoNode, NEW p, IsPathFrom(p, eos)
    PROVE  Spelling(p) = SubSeq(input, 1, Last(graph).tail)
<1>1. GraphInv /\ IsLatticeNode(eos) /\ eos.preceding = Len(graph) /\ eos # Bos /\ eos.entry = BosEos
  BY WholePathsArePaths DEF LatticeInv, EosInv
<1>0. PICK j \in DOMAIN graph[eos.preceding].nodes : \E q :
         IsPathFrom(q, graph[eos.preceding].nodes[j]) /\ p = <<eos>> \o q
  BY <1>1, PathSteps
<1>2. PICK q : IsPathFrom(q, graph[eos.preceding].nodes[j]) /\ p = <<eos>> \o q
  BY <1>0
<1>3. PICK s \in DOMAIN graph : s = Len(graph)
  BY <1>1, GraphFacts
<1>4. Keys(q) \in Seq(Seq(Letters)) /\ Spelling(q) = SubSeq(input, 1, graph[s].tail)
  BY <1>1, <1>2, <1>3, PathsSpell
<1>5. eos \in Node /\ q \in Seq(Node) /\ Len(q) # 0
  BY <1>1, <1>2, LatticeNodeFacts DEF IsPathFrom, IsChain
<1>6. eos.entry.key = <<>>
  BY <1>1 DEF BosEos
<1>7. PICK x : x = SubSeq(input, 1, graph[s].tail)
  OBVIOUS
<1>8. x \in Seq(Letters)
  <2> DEFINE b == graph[s].tail
  <2>1. b \in Nat /\ b <= Len(input) /\ 0 <= b /\ 0 \in Nat /\ input \in Seq(Letters)
    BY <1>1, GraphFacts DEF GraphInv
  <2> HIDE DEF b
  <2>2. SubSeq(input, 0 + 1, b) \in Seq(Letters)
    BY <2>1, PartProperties
  <2>3. 0 + 1 = 1
    OBVIOUS
  <2> QED BY <2>2, <2>3, <1>7 DEF b
<1>9. Spelling(p) = x \o <<>>
  <2>1. <<>> \in Seq(Letters)
    OBVIOUS
  <2> QED BY <2>1, <1>2, <1>4, <1>5, <1>6, <1>7, SpellingGrows
<1>10. x \o <<>> = x
  BY <1>8
<1> QED BY <1>3, <1>7, <1>9, <1>10 DEF Last
-----------------------------------------------------------------------------
(* The tails that the search keeps                                         *)

\* A tail that is not connected does not become part of a connected path.
LEMMA TailBound ==
    ASSUME GraphInv, NEW d, LinkCosts(d), NEW t, IsChain(t)
    PROVE  /\ TailCost(t) = MaxCost => WholeCost(t) = MaxCost
           /\ t[Len(t)] = Bos => IsPathFrom(t, t[1]) /\ PathCost(t) = WholeCost(t)
<1> DEFINE a == Len(t)
           c == CostTo(t)[a - 1]
           n == t[a]
           e == n.entry.cost
           u == (a - 1) * d
<1>1. /\ a \in Nat \ {0} /\ d \in Nat /\ n \in Node /\ u \in Nat /\ c \in Within(u) /\ c \in Int
      /\ u + d < MaxCost /\ d + d < MaxCost
  BY TailRoom
<1>2. IsLatticeNode(n)
  <2>1. a \in 1..a
    BY <1>1
  <2> QED BY <2>1 DEF IsChain
<1>3. e \in Within(d)
  BY <1>1 DEF LinkCosts, Node
<1>4. TailCost(t) = AddCost(c, e) /\ WholeCost(t) = AddCost(c, n.cost)
  BY DEF TailCost, WholeCost
<1> HIDE DEF a, c, u
<1>5. AddCost(c, e) = MaxCost <=> c = MaxCost \/ e = MaxCost
  <2> HIDE DEF e
  <2> QED BY <1>1, <1>3, AddWithin
<1>6. ASSUME TailCost(t) = MaxCost PROVE WholeCost(t) = MaxCost
  <2>1. CASE c = MaxCost
    BY <2>1, <1>4 DEF AddCost
  <2>2. CASE e = MaxCost
    <3>1. n # Bos
      <4>1. Bos.entry.cost = 0
        BY DEF Bos, BosEos
      <4>2. MaxCost # 0
        BY <1>1, MaxCostAssumption
      <4> QED BY <4>1, <4>2, <2>2
    <3>2. IsNodeAfter(n, n.preceding)
      BY <3>1, <1>2, LatticeNodeFacts
    <3>3. n.cost = AddCost(CostThrough(graph[n.preceding], n.edges, n.best), e)
      BY <3>2 DEF IsNodeAfter, IsNodeIn
    <3>4. n.cost = MaxCost
      BY <3>3, <2>2 DEF AddCost
    <3> QED BY <3>4, <1>4 DEF AddCost
  <2> QED BY <2>1, <2>2, <1>4, <1>5, <1>6
<1>7. ASSUME n = Bos PROVE IsPathFrom(t, t[1]) /\ PathCost(t) = WholeCost(t)
  <2>1. n.preceding = NoStep /\ n.cost = 0
    BY <1>7 DEF Bos
  <2>2. IsPathFrom(t, t[1])
    BY <2>1 DEF IsPathFrom, a
  <2>3. AddCost(c, 0) = c
    BY <1>1 DEF AddCost
  <2>4. PathCost(t) = c
    BY DEF PathCost, c, a
  <2> QED BY <2>1, <2>2, <2>3, <2>4, <1>4
<1> QED BY <1>6, <1>7 DEF a

LEMMA BosIsBos == ASSUME GraphInv, NEW n, IsLatticeNode(n) PROVE IsBos(n) <=> n = Bos
<1>1. n.preceding = NoStep <=> n = Bos
  BY LatticeNodeFacts
<1>2. Bos.preceding = NoStep
  BY DEF Bos
<1> QED BY <1>1, <1>2 DEF IsBos, SameNode

\* Neither of two tails goes on to the other.
IsApart(s, t) == ~IsStart(s, t) /\ ~IsStart(t, s)

LEMMA StartsFacts ==
    ASSUME NEW s, NEW t, NEW u, Len(s) \in Nat, Len(t) \in Nat, Len(u) \in Nat
    PROVE  /\ IsStart(s, s)
           /\ IsStart(s, t) /\ IsStart(t, u) => IsStart(s, u)
           /\ IsStart(s, u) /\ IsStart(t, u) => IsStart(s, t) \/ IsStart(t, s)
<1>1. IsStart(s, s)
  BY DEF IsStart
<1>2. ASSUME IsStart(s, t), IsStart(t, u) PROVE IsStart(s, u)
  <2>1. Len(s) <= Len(u) /\ \A i \in 1..Len(s) : i \in 1..Len(t)
    BY <1>2 DEF IsStart
  <2> QED BY <2>1, <1>2 DEF IsStart
<1>3. ASSUME IsStart(s, u), IsStart(t, u) PROVE IsStart(s, t) \/ IsStart(t, s)
  <2>1. CASE Len(s) <= Len(t)
    <3>1. \A i \in 1..Len(s) : i \in 1..Len(t)
      BY <2>1
    <3> QED BY <3>1, <2>1, <1>3 DEF IsStart
  <2>2. CASE ~(Len(s) <= Len(t))
    <3>1. Len(t) <= Len(s) /\ \A i \in 1..Len(t) : i \in 1..Len(s)
      BY <2>2
    <3> QED BY <3>1, <1>3 DEF IsStart
  <2> QED BY <2>1, <2>2
<1> QED BY <1>1, <1>2, <1>3

\* A longer tail.
IsLonger(u, t, m) ==
    /\ Len(t) \in Nat /\ Len(u) = Len(t) + 1
    /\ \A k \in 1..Len(t) : u[k] = t[k]
    /\ u[Len(t) + 1] = m

LEMMA LongerFacts ==
    ASSUME NEW u, NEW t, NEW m, IsLonger(u, t, m)
    PROVE  /\ IsStart(t, u) /\ Len(u) \in Nat
           /\ \A c : Len(c) \in Nat /\ IsApart(c, t) => IsApart(c, u)
           /\ \A v, n : IsLonger(v, t, n) /\ n # m => IsApart(u, v)
           /\ \A p : Len(p) \in Nat /\ Len(t) < Len(p) /\ IsStart(t, p) /\ p[Len(t) + 1] = m => IsStart(u, p)
<1> DEFINE l == Len(t)
<1>1. l \in Nat /\ Len(u) = l + 1 /\ (\A k \in 1..l : u[k] = t[k]) /\ u[l + 1] = m
  BY DEF IsLonger
<1>2. IsStart(t, u) /\ Len(u) \in Nat
  BY <1>1 DEF IsStart
<1>3. ASSUME NEW c, Len(c) \in Nat, IsApart(c, t) PROVE IsApart(c, u)
  <2>1. ~IsStart(u, c)
    BY <1>2, <1>1, <1>3, StartsFacts DEF IsApart
  <2>2. ~IsStart(c, u)
    <3>1. ASSUME IsStart(c, u) PROVE FALSE
      <4>1. IsStart(c, t) \/ IsStart(t, c)
        BY <1>1, <1>2, <1>3, <3>1, StartsFacts
      <4> QED BY <4>1, <1>3 DEF IsApart
    <3> QED BY <3>1
  <2> QED BY <2>1, <2>2 DEF IsApart
<1>4. ASSUME NEW v, NEW n, IsLonger(v, t, n), n # m PROVE IsApart(u, v)
  <2>1. Len(v) = l + 1 /\ v[l + 1] = n
    BY <1>4 DEF IsLonger
  <2>2. l + 1 \in 1..Len(u) /\ l + 1 \in 1..Len(v)
    BY <2>1, <1>1
  <2> QED BY <2>1, <2>2, <1>1, <1>4 DEF IsStart, IsApart
<1>5. ASSUME NEW p, Len(p) \in Nat, l < Len(p), IsStart(t, p), p[l + 1] = m PROVE IsStart(u, p)
  <2>1. l + 1 <= Len(p)
    BY <1>1, <1>5
  <2>2. ASSUME NEW k \in 1..Len(u) PROVE u[k] = p[k]
    <3>1. CASE k = l + 1
      BY <3>1, <1>1, <1>5
    <3>2. CASE k # l + 1
      <4>1. k \in 1..l
        BY <3>2, <1>1
      <4> QED BY <4>1, <1>1, <1>5 DEF IsStart
    <3> QED BY <3>1, <3>2
  <2> QED BY <2>1, <2>2, <1>1 DEF IsStart
<1> QED BY <1>2, <1>3, <1>4, <1>5

LEMMA ChainLonger ==
    ASSUME GraphInv, NEW t, IsChain(t), NEW m, IsLink(t[Len(t)], m)
    PROVE  IsChain(Append(t, m)) /\ IsLonger(Append(t, m), t, m)
BY ChainGoesOn DEF IsLonger

\* The first node of a path that a tail does not have.
LEMMA PathBehindTail ==
    ASSUME GraphInv, NEW p, NEW x, IsPathFrom(p, x), NEW t, IsChain(t), IsStart(t, p)
    PROVE  /\ t[Len(t)] = Bos => p = t
           /\ t[Len(t)] # Bos => Len(t) < Len(p) /\ IsLink(t[Len(t)], p[Len(t) + 1])
<1>1. /\ p \in Seq(Node) /\ Len(p) \in Nat \ {0} /\ p[Len(p)].preceding = NoStep
      /\ \A k \in 1..Len(p) - 1 : IsLink(p[k], p[k + 1])
      /\ \A k \in 1..Len(p) : IsLatticeNode(p[k])
      /\ t \in Seq(Node) /\ Len(t) \in Nat \ {0} /\ Len(t) <= Len(p) /\ \A k \in 1..Len(t) : t[k] = p[k]
  BY DEF IsPathFrom, IsChain, IsStart
<1>2. Len(t) \in 1..Len(t) /\ Len(t) \in 1..Len(p) /\ t[Len(t)] = p[Len(t)]
  BY <1>1
<1>3. ASSUME t[Len(t)] = Bos PROVE p = t
  <2>1. ASSUME Len(t) # Len(p) PROVE FALSE
    <3>1. Len(t) \in 1..Len(p) - 1 
      BY <2>1, <1>1
    <3>2. IsLink(p[Len(t)], p[Len(t) + 1])
      BY <3>1, <1>1
    <3>3. 0 \in DOMAIN graph
      BY <3>2, <1>2, <1>3 DEF IsLink, Bos, NoStep
    <3> QED BY <3>3, GraphFacts
  <2> QED BY <2>1, <1>1, SeqEqual
<1>4. ASSUME t[Len(t)] # Bos PROVE Len(t) < Len(p) /\ IsLink(t[Len(t)], p[Len(t) + 1])
  <2>1. IsLatticeNode(t[Len(t)])
    BY <1>1, <1>2
  <2>2. t[Len(t)].preceding # NoStep
    BY <2>1, <1>4, LatticeNodeFacts
  <2>3. Len(t) # Len(p)
    BY <2>2, <1>1, <1>2
  <2>4. Len(t) \in 1..Len(p) - 1
    BY <2>3, <1>1
  <2> QED BY <2>4, <1>1, <1>2
<1> QED BY <1>3, <1>4
-----------------------------------------------------------------------------
(* A walk along the best preceding nodes                                   *)

\* The tail of the EOS node alone has not been looked at.
MayGoOn(t) == MatchesTail(pattern, t) \/ t = <<eos>>

IsCap(c) ==
    /\ c = Cap(c.tail, TailCost(c.tail), WholeCost(c.tail))
    /\ IsChain(c.tail) /\ c.tail[1] = eos /\ MayGoOn(c.tail)

AreApart(cs) == \A c, d \in cs : c # d => ~IsStart(c.tail, d.tail)

\* The paths to enumerate.
IsGood(p) == IsPathFrom(p, eos) /\ MatchesTail(pattern, p) /\ PathCost(p) # MaxCost

\* Between two turns: the way so far and the new caps lead to what the cap led to.
Walking(cap, w) ==
    /\ IsChain(w.nodes) /\ w.nodes[1] = eos /\ IsStart(cap.tail, w.nodes)
    /\ w.cost = TailCost(w.nodes) /\ WholeCost(w.nodes) = cap.wholeCost
    /\ w.conforming => MayGoOn(w.nodes)
    /\ ~w.conforming => ~MatchesTail(pattern, w.nodes)
    /\ \A c \in w.caps : IsCap(c) /\ IsStart(cap.tail, c.tail) /\ IsApart(c.tail, w.nodes)
    /\ AreApart(w.caps)
    /\ \A p : IsGood(p) /\ IsStart(cap.tail, p) => IsStart(w.nodes, p) \/ \E c \in w.caps : IsStart(c.tail, p)

\* The nodes of a step have different numbers.
LEMMA NodesDiffer ==
    ASSUME GraphInv, NEW s \in DOMAIN graph, NEW i \in DOMAIN graph[s].nodes, NEW j \in DOMAIN graph[s].nodes, i # j
    PROVE  graph[s].nodes[i] # graph[s].nodes[j]
<1>1. DOMAIN graph = 1..Len(graph) /\ Len(graph) \in Nat
  BY GraphFacts
<1>2. CASE s = 1
  <2>1. DOMAIN graph[s].nodes = {1}
    BY <1>2 DEF GraphInv
  <2> QED BY <2>1
<1>3. CASE s # 1
  <2>1. s \in 2..Len(graph)
    BY <1>1, <1>3
  <2>2. graph[s].nodes[i].index = i /\ graph[s].nodes[j].index = j
    BY <2>1 DEF GraphInv, IsStepOf, IsStepNode
  <2> QED BY <2>2
<1> QED BY <1>2, <1>3

LEMMA BestIsNode ==
    ASSUME GraphInv, NEW n, IsLatticeNode(n), n # Bos
    PROVE  n.preceding \in DOMAIN graph /\ n.best \in DOMAIN graph[n.preceding].nodes
<1>1. n.preceding \in DOMAIN graph /\ IsNodeAfter(n, n.preceding)
  BY LatticeNodeFacts
<1> DEFINE step == graph[n.preceding]
<1>2. step.nodes \in Seq(Node) /\ step.nodes # <<>>
  BY <1>1, GraphFacts
<1>3. n \in Node /\ n.best = Best(step, n.edges) /\ n.edges \in Seq(Int)
      /\ n.edges = [i \in DOMAIN step.nodes |-> connection[<<step.nodes[i].entry.name, n.entry.name>>]]
  BY <1>1 DEF IsNodeAfter, IsNodeIn, Node
<1>4. \A i \in DOMAIN step.nodes : n.edges[i] \in Int
  <2>1. DOMAIN n.edges = DOMAIN step.nodes
    BY <1>3
  <2> DEFINE e == n.edges
  <2>2. e \in Seq(Int)
    BY <1>3
  <2> HIDE DEF e
  <2>3. \A i \in DOMAIN e : e[i] \in Int
    BY <2>2, ElementOfSeq, LenProperties
  <2> QED BY <2>1, <2>3 DEF e
<1> HIDE DEF step
<1>5. n.best \in DOMAIN step.nodes
  BY <1>2, <1>3, <1>4, BestFacts
<1> QED BY <1>1, <1>5 DEF step

\* A path that goes through a tail is not refused there, and costs what the tail allows.
LEMMA GoodTail ==
    ASSUME GraphInv, NEW d, LinkCosts(d), NEW p, IsGood(p), NEW t, IsChain(t), t[1] = eos, IsStart(t, p)
    PROVE  MatchesTail(pattern, t) /\ TailCost(t) # MaxCost /\ WholeCost(t) # MaxCost
<1>1. /\ IsPathFrom(p, eos) /\ IsChain(p) /\ Len(p) \in Nat
      /\ Len(t) \in Nat /\ Len(t) \in 0..Len(p) /\ Len(t) \in 0..Len(t)
  BY DEF IsGood, IsPathFrom, IsChain, IsStart
<1>2. MatchesTail(pattern, t)
  <2>1. ASSUME LeftBehind(pattern, t)[Len(t)] = Mismatch PROVE FALSE
    <3>1. LeftBehind(pattern, p)[Len(t)] = LeftBehind(pattern, t)[Len(t)]
      BY <1>1, LeftOfSame
    <3>2. LeftBehind(pattern, p)[Len(p)] = Mismatch
      BY <2>1, <3>1, <1>1, MismatchStays
    <3> QED BY <3>2 DEF IsGood, MatchesTail, Remaining
  <2> QED BY <2>1 DEF MatchesTail, Remaining
<1>3. WholeCost(t) <= PathCost(p) /\ WholeCost(t) \in Int
  BY <1>1, WholeCostFacts
<1>4. PathCost(p) \in Int /\ PathCost(p) <= MaxCost /\ PathCost(p) # MaxCost
  <2> DEFINE m == (Len(p) - 1) * d
  <2>1. PathCost(p) \in Int /\ PathCost(p) \in Within(m) /\ m < MaxCost
    BY <1>1, PathCostIsInt
  <2>2. m \in Nat
    <3>1. Len(p) - 1 \in Nat /\ d \in Nat
      BY <1>1 DEF IsChain, LinkCosts
    <3> QED BY <3>1, Multiples
  <2> HIDE DEF m
  <2>3. PathCost(p) <= MaxCost
    BY <2>1, <2>2, WithinIsInt
  <2> QED BY <2>1, <2>3 DEF IsGood
<1>5. WholeCost(t) # MaxCost
  BY <1>3, <1>4, MaxCostAssumption
<1>6. TailCost(t) # MaxCost
  BY <1>5, TailBound
<1> QED BY <1>2, <1>5, <1>6

\* The ways that lead on from a tail.
LEMMA WaysOn ==
    ASSUME GraphInv, NEW d, LinkCosts(d), NEW w, IsChain(w.nodes), w.cost = TailCost(w.nodes), Last(w.nodes) # Bos
    PROVE  LET n == Last(w.nodes)
               nodes == graph[n.preceding].nodes
           IN  /\ n.preceding \in DOMAIN graph /\ n.best \in DOMAIN nodes
               /\ \A i \in DOMAIN nodes :
                     LET t == Append(w.nodes, nodes[i])
                     IN  /\ IsChain(t) /\ IsLonger(t, w.nodes, nodes[i])
                         /\ Branch(w, i) = Cap(t, TailCost(t), WholeCost(t))
                         /\ nodes[i].preceding < n.preceding
               /\ LET t == Append(w.nodes, nodes[n.best])
                  IN  /\ TailCost(t) = AddCost(w.cost, AddCost(n.edges[n.best], nodes[n.best].entry.cost))
                      /\ WholeCost(t) = WholeCost(w.nodes)
<1> DEFINE n == Last(w.nodes)
           nodes == graph[n.preceding].nodes
<1>1. n = w.nodes[Len(w.nodes)] /\ Len(w.nodes) \in Nat \ {0}
  BY DEF Last, IsChain
<1>2. IsLatticeNode(n) /\ n # Bos
  <2>1. Len(w.nodes) \in 1..Len(w.nodes)
    BY <1>1
  <2> QED BY <2>1, <1>1 DEF IsChain
<1>3. n.preceding \in DOMAIN graph /\ n.best \in DOMAIN nodes
  BY <1>2, BestIsNode
<1>4. ASSUME NEW i \in DOMAIN nodes
      PROVE  LET t == Append(w.nodes, nodes[i])
             IN  /\ IsChain(t) /\ IsLonger(t, w.nodes, nodes[i])
                 /\ Branch(w, i) = Cap(t, TailCost(t), WholeCost(t))
                 /\ nodes[i].preceding < n.preceding
                 /\ TailCost(t) = AddCost(w.cost, AddCost(n.edges[i], nodes[i].entry.cost))
                 /\ i = n.best => WholeCost(t) = WholeCost(w.nodes)
  <2> DEFINE t == Append(w.nodes, nodes[i])
  <2>1. /\ IsLink(n, nodes[i]) /\ IsChain(t)
        /\ TailCost(t) = AddCost(AddCost(w.cost, n.edges[i]), nodes[i].entry.cost)
        /\ TailCost(t) = AddCost(w.cost, AddCost(n.edges[i], nodes[i].entry.cost))
        /\ WholeCost(t) = AddCost(AddCost(w.cost, n.edges[i]), nodes[i].cost)
        /\ i = n.best => WholeCost(t) = WholeCost(w.nodes)
    BY <1>1, <1>2, TailStep
  <2>2. IsLonger(t, w.nodes, nodes[i])
    BY <2>1, <1>1, ChainLonger
  <2>3. nodes[i].preceding < n.preceding
    BY <2>1, LinkFacts
  <2>4. Branch(w, i) = Cap(t, AddCost(AddCost(w.cost, n.edges[i]), nodes[i].entry.cost),
                              AddCost(AddCost(w.cost, n.edges[i]), nodes[i].cost))
    BY DEF Branch
  <2> QED BY <2>1, <2>2, <2>3, <2>4
<1> QED BY <1>3, <1>4

\* A turn of the loop.
LEMMA WalkingOn ==
    ASSUME GraphInv, NEW d, LinkCosts(d), NEW cap, Len(cap.tail) \in Nat, NEW w, Walking(cap, w),
           w.conforming, Last(w.nodes) # Bos
    PROVE  Walking(cap, Walked(w)) /\ Last(Walked(w).nodes).preceding < Last(w.nodes).preceding
<1> DEFINE n == Last(w.nodes)
           nodes == graph[n.preceding].nodes
           D == DOMAIN nodes
           on == [i \in D |-> Append(w.nodes, nodes[i])]
           v == Walked(w)
<1>1. /\ IsChain(w.nodes) /\ w.nodes[1] = eos /\ IsStart(cap.tail, w.nodes)
      /\ w.cost = TailCost(w.nodes) /\ WholeCost(w.nodes) = cap.wholeCost
      /\ \A c \in w.caps : IsCap(c) /\ IsStart(cap.tail, c.tail) /\ IsApart(c.tail, w.nodes)
      /\ AreApart(w.caps)
      /\ \A p : IsGood(p) /\ IsStart(cap.tail, p) => IsStart(w.nodes, p) \/ \E c \in w.caps : IsStart(c.tail, p)
  BY DEF Walking
<1>2. Len(w.nodes) \in Nat \ {0} /\ n = w.nodes[Len(w.nodes)]
  BY <1>1 DEF IsChain, Last
<1>3. IsLatticeNode(n)
  <2>1. Len(w.nodes) \in 1..Len(w.nodes)
    BY <1>2
  <2> QED BY <2>1, <1>1, <1>2 DEF IsChain
<1>4. n.preceding \in DOMAIN graph /\ n.best \in D
  BY <1>1, WaysOn
<1>5. \A i \in D : /\ IsChain(on[i]) /\ IsLonger(on[i], w.nodes, nodes[i])
                   /\ Branch(w, i) = Cap(on[i], TailCost(on[i]), WholeCost(on[i]))
                   /\ nodes[i].preceding < n.preceding
  BY <1>1, WaysOn
<1>6. /\ TailCost(on[n.best]) = AddCost(w.cost, AddCost(n.edges[n.best], nodes[n.best].entry.cost))
      /\ WholeCost(on[n.best]) = WholeCost(w.nodes)
  BY <1>1, <1>4, WaysOn
<1>7. \A i, j \in D : i # j => nodes[i] # nodes[j]
  BY <1>4, NodesDiffer
<1>8. ~IsBos(n)
  BY <1>3, BosIsBos
<1>9. /\ v.nodes = on[n.best] /\ v.cost = TailCost(on[n.best]) /\ v.caps = w.caps \cup Branches(w)
      /\ v.conforming = MatchesTail(pattern, on[n.best])
  BY <1>4, <1>6, <1>8 DEF Walked
<1> DEFINE new == Branches(w)
<1>10. \A c : c \in new <=> \E i \in D \ {n.best} :
          /\ c = Cap(on[i], TailCost(on[i]), WholeCost(on[i]))
          /\ MatchesTail(pattern, on[i]) /\ TailCost(on[i]) # MaxCost /\ WholeCost(on[i]) # MaxCost
  <2>1. \A i \in D \ {n.best} : Branch(w, i) = Cap(on[i], TailCost(on[i]), WholeCost(on[i]))
    BY <1>5
  <2>2. \A t, a, b : Cap(t, a, b).tail = t /\ Cap(t, a, b).tailCost = a /\ Cap(t, a, b).wholeCost = b
    BY DEF Cap
  <2> HIDE DEF on
  <2>3. \A c : c \in new <=> \E i \in D \ {n.best} :
          c = Branch(w, i) /\ MatchesTail(pattern, c.tail) /\ c.tailCost # MaxCost /\ c.wholeCost # MaxCost
    BY DEF Branches
  <2> QED BY <2>1, <2>2, <2>3
<1> HIDE DEF v, on, new
<1>11. \A i \in D : IsStart(w.nodes, on[i]) /\ Len(on[i]) \in Nat /\ Len(on[i]) # 0 /\ on[i][1] = eos
  <2> TAKE i \in D
  <2>1. IsStart(w.nodes, on[i]) /\ Len(on[i]) \in Nat
    <3>1. IsLonger(on[i], w.nodes, nodes[i])
      BY <1>5
    <3> QED BY <3>1, LongerFacts
  <2>2. 1 \in 1..Len(w.nodes)
    BY <1>2
  <2>3. on[i][1] = w.nodes[1]
    BY <2>1, <2>2 DEF IsStart
  <2>4. Len(on[i]) # 0
    BY <1>5 DEF IsChain
  <2> QED BY <2>1, <2>3, <2>4, <1>1
<1>12. \A i \in D : IsStart(cap.tail, on[i])
  BY <1>1, <1>2, <1>11, StartsFacts
<1>13. \A c \in w.caps : Len(c.tail) \in Nat
  BY <1>1 DEF IsCap, IsChain
<1>14. \A c \in w.caps, i \in D : IsApart(c.tail, on[i])
  BY <1>1, <1>5, <1>13, LongerFacts
<1>15. \A i, j \in D : i # j => IsApart(on[i], on[j])
  BY <1>5, <1>7, LongerFacts
<1>16. \A c \in new : \E i \in D \ {n.best} : c.tail = on[i] /\ IsCap(c)
  <2> TAKE c \in new
  <2>1. PICK i \in D \ {n.best} :
          /\ c = Cap(on[i], TailCost(on[i]), WholeCost(on[i])) /\ MatchesTail(pattern, on[i])
    BY <1>10
  <2>2. c.tail = on[i]
    BY <2>1 DEF Cap
  <2>3. IsCap(c)
    BY <2>1, <2>2, <1>5, <1>11 DEF IsCap, MayGoOn
  <2> QED BY <2>2, <2>3
<1>17. \A c \in v.caps : IsCap(c) /\ IsStart(cap.tail, c.tail) /\ IsApart(c.tail, v.nodes)
  BY <1>1, <1>4, <1>9, <1>12, <1>14, <1>15, <1>16 DEF new
<1>18. AreApart(v.caps)
  <2> SUFFICES ASSUME NEW c \in v.caps, NEW e \in v.caps, c # e PROVE ~IsStart(c.tail, e.tail)
    BY DEF AreApart
  <2>1. CASE c \in w.caps /\ e \in w.caps
    BY <2>1, <1>1 DEF AreApart
  <2>2. CASE c \in w.caps /\ e \in new
    BY <2>2, <1>14, <1>16 DEF IsApart
  <2>3. CASE c \in new /\ e \in w.caps
    BY <2>3, <1>14, <1>16 DEF IsApart
  <2>4. CASE c \in new /\ e \in new
    <3>1. PICK i \in D : c = Cap(on[i], TailCost(on[i]), WholeCost(on[i]))
      BY <2>4, <1>10
    <3>2. PICK j \in D : e = Cap(on[j], TailCost(on[j]), WholeCost(on[j]))
      BY <2>4, <1>10
    <3>3. i # j /\ c.tail = on[i] /\ e.tail = on[j]
      BY <3>1, <3>2 DEF Cap
    <3> QED BY <3>3, <1>15 DEF IsApart
  <2> QED BY <2>1, <2>2, <2>3, <2>4, <1>9 DEF new
<1>19. ASSUME NEW p, IsGood(p), IsStart(cap.tail, p)
       PROVE  IsStart(v.nodes, p) \/ \E c \in v.caps : IsStart(c.tail, p)
  <2>1. CASE \E c \in w.caps : IsStart(c.tail, p)
    BY <2>1, <1>9
  <2>2. CASE IsStart(w.nodes, p)
    <3>1. IsPathFrom(p, eos) /\ Len(p) \in Nat
      BY <1>19 DEF IsGood, IsPathFrom, IsChain
    <3>2. Len(w.nodes) < Len(p) /\ IsLink(n, p[Len(w.nodes) + 1])
      BY <2>2, <3>1, <1>1, <1>2, PathBehindTail
    <3>3. PICK i \in D : p[Len(w.nodes) + 1] = nodes[i]
      BY <3>2 DEF IsLink
    <3>4. IsStart(on[i], p)
      BY <2>2, <3>1, <3>2, <3>3, <1>5, LongerFacts
    <3>5. CASE i = n.best
      BY <3>4, <3>5, <1>9
    <3>6. CASE i # n.best
      <4>1. MatchesTail(pattern, on[i]) /\ TailCost(on[i]) # MaxCost /\ WholeCost(on[i]) # MaxCost
        BY <1>19, <3>4, <1>5, <1>11, GoodTail
      <4>2. Cap(on[i], TailCost(on[i]), WholeCost(on[i])) \in new
        BY <4>1, <3>6, <1>10
      <4>3. Cap(on[i], TailCost(on[i]), WholeCost(on[i])).tail = on[i]
        BY DEF Cap
      <4> QED BY <4>2, <4>3, <3>4, <1>9 DEF new
    <3> QED BY <3>5, <3>6
  <2> QED BY <2>1, <2>2, <1>1, <1>19
<1>20. /\ IsChain(v.nodes) /\ v.nodes[1] = eos /\ IsStart(cap.tail, v.nodes)
       /\ v.cost = TailCost(v.nodes) /\ WholeCost(v.nodes) = cap.wholeCost
       /\ v.conforming <=> MatchesTail(pattern, v.nodes)
  BY <1>1, <1>4, <1>5, <1>6, <1>9, <1>11, <1>12
<1>21. Walking(cap, v)
  BY <1>17, <1>18, <1>19, <1>20 DEF Walking, MayGoOn
<1>22. Last(v.nodes) = nodes[n.best]
  <2>1. IsLonger(v.nodes, w.nodes, nodes[n.best])
    BY <1>4, <1>5, <1>9
  <2> QED BY <2>1 DEF IsLonger, Last
<1> QED BY <1>4, <1>5, <1>21, <1>22 DEF v

Turns(f, cap) == f = [n \in 0..Len(graph) |-> IF n = 0 THEN Opening(cap) ELSE Walked(f[n - 1])]

LEMMA TurnsExist == ASSUME NEW cap, Len(graph) \in Nat PROVE \E f : Turns(f, cap)
<1> DEFINE Upto(f, n) == f = [k \in 0..n |-> IF k = 0 THEN Opening(cap) ELSE Walked(f[k - 1])]
           T == {n \in Nat : \E f : Upto(f, n)}
<1>1. 0 \in T
  <2> DEFINE f == [k \in 0..0 |-> Opening(cap)]
  <2>1. \A k \in 0..0 : k = 0
    OBVIOUS
  <2>2. Upto(f, 0)
    BY <2>1
  <2> QED BY <2>2
<1>2. ASSUME NEW n \in Nat, n \in T PROVE n + 1 \in T
  <2>1. PICK g : Upto(g, n)
    BY <1>2
  <2> DEFINE f == [k \in 0..n + 1 |-> IF k = n + 1 THEN Walked(g[n]) ELSE g[k]]
  <2>2. \A k \in 0..n : f[k] = g[k] /\ k \in 0..n + 1 /\ k # n + 1
    OBVIOUS
  <2>3. f[n + 1] = Walked(g[n]) /\ n \in 0..n /\ (n + 1) - 1 = n /\ n + 1 # 0
    OBVIOUS
  <2>4. \A k \in 0..n : g[k] = IF k = 0 THEN Opening(cap) ELSE Walked(g[k - 1])
    BY <2>1
  <2> HIDE DEF f
  <2>5. \A k \in 0..n + 1 : f[k] = IF k = 0 THEN Opening(cap) ELSE Walked(f[k - 1])
    <3> TAKE k \in 0..n + 1
    <3>1. CASE k = n + 1
      BY <3>1, <2>2, <2>3
    <3>2. CASE k = 0
      BY <3>2, <2>2, <2>4
    <3>3. CASE k \in 1..n
      <4>1. k \in 0..n /\ k - 1 \in 0..n /\ k # 0
        BY <3>3
      <4> QED BY <4>1, <2>2, <2>4
    <3> QED BY <3>1, <3>2, <3>3
  <2>6. f = [k \in 0..n + 1 |-> f[k]]
    BY DEF f
  <2>7. Upto(f, n + 1)
    BY <2>5, <2>6
  <2> QED BY <2>7
<1>3. Nat \subseteq T
  <2> HIDE DEF T
  <2> QED BY <1>1, <1>2, SetInduction
<1>4. \E f : Upto(f, Len(graph))
  BY <1>3
<1> QED BY <1>4 DEF Turns

\* The tail of a cap is what its walk begins with.
LEMMA WalkBegins ==
    ASSUME GraphInv, NEW cap, IsCap(cap)
    PROVE  Walking(cap, Opening(cap)) /\ Last(Opening(cap).nodes).preceding <= Len(graph)
<1> DEFINE t == cap.tail
           w == Opening(cap)
<1>1. IsChain(t) /\ t[1] = eos /\ MayGoOn(t) /\ cap.tailCost = TailCost(t) /\ cap.wholeCost = WholeCost(t)
  BY DEF IsCap, Cap
<1>2. w.nodes = t /\ w.cost = cap.tailCost /\ w.caps = {} /\ w.conforming = TRUE
  BY DEF Opening
<1>3. Len(t) \in Nat \ {0}
  BY <1>1 DEF IsChain
<1>4. IsStart(t, t)
  BY <1>3, StartsFacts
<1>5. Last(t).preceding <= Len(graph)
  <2>1. Len(t) \in 1..Len(t) /\ Last(t) = t[Len(t)] /\ Len(graph) \in Nat
    BY <1>3, GraphFacts DEF Last
  <2>2. /\ t[Len(t)].preceding \in Nat /\ t[Len(t)].preceding + Len(t) <= t[1].preceding + 1
        /\ t[1].preceding <= Len(graph)
    BY <2>1, <1>1, ChainLength
  <2>3. t[1].preceding \in Nat
    <3>1. 1 \in 1..Len(t)
      BY <1>3
    <3> QED BY <3>1, <1>1, ChainLength
  <2> QED BY <2>1, <2>2, <2>3, <1>3
<1> HIDE DEF w
<1>6. Walking(cap, w)
  BY <1>1, <1>2, <1>4 DEF Walking, AreApart
<1> QED BY <1>2, <1>5, <1>6 DEF w

\* What open_cap() makes of the cap that it takes: a path, if the pattern allows the
\* best one, and caps for all others.
LEMMA OpenedFacts ==
    ASSUME GraphInv, NEW d, LinkCosts(d), IsLatticeNode(eos), eos # Bos, NEW cap, IsCap(cap)
    PROVE  LET o == Opened(cap)
           IN  /\ IsStart(cap.tail, o.nodes) /\ Len(o.nodes) \in Nat \ {0}
               /\ o.conforming => /\ IsPathFrom(o.nodes, eos) /\ MatchesTail(pattern, o.nodes)
                                  /\ PathCost(o.nodes) = cap.wholeCost
               /\ \A c \in o.caps : IsCap(c) /\ IsStart(cap.tail, c.tail) /\ IsApart(c.tail, o.nodes)
               /\ AreApart(o.caps)
               /\ \A p : IsGood(p) /\ IsStart(cap.tail, p) =>
                            (o.conforming /\ p = o.nodes) \/ \E c \in o.caps : IsStart(c.tail, p)
<1> DEFINE f == CHOOSE f : Turns(f, cap)
           l == Len(graph)
           o == Opened(cap)
           Back(w, k) == w.conforming => Last(w.nodes).preceding <= l - k
           T == {k \in Nat : k <= l => Walking(cap, f[k]) /\ Back(f[k], k)}
<1>1. l \in Nat
  BY GraphFacts
<1>2. Turns(f, cap)
  BY <1>1, TurnsExist
<1>3. o = f[l]
  BY DEF Opened, Turns
<1> HIDE DEF f, o
<1>4. /\ f[0] = Opening(cap)
      /\ \A k \in 1..l : f[k] = Walked(f[k - 1])
  <2>1. \A k \in 0..l : f[k] = IF k = 0 THEN Opening(cap) ELSE Walked(f[k - 1])
    BY <1>2 DEF Turns
  <2>2. 0 \in 0..l /\ \A k \in 1..l : k \in 0..l /\ k # 0
    BY <1>1
  <2> QED BY <2>1, <2>2
<1>5. Len(cap.tail) \in Nat
  BY DEF IsCap, IsChain
<1>6. \A w : Walking(cap, w) =>
         Last(w.nodes) = w.nodes[Len(w.nodes)] /\ IsLatticeNode(Last(w.nodes)) /\ IsChain(w.nodes)
  <2> TAKE w
  <2> HAVE Walking(cap, w)
  <2>1. IsChain(w.nodes)
    BY DEF Walking
  <2>2. Len(w.nodes) \in 1..Len(w.nodes)
    BY <2>1 DEF IsChain
  <2> QED BY <2>1, <2>2 DEF IsChain, Last
<1>7. 0 \in T
  <2>1. l - 0 = l
    BY <1>1
  <2> QED BY <2>1, <1>4, WalkBegins
<1>8. ASSUME NEW k \in Nat, k \in T PROVE k + 1 \in T
  <2> SUFFICES ASSUME k + 1 <= l PROVE Walking(cap, f[k + 1]) /\ Back(f[k + 1], k + 1)
    OBVIOUS
  <2> DEFINE w == f[k]
             n == Last(w.nodes)
  <2>1. Walking(cap, w) /\ Back(w, k) /\ f[k + 1] = Walked(w)
    <3>1. k <= l /\ k + 1 \in 1..l /\ (k + 1) - 1 = k
      BY <1>1
    <3> QED BY <3>1, <1>4, <1>8
  <2>2. IsLatticeNode(n)
    BY <2>1, <1>6
  <2>3. CASE ~w.conforming \/ n = Bos
    <3>1. Walked(w) = w
      BY <2>2, <2>3, BosIsBos DEF Walked
    <3>2. w.conforming => n.preceding = 0
      BY <2>3 DEF Bos, NoStep
    <3>3. 0 <= l - (k + 1)
      BY <1>1
    <3> QED BY <2>1, <3>1, <3>2, <3>3
  <2>4. CASE ~(~w.conforming \/ n = Bos)
    <3>1. Walking(cap, Walked(w)) /\ Last(Walked(w).nodes).preceding < n.preceding
      BY <2>1, <2>4, <1>5, WalkingOn
    <3>2. n.preceding \in Nat /\ n.preceding <= l - k
      BY <2>1, <2>2, <2>4, LatticeNodeFacts
    <3>3. Last(Walked(w).nodes).preceding \in Nat
      BY <3>1, <1>6, LatticeNodeFacts
    <3>4. Last(Walked(w).nodes).preceding <= l - (k + 1)
      BY <3>1, <3>2, <3>3, <1>1
    <3> QED BY <2>1, <3>1, <3>4
  <2> QED BY <2>3, <2>4
<1>9. Nat \subseteq T
  <2> HIDE DEF T
  <2> QED BY <1>7, <1>8, SetInduction
<1>10. Walking(cap, o) /\ Back(o, l)
  BY <1>1, <1>3, <1>9
<1> DEFINE n == Last(o.nodes)
<1>11. IsLatticeNode(n) /\ n = o.nodes[Len(o.nodes)] /\ IsChain(o.nodes)
  BY <1>6, <1>10
<1>12. Len(o.nodes) \in Nat \ {0}
  BY <1>11 DEF IsChain
<1>13. o.conforming => n = Bos
  <2>1. l - l = 0
    BY <1>1
  <2>2. n.preceding \in Nat /\ (n.preceding = NoStep <=> n = Bos)
    BY <1>11, LatticeNodeFacts
  <2>3. o.conforming => n.preceding <= 0
    BY <2>1, <1>10
  <2> QED BY <2>2, <2>3 DEF NoStep
<1>14. ASSUME o.conforming
       PROVE  IsPathFrom(o.nodes, eos) /\ MatchesTail(pattern, o.nodes) /\ PathCost(o.nodes) = cap.wholeCost
  <2>1. o.nodes[1] = eos /\ WholeCost(o.nodes) = cap.wholeCost /\ MayGoOn(o.nodes)
    BY <1>10, <1>14 DEF Walking
  <2>2. o.nodes[Len(o.nodes)] = Bos
    BY <1>11, <1>13, <1>14
  <2>3. IsPathFrom(o.nodes, eos) /\ PathCost(o.nodes) = cap.wholeCost
    BY <2>1, <2>2, <1>11, TailBound
  <2>4. o.nodes # <<eos>>
    BY <2>2
  <2> QED BY <2>1, <2>3, <2>4 DEF MayGoOn
<1>15. ASSUME NEW p, IsGood(p), IsStart(cap.tail, p)
       PROVE  (o.conforming /\ p = o.nodes) \/ \E c \in o.caps : IsStart(c.tail, p)
  <2>1. IsStart(o.nodes, p) \/ \E c \in o.caps : IsStart(c.tail, p)
    BY <1>10, <1>15 DEF Walking
  <2>2. CASE IsStart(o.nodes, p)
    <3>1. MatchesTail(pattern, o.nodes)
      <4>1. o.nodes[1] = eos
        BY <1>10 DEF Walking
      <4> QED BY <4>1, <2>2, <1>11, <1>15, GoodTail
    <3>2. o.conforming
      BY <3>1, <1>10 DEF Walking
    <3>3. IsPathFrom(p, eos) /\ o.nodes[Len(o.nodes)] = Bos
      BY <3>2, <1>11, <1>13, <1>15 DEF IsGood
    <3> QED BY <2>2, <3>2, <3>3, <1>11, PathBehindTail
  <2> QED BY <2>1, <2>2
<1>16. /\ IsStart(cap.tail, o.nodes) /\ AreApart(o.caps)
       /\ \A c \in o.caps : IsCap(c) /\ IsStart(cap.tail, c.tail) /\ IsApart(c.tail, o.nodes)
  BY <1>10 DEF Walking
<1> QED BY <1>12, <1>14, <1>15, <1>16 DEF o
-----------------------------------------------------------------------------
(* The search                                                              *)

Produced == [nodes : Seq(Node), cost : Int]

\* What is still to come is behind exactly one of the caps, and nothing else is.
Search(cs, pr) ==
    /\ \A c \in cs : IsCap(c)
    /\ AreApart(cs)
    /\ pr \in Seq(Produced)
    /\ \A i \in 1..Len(pr) :
          /\ IsPathFrom(pr[i].nodes, eos) /\ MatchesTail(pattern, pr[i].nodes)
          /\ pr[i].cost = PathCost(pr[i].nodes)
          /\ \A c \in cs : ~IsStart(c.tail, pr[i].nodes) /\ pr[i].cost <= c.wholeCost
    /\ \A i, j \in 1..Len(pr) : i < j => pr[i].cost <= pr[j].cost /\ pr[i].nodes # pr[j].nodes
    /\ \A p : IsGood(p) => (\E i \in 1..Len(pr) : pr[i].nodes = p) \/ \E c \in cs : IsStart(c.tail, p)

LEMMA CostsGrow ==
    ASSUME GraphInv, NEW d, LinkCosts(d), NEW c, IsCap(c), NEW e, IsCap(e), IsStart(c.tail, e.tail)
    PROVE  c.wholeCost <= e.wholeCost
<1>1. /\ IsChain(c.tail) /\ IsChain(e.tail) /\ c.tail[1] = eos /\ e.tail[1] = eos
      /\ c.wholeCost = WholeCost(c.tail) /\ e.wholeCost = WholeCost(e.tail)
  BY DEF IsCap, Cap
<1>2. PICK p : IsPathFrom(p, eos) /\ IsStart(e.tail, p) /\ WholeCost(e.tail) = PathCost(p)
  BY <1>1, WholeCostFacts
<1>3. IsStart(c.tail, p)
  <2>1. Len(c.tail) \in Nat /\ Len(e.tail) \in Nat /\ Len(p) \in Nat
    BY <1>1, <1>2 DEF IsPathFrom, IsChain
  <2> QED BY <2>1, <1>2, StartsFacts
<1>4. WholeCost(c.tail) <= PathCost(p)
  BY <1>1, <1>2, <1>3, WholeCostFacts
<1> QED BY <1>1, <1>2, <1>4

LEMMA CapFacts ==
    ASSUME GraphInv, NEW d, LinkCosts(d), NEW c, IsCap(c)
    PROVE  /\ IsChain(c.tail) /\ Len(c.tail) \in Nat /\ c.tail[1] = eos
           /\ c.wholeCost \in Int /\ c.wholeCost = WholeCost(c.tail)
<1>1. IsChain(c.tail) /\ c.wholeCost = WholeCost(c.tail) /\ c.tail[1] = eos
  BY DEF IsCap, Cap
<1> QED BY <1>1, WholeCostFacts DEF IsChain

\* The caps and the paths when a cap has been opened.
LEMMA OpenKeeps ==
    ASSUME GraphInv, NEW d, LinkCosts(d), IsLatticeNode(eos), eos # Bos, NEW cs, NEW pr, Search(cs, pr),
           NEW cap \in cs, \A c \in cs : cap.wholeCost <= c.wholeCost
    PROVE  LET o == Opened(cap)
               new == (cs \ {cap}) \cup o.caps
           IN  IF o.conforming THEN Search(new, Append(pr, [nodes |-> o.nodes, cost |-> cap.wholeCost]))
               ELSE Search(new, pr)
<1> DEFINE o == Opened(cap)
           new == (cs \ {cap}) \cup o.caps
           l == Len(pr)
<1>1. /\ \A c \in cs : IsCap(c)
      /\ AreApart(cs) /\ pr \in Seq(Produced)
      /\ \A i \in 1..l :
          /\ IsPathFrom(pr[i].nodes, eos) /\ MatchesTail(pattern, pr[i].nodes)
          /\ pr[i].cost = PathCost(pr[i].nodes)
          /\ \A c \in cs : ~IsStart(c.tail, pr[i].nodes) /\ pr[i].cost <= c.wholeCost
      /\ \A i, j \in 1..l : i < j => pr[i].cost <= pr[j].cost /\ pr[i].nodes # pr[j].nodes
      /\ \A p : IsGood(p) => (\E i \in 1..l : pr[i].nodes = p) \/ \E c \in cs : IsStart(c.tail, p)
  BY DEF Search
<1>2. l \in Nat /\ \A i \in 1..l : pr[i].nodes \in Seq(Node) /\ Len(pr[i].nodes) \in Nat /\ pr[i].cost \in Int
  <2>1. l \in Nat /\ \A i \in 1..l : pr[i] \in Produced
    BY <1>1, LenProperties, ElementOfSeq
  <2> QED BY <2>1, LenProperties DEF Produced
<1>3. /\ IsStart(cap.tail, o.nodes) /\ Len(o.nodes) \in Nat \ {0}
      /\ o.conforming => /\ IsPathFrom(o.nodes, eos) /\ MatchesTail(pattern, o.nodes)
                         /\ PathCost(o.nodes) = cap.wholeCost
      /\ \A c \in o.caps : IsCap(c) /\ IsStart(cap.tail, c.tail) /\ IsApart(c.tail, o.nodes)
      /\ AreApart(o.caps)
      /\ \A p : IsGood(p) /\ IsStart(cap.tail, p) =>
                   (o.conforming /\ p = o.nodes) \/ \E c \in o.caps : IsStart(c.tail, p)
  BY <1>1, OpenedFacts
<1> HIDE DEF o, l
<1>4. \A c \in cs \cup o.caps : IsCap(c) /\ Len(c.tail) \in Nat /\ c.wholeCost \in Int
  <2> TAKE c \in cs \cup o.caps
  <2>1. IsCap(c)
    BY <1>1, <1>3
  <2> QED BY <2>1, CapFacts
<1>5. \A c \in cs \ {cap} : ~IsStart(c.tail, cap.tail) /\ ~IsStart(cap.tail, c.tail)
  BY <1>1 DEF AreApart
<1>6. AreApart(new)
  <2> SUFFICES ASSUME NEW c \in new, NEW e \in new, c # e PROVE ~IsStart(c.tail, e.tail)
    BY DEF AreApart
  <2>0. Len(c.tail) \in Nat /\ Len(e.tail) \in Nat /\ Len(cap.tail) \in Nat
    BY <1>4
  <2>1. CASE c \in cs \ {cap} /\ e \in cs \ {cap}
    BY <2>1, <1>1 DEF AreApart
  <2>2. CASE c \in o.caps /\ e \in o.caps
    BY <2>2, <1>3 DEF AreApart
  <2>3. CASE c \in cs \ {cap} /\ e \in o.caps
    <3>1. IsStart(cap.tail, e.tail)
      BY <2>3, <1>3
    <3> QED BY <2>0, <2>3, <3>1, <1>5, StartsFacts
  <2>4. CASE c \in o.caps /\ e \in cs \ {cap}
    <3>1. IsStart(cap.tail, c.tail)
      BY <2>4, <1>3
    <3> QED BY <2>0, <2>4, <3>1, <1>5, StartsFacts
  <2> QED BY <2>1, <2>2, <2>3, <2>4
<1>7. \A c \in new : cap.wholeCost <= c.wholeCost
  <2> TAKE c \in new
  <2>1. CASE c \in cs
    BY <2>1
  <2>2. CASE c \in o.caps
    BY <2>2, <1>3, <1>4, CostsGrow
  <2> QED BY <2>1, <2>2
<1>8. \A i \in 1..l : \A c \in new : ~IsStart(c.tail, pr[i].nodes) /\ pr[i].cost <= c.wholeCost
  <2> TAKE i \in 1..l
  <2> TAKE c \in new
  <2>1. pr[i].cost <= cap.wholeCost /\ cap.wholeCost <= c.wholeCost
    BY <1>1, <1>7
  <2>2. pr[i].cost \in Int /\ cap.wholeCost \in Int /\ c.wholeCost \in Int
    BY <1>2, <1>4
  <2>3. ~IsStart(c.tail, pr[i].nodes)
    <3>1. CASE c \in cs
      BY <3>1, <1>1
    <3>2. CASE c \in o.caps
      <4>1. IsStart(cap.tail, c.tail) /\ ~IsStart(cap.tail, pr[i].nodes)
        BY <3>2, <1>1, <1>3
      <4>2. Len(c.tail) \in Nat /\ Len(cap.tail) \in Nat /\ Len(pr[i].nodes) \in Nat
        BY <1>2, <1>4
      <4> QED BY <4>1, <4>2, StartsFacts
    <3> QED BY <3>1, <3>2
  <2> QED BY <2>1, <2>2, <2>3
<1>9. ASSUME NEW p, IsGood(p)
      PROVE  \/ \E i \in 1..l : pr[i].nodes = p
             \/ o.conforming /\ p = o.nodes
             \/ \E c \in new : IsStart(c.tail, p)
  <2>1. (\E i \in 1..l : pr[i].nodes = p) \/ \E c \in cs : IsStart(c.tail, p)
    BY <1>1, <1>9
  <2>2. ASSUME IsStart(cap.tail, p)
        PROVE  (o.conforming /\ p = o.nodes) \/ \E c \in o.caps : IsStart(c.tail, p)
    BY <2>2, <1>3, <1>9
  <2> QED BY <2>1, <2>2
<1>10. CASE ~o.conforming
  <2>1. Search(new, pr)
    <3> HIDE DEF new
    <3>1. \A c \in new : IsCap(c)
      BY <1>4 DEF new
    <3>2. \A p : IsGood(p) => (\E i \in 1..l : pr[i].nodes = p) \/ \E c \in new : IsStart(c.tail, p)
      BY <1>9, <1>10
    <3> QED BY <1>1, <1>6, <1>8, <3>1, <3>2 DEF Search, l
  <2> QED BY <2>1, <1>10 DEF o
<1>11. CASE o.conforming
  <2> DEFINE x == [nodes |-> o.nodes, cost |-> cap.wholeCost]
             qr == Append(pr, x)
  <2>0. /\ IsPathFrom(o.nodes, eos) /\ MatchesTail(pattern, o.nodes) /\ PathCost(o.nodes) = cap.wholeCost
        /\ x.nodes = o.nodes /\ x.cost = cap.wholeCost
    BY <1>3, <1>11
  <2>1. x \in Produced
    <3>1. o.nodes \in Seq(Node)
      BY <2>0 DEF IsPathFrom, IsChain
    <3>2. cap.wholeCost \in Int
      BY <1>4
    <3> QED BY <3>1, <3>2 DEF Produced
  <2> HIDE DEF x
  <2>2. qr \in Seq(Produced) /\ Len(qr) = l + 1 /\ (\A i \in 1..l : qr[i] = pr[i]) /\ qr[l + 1] = x
    BY <2>1, <1>1, AppendProperties DEF l
  <2> HIDE DEF qr
  <2>3. \A i \in 1..l + 1 : i \in 1..l \/ i = l + 1
    BY <1>2
  <2>4. \A c \in new : ~IsStart(c.tail, o.nodes)
    <3> TAKE c \in new
    <3>1. CASE c \in o.caps
      BY <3>1, <1>3 DEF IsApart
    <3>2. CASE c \in cs \ {cap}
      <4>1. Len(c.tail) \in Nat /\ Len(cap.tail) \in Nat /\ Len(o.nodes) \in Nat
        BY <1>3, <1>4
      <4> QED BY <4>1, <3>2, <1>3, <1>5, StartsFacts
    <3> QED BY <3>1, <3>2
  <2>5. \A i \in 1..l : pr[i].cost <= x.cost /\ pr[i].nodes # x.nodes
    BY <1>1, <1>3, <2>0
  <2>6. \A i \in 1..l + 1 :
          /\ IsPathFrom(qr[i].nodes, eos) /\ MatchesTail(pattern, qr[i].nodes)
          /\ qr[i].cost = PathCost(qr[i].nodes)
          /\ \A c \in new : ~IsStart(c.tail, qr[i].nodes) /\ qr[i].cost <= c.wholeCost
    <3> HIDE DEF new
    <3> TAKE i \in 1..l + 1
    <3>1. CASE i \in 1..l
      BY <3>1, <1>1, <1>8, <2>2
    <3>2. CASE i = l + 1
      BY <3>2, <1>7, <2>0, <2>2, <2>4
    <3> QED BY <3>1, <3>2, <2>3
  <2>7. \A i, j \in 1..l + 1 : i < j => qr[i].cost <= qr[j].cost /\ qr[i].nodes # qr[j].nodes
    <3> TAKE i, j \in 1..l + 1
    <3> HAVE i < j
    <3>1. i \in 1..l
      BY <1>2
    <3>2. CASE j \in 1..l
      BY <3>1, <3>2, <1>1, <2>2
    <3>3. CASE j = l + 1
      BY <3>1, <3>3, <2>2, <2>5
    <3> QED BY <3>2, <3>3, <2>3
  <2>8. \A p : IsGood(p) => (\E i \in 1..l + 1 : qr[i].nodes = p) \/ \E c \in new : IsStart(c.tail, p)
    <3> HIDE DEF new
    <3>1. (\A i \in 1..l : i \in 1..l + 1) /\ l + 1 \in 1..l + 1
      BY <1>2
    <3> QED BY <3>1, <1>9, <2>0, <2>2
  <2>9. \A c \in new : IsCap(c)
    BY <1>4
  <2>10. Search(new, qr)
    <3> HIDE DEF new
    <3> QED BY <1>6, <2>2, <2>6, <2>7, <2>8, <2>9 DEF Search
  <2> QED BY <2>10, <1>11 DEF o, qr, x
<1> QED BY <1>10, <1>11

\* The iterator walks over a lattice that stays the same.
LEMMA TailsOfSame ==
    ASSUME UNCHANGED <<connection, graph, eos>>
    PROVE  /\ \A t : IsChain(t)' <=> IsChain(t)
           /\ \A t : TailCost(t)' = TailCost(t) /\ WholeCost(t)' = WholeCost(t) /\ PathCost(t)' = PathCost(t)
           /\ \A t : IsPathFrom(t, eos)' <=> IsPathFrom(t, eos)
<1>1. connection' = connection /\ graph' = graph /\ eos' = eos
  OBVIOUS
<1>2. \A t : IsChain(t)' <=> IsChain(t)
  BY <1>1 DEF IsChain, IsLink, IsLatticeNode, IsNodeAfter
<1>3. \A t : CostTo(t)' = CostTo(t)
  BY <1>1 DEF CostTo, Edge, Connection
<1>4. \A t : TailCost(t)' = TailCost(t) /\ WholeCost(t)' = WholeCost(t) /\ PathCost(t)' = PathCost(t)
  BY <1>3 DEF TailCost, WholeCost, PathCost
<1>5. \A t : IsPathFrom(t, eos)' <=> IsPathFrom(t, eos)
  BY <1>1, <1>2 DEF IsPathFrom
<1> QED BY <1>2, <1>4, <1>5

LEMMA SearchOfSame ==
    ASSUME UNCHANGED <<connection, graph, eos, pattern>>, Search(caps', produced')
    PROVE  Search(caps, produced)'
<1>1. connection' = connection /\ graph' = graph /\ eos' = eos /\ pattern' = pattern
  OBVIOUS
<1>2. /\ \A t : IsChain(t)' <=> IsChain(t)
      /\ \A t : TailCost(t)' = TailCost(t) /\ WholeCost(t)' = WholeCost(t) /\ PathCost(t)' = PathCost(t)
      /\ \A t : IsPathFrom(t, eos)' <=> IsPathFrom(t, eos)
  BY <1>1, TailsOfSame
<1>3. \A t : MayGoOn(t)' <=> MayGoOn(t)
  BY <1>1 DEF MayGoOn
<1>4. \A c : IsCap(c)' <=> IsCap(c)
  BY <1>1, <1>2, <1>3 DEF IsCap
<1>5. \A t : IsGood(t)' <=> IsGood(t)
  BY <1>1, <1>2 DEF IsGood
<1> QED BY <1>1, <1>2, <1>4, <1>5 DEF Search

\* The tail of the EOS node alone is the beginning of every path.
LEMMA CreateBegins ==
    ASSUME LatticeInv, CostsFit, eos # NoNode, NoIterator, NEW P, Create(P)
    PROVE  Search(caps, produced)'
<1>0. PICK one : one = <<eos>>
  OBVIOUS
<1>01. PICK c : c = Cap(one, eos.entry.cost, eos.cost)
  OBVIOUS
<1>1. PICK d : LinkCosts(d)
  BY LinksFit
<1>2. GraphInv /\ IsLatticeNode(eos) /\ eos.entry = BosEos /\ eos \in Node
  BY WholePathsArePaths, LatticeNodeFacts DEF LatticeInv, EosInv
<1>3. IsChain(one) /\ one[1] = eos /\ Len(one) = 1
  BY <1>0, <1>2, OneNodeChain
<1>4. TailCost(one) = eos.entry.cost /\ WholeCost(one) = eos.cost
  <2>1. CostTo(one)[0] = 0
    <3>1. Len(one) \in Nat \ {0}
      BY <1>3
    <3> QED BY <3>1, CostToFacts
  <2>2. Len(one) - 1 = 0
    BY <1>3
  <2>3. one[Len(one)] = eos
    BY <1>3
  <2>4. \A x \in Int : AddCost(0, x) = x
    <3> TAKE x \in Int
    <3>1. 0 # MaxCost
      <4>1. d \in Nat /\ MaxSteps * d < MaxCost /\ MaxSteps * d \in Nat
        BY <1>1, StepsAssumption, Multiples DEF LinkCosts
      <4> QED BY <4>1, MaxCostAssumption
    <3> QED BY <3>1 DEF AddCost
  <2>5. eos.entry.cost = 0 /\ eos.cost \in Int
    BY <1>2 DEF BosEos, Node
  <2>6. CostTo(one)[Len(one) - 1] = 0
    BY <2>1, <2>2
  <2>7. TailCost(one) = AddCost(0, eos.entry.cost) /\ WholeCost(one) = AddCost(0, eos.cost)
    BY <2>3, <2>6 DEF TailCost, WholeCost
  <2>8. AddCost(0, eos.entry.cost) = eos.entry.cost /\ AddCost(0, eos.cost) = eos.cost
    BY <2>4, <2>5
  <2> QED BY <2>7, <2>8
<1>5. \A p : IsPathFrom(p, eos) => IsStart(one, p)
  BY <1>3 DEF IsPathFrom, IsChain, IsStart
<1>6. c.tail = one /\ c = Cap(one, TailCost(one), WholeCost(one))
  BY <1>01, <1>4 DEF Cap
<1>7. caps' = {c} /\ produced' = <<>> /\ UNCHANGED <<connection, graph, eos>> /\ eos' = eos
  BY <1>0, <1>01 DEF Create, NoIterator, latticeVars
<1>8. /\ \A t : IsChain(t)' <=> IsChain(t)
      /\ \A t : TailCost(t)' = TailCost(t) /\ WholeCost(t)' = WholeCost(t) /\ PathCost(t)' = PathCost(t)
      /\ \A t : IsPathFrom(t, eos)' <=> IsPathFrom(t, eos)
  BY <1>7, TailsOfSame
<1>9. MayGoOn(one)'
  BY <1>0, <1>7 DEF MayGoOn
<1>10. IsCap(c)'
  BY <1>3, <1>6, <1>7, <1>8, <1>9 DEF IsCap
<1>11. \A p : IsGood(p)' => IsStart(c.tail, p)
  BY <1>5, <1>6, <1>8 DEF IsGood
<1>12. <<>> \in Seq(Produced) /\ Len(<<>>) = 0 /\ \A i : i \notin 1..0
  OBVIOUS
<1> QED BY <1>7, <1>10, <1>11, <1>12 DEF Search, AreApart, Produced

SearchInv ==
    /\ state \in {"none", "opening", "ready"}
    /\ state = "none" => NoIterator
    /\ state # "none" => eos # NoNode /\ IsPattern(pattern) /\ Search(caps, produced)
    /\ state = "ready" /\ path = NoPath => caps = {}

\* Every step keeps the invariant of the search.
LEMMA NextKeepsSearch ==
    ASSUME LatticeInv, CostsFit, SearchInv, [Next]_vars
    PROVE  SearchInv'
<1>1. PICK d : LinkCosts(d)
  BY LinksFit
<1>2. GraphInv
  BY DEF LatticeInv
<1>3. ASSUME eos # NoNode PROVE IsLatticeNode(eos) /\ eos # Bos
  BY <1>3, WholePathsArePaths
<1>4. ASSUME UNCHANGED <<latticeVars, pattern>>
      PROVE  UNCHANGED <<connection, graph, eos, pattern>>
  BY <1>4 DEF latticeVars
<1>5. CASE UNCHANGED vars
  <2>1. UNCHANGED <<latticeVars, pattern>> /\ caps' = caps /\ produced' = produced /\ state' = state /\ path' = path
    BY <1>5 DEF vars, latticeVars
  <2>2. eos' = eos /\ pattern' = pattern
    BY <2>1 DEF latticeVars
  <2>3. state # "none" => Search(caps, produced)'
    BY <2>1, <1>4, SearchOfSame DEF SearchInv
  <2> QED BY <2>1, <2>2, <2>3 DEF SearchInv, NoIterator
<1>6. CASE state = "none" /\ UNCHANGED searchVars
  <2>1. state' = "none" /\ NoIterator'
    BY <1>6 DEF SearchInv, NoIterator, searchVars
  <2> QED BY <2>1 DEF SearchInv
<1>7. ASSUME NEW P \in Patterns, Create(P) PROVE SearchInv'
  <2>1. eos # NoNode /\ state = "none" /\ state' = "opening" /\ pattern' = P /\ eos' = eos
    BY <1>7 DEF Create, latticeVars
  <2>2. NoIterator
    BY <2>1 DEF SearchInv
  <2>3. IsPattern(P)
    BY <2>1, PatternsArePatterns
  <2>4. Search(caps, produced)'
    BY <1>7, <2>1, <2>2, CreateBegins
  <2>5. IsPattern(pattern)'
    BY <2>1, <2>3
  <2> QED BY <2>1, <2>4, <2>5 DEF SearchInv
<1>8. CASE OpenCap
  <2>1. state = "opening" /\ UNCHANGED <<latticeVars, pattern>>
    BY <1>8 DEF OpenCap
  <2>2. eos # NoNode /\ IsPattern(pattern) /\ Search(caps, produced)
    BY <2>1 DEF SearchInv
  <2>3. PICK cap \in caps :
           LET opened == Opened(cap)
           IN  /\ \A c \in caps : cap.wholeCost <= c.wholeCost
               /\ caps' = (caps \ {cap}) \cup opened.caps
               /\ IF opened.conforming
                    THEN /\ state' = "ready"
                         /\ path' = [nodes |-> opened.nodes, cost |-> cap.wholeCost]
                         /\ produced' = Append(produced, path')
                    ELSE UNCHANGED <<state, path, produced>>
    BY <1>8 DEF OpenCap
  <2>4. IF Opened(cap).conforming
          THEN Search((caps \ {cap}) \cup Opened(cap).caps,
                      Append(produced, [nodes |-> Opened(cap).nodes, cost |-> cap.wholeCost]))
          ELSE Search((caps \ {cap}) \cup Opened(cap).caps, produced)
    BY <1>1, <1>2, <1>3, <2>2, <2>3, OpenKeeps
  <2>5. Search(caps', produced')
    BY <2>3, <2>4
  <2>6. Search(caps, produced)'
    BY <2>1, <2>5, <1>4, SearchOfSame
  <2>7. eos' = eos /\ pattern' = pattern
    BY <2>1 DEF latticeVars
  <2>8. IsPattern(pattern)' /\ (eos # NoNode)'
    BY <2>2, <2>7
  <2>9. state' = "opening" \/ (state' = "ready" /\ path' # NoPath)
    <3>1. CASE ~Opened(cap).conforming
      BY <3>1, <2>1, <2>3
    <3>2. CASE Opened(cap).conforming
      <4>1. state' = "ready" /\ path'.nodes = Opened(cap).nodes
        BY <3>2, <2>3
      <4>2. Len(Opened(cap).nodes) # 0
        <5>1. IsCap(cap)
          BY <2>2, <2>3 DEF Search
        <5> QED BY <5>1, <1>1, <1>2, <1>3, <2>2, OpenedFacts
      <4>3. NoPath.nodes = <<>>
        BY DEF NoPath
      <4>4. path' # NoPath
        BY <4>1, <4>2, <4>3
      <4> QED BY <4>1, <4>4
    <3> QED BY <3>1, <3>2
  <2> QED BY <2>6, <2>8, <2>9 DEF SearchInv
<1>9. CASE NoMoreCaps
  <2>1. /\ state = "opening" /\ state' = "ready" /\ caps = {} /\ caps' = caps /\ produced' = produced
        /\ UNCHANGED <<latticeVars, pattern>>
    BY <1>9 DEF NoMoreCaps, latticeVars
  <2>2. Search(caps, produced)'
    BY <2>1, <1>4, SearchOfSame DEF SearchInv
  <2>3. eos' = eos /\ pattern' = pattern
    BY <2>1 DEF latticeVars
  <2> QED BY <2>1, <2>2, <2>3 DEF SearchInv
<1>10. CASE Increment
  <2>1. /\ state = "ready" /\ caps' = caps /\ produced' = produced /\ UNCHANGED <<latticeVars, pattern>>
        /\ (caps = {} /\ state' = "ready") \/ state' = "opening"
    BY <1>10 DEF Increment, latticeVars
  <2>2. Search(caps, produced)'
    BY <2>1, <1>4, SearchOfSame DEF SearchInv
  <2>3. eos' = eos /\ pattern' = pattern
    BY <2>1 DEF latticeVars
  <2> QED BY <2>1, <2>2, <2>3 DEF SearchInv
<1>11. CASE Destroy
  <2>1. state' = "none" /\ NoIterator'
    BY <1>11 DEF Destroy, NoIterator
  <2> QED BY <2>1 DEF SearchInv
<1> QED BY <1>5, <1>6, <1>7, <1>8, <1>9, <1>10, <1>11 DEF Next
-----------------------------------------------------------------------------
(* The properties                                                          *)

LEMMA PrefixIsStart ==
    ASSUME NEW S, NEW s \in Seq(S), NEW t \in Seq(S)
    PROVE  IsPrefix(s, t) <=> IsStart(s, t)
<1> DEFINE l == Len(s)
           x == SubSeq(s, 0 + 1, l)
           y == SubSeq(t, 0 + 1, l)
<1>1. l \in Nat /\ Len(t) \in Nat /\ 0 \in Nat /\ 0 <= l /\ l <= Len(s) /\ 0 + 1 = 1
  BY LenProperties
<1>2. IsPrefix(s, t) <=> l <= Len(t) /\ x = y
  BY <1>1 DEF IsPrefix
<1> SUFFICES ASSUME l <= Len(t) PROVE x = y <=> \A i \in 1..l : s[i] = t[i]
  BY <1>2 DEF IsStart
<1>3. x \in Seq(S) /\ IsPart(x, s, 0, l) /\ y \in Seq(S) /\ IsPart(y, t, 0, l)
  BY <1>1, PartProperties
<1> HIDE DEF x, y, l
<1>4. Len(x) = l /\ Len(y) = l /\ \A i \in 1..l : x[i] = s[i] /\ y[i] = t[i]
  <2>1. l - 0 = l /\ \A i \in 1..l : 0 + i = i
    BY <1>1
  <2> QED BY <2>1, <1>3 DEF IsPart
<1>5. ASSUME x = y PROVE \A i \in 1..l : s[i] = t[i]
  BY <1>4, <1>5
<1>6. ASSUME \A i \in 1..l : s[i] = t[i] PROVE x = y
  BY <1>3, <1>4, <1>6, SeqEqual
<1> QED BY <1>5, <1>6 DEF l

\* The iterator has begun.
LEMMA SearchFacts ==
    ASSUME LatticeInv, SearchInv, state # "none"
    PROVE  /\ eos # NoNode /\ GraphInv /\ IsPattern(pattern) /\ Search(caps, produced)
           /\ \A p : p \in WholePaths <=> IsPathFrom(p, eos)
           /\ \A p : p \in Expected <=> IsGood(p)
           /\ \A p : IsPathFrom(p, eos) => p \in Seq(Node) /\ Len(p) \in Nat /\ (MatchesTail(pattern, p) => Allowed(p))
           /\ DOMAIN produced = 1..Len(produced) /\ Len(produced) \in Nat
<1>1. eos # NoNode /\ GraphInv /\ IsPattern(pattern) /\ Search(caps, produced)
  BY DEF SearchInv, LatticeInv
<1>2. \A p : p \in WholePaths <=> IsPathFrom(p, eos)
  BY <1>1, WholePathsArePaths
<1>3. DOMAIN produced = 1..Len(produced) /\ Len(produced) \in Nat
  <2>1. produced \in Seq(Produced)
    BY <1>1 DEF Search
  <2> QED BY <2>1, LenProperties
<1>4. ASSUME NEW p, IsPathFrom(p, eos)
      PROVE  p \in Seq(Node) /\ Len(p) \in Nat /\ (Allowed(p) <=> MatchesTail(pattern, p))
  <2>1. p \in Seq(Node) /\ Len(p) \in Nat
    BY <1>4 DEF IsPathFrom, IsChain
  <2>2. pattern \in Seq(Element)
    BY <1>1 DEF IsPattern
  <2>3. Allowed(p) <=> IsAllowed(pattern, p)
    BY <2>1, <2>2, AllowedMeans
  <2>4. IsAllowed(pattern, p) => MatchesTail(pattern, p)
    <3>1. IsStart(p, p)
      BY <2>1, StartsFacts
    <3> QED BY <3>1, <2>1, <1>1, <1>4, AllowedMatches
  <2>5. MatchesTail(pattern, p) => IsAllowed(pattern, p)
    BY <1>1, <1>4, MatchesAllowed
  <2> QED BY <2>1, <2>3, <2>4, <2>5
<1>5. \A p : p \in Expected <=> IsGood(p)
  BY <1>2, <1>4 DEF Expected, IsGood
<1> QED BY <1>1, <1>2, <1>3, <1>4, <1>5

LEMMA InOrder ==
    ASSUME LatticeInv, SearchInv
    PROVE  PathsComeInOrder
<1>1. CASE state = "none"
  <2>1. produced = <<>> /\ DOMAIN <<>> = {}
    BY <1>1 DEF SearchInv, NoIterator
  <2> QED BY <2>1 DEF PathsComeInOrder
<1>2. CASE state # "none"
  <2>1. /\ eos # NoNode /\ DOMAIN produced = 1..Len(produced)
        /\ \A p : p \in WholePaths <=> IsPathFrom(p, eos)
        /\ \A p : IsPathFrom(p, eos) => (MatchesTail(pattern, p) => Allowed(p))
    BY <1>2, SearchFacts
  <2>2. /\ \A i \in 1..Len(produced) :
             /\ IsPathFrom(produced[i].nodes, eos) /\ MatchesTail(pattern, produced[i].nodes)
             /\ produced[i].cost = PathCost(produced[i].nodes)
        /\ \A i, j \in 1..Len(produced) :
             i < j => produced[i].cost <= produced[j].cost /\ produced[i].nodes # produced[j].nodes
    <3>1. Search(caps, produced)
      BY <1>2, SearchFacts
    <3> QED BY <3>1 DEF Search
  <2>3. \A i \in DOMAIN produced : Spelling(produced[i].nodes) = SubSeq(input, 1, Last(graph).tail)
    BY <2>1, <2>2, WholePathsSpell
  <2> QED BY <2>1, <2>2, <2>3 DEF PathsComeInOrder
<1> QED BY <1>1, <1>2

LEMMA NothingSkipped ==
    ASSUME LatticeInv, SearchInv, CostsFit
    PROVE  NothingIsSkipped
<1>1. PICK d : LinkCosts(d)
  BY LinksFit
<1> SUFFICES ASSUME NEW p \in Expected \ ProducedNodes
             PROVE  /\ \A i \in DOMAIN produced : produced[i].cost <= PathCost(p)
                    /\ ~(state = "ready" /\ path = NoPath)
  BY DEF NothingIsSkipped
<1>2. CASE state = "none"
  <2>1. produced = <<>> /\ DOMAIN <<>> = {}
    BY <1>2 DEF SearchInv, NoIterator
  <2> QED BY <2>1, <1>2
<1>3. CASE state # "none"
  <2>1. GraphInv /\ IsGood(p) /\ IsPathFrom(p, eos) /\ DOMAIN produced = 1..Len(produced)
    BY <1>3, SearchFacts DEF IsGood
  <2>2. Search(caps, produced)
    BY <1>3, SearchFacts
  <2>3. \A i \in 1..Len(produced) : produced[i].nodes # p
    BY <2>1 DEF ProducedNodes
  <2>4. PICK c \in caps : IsStart(c.tail, p)
    BY <2>1, <2>2, <2>3 DEF Search
  <2>5. IsCap(c) /\ \A i \in 1..Len(produced) : produced[i].cost <= c.wholeCost
    BY <2>2 DEF Search
  <2>6. IsChain(c.tail) /\ c.wholeCost \in Int /\ c.tail[1] = eos /\ c.wholeCost = WholeCost(c.tail)
    BY <1>1, <2>1, <2>5, CapFacts
  <2>7. c.wholeCost <= PathCost(p)
    BY <1>1, <2>1, <2>4, <2>6, WholeCostFacts
  <2>8. PathCost(p) \in Int
    BY <1>1, <2>1, PathCostIsInt DEF IsPathFrom
  <2>9. \A i \in 1..Len(produced) : produced[i].cost \in Int
    <3>1. produced \in Seq(Produced)
      BY <2>2 DEF Search
    <3>2. \A i \in 1..Len(produced) : produced[i] \in Produced
      BY <3>1, ElementOfSeq
    <3> QED BY <3>2 DEF Produced
  <2>10. \A i \in DOMAIN produced : produced[i].cost <= PathCost(p)
    BY <2>1, <2>5, <2>6, <2>7, <2>8, <2>9
  <2>11. ~(state = "ready" /\ path = NoPath)
    BY <2>4 DEF SearchInv
  <2> QED BY <2>10, <2>11
<1> QED BY <1>2, <1>3

LEMMA Partition ==
    ASSUME LatticeInv, SearchInv, CostsFit
    PROVE  CapsPartitionTheRest
<1>1. PICK d : LinkCosts(d)
  BY LinksFit
<1>2. CASE state = "none"
  <2>1. caps = {}
    BY <1>2 DEF SearchInv, NoIterator
  <2> QED BY <2>1, <1>2 DEF CapsPartitionTheRest
<1>3. CASE state # "none"
  <2>1. /\ GraphInv /\ Search(caps, produced) /\ DOMAIN produced = 1..Len(produced)
        /\ \A p : p \in WholePaths <=> IsPathFrom(p, eos)
        /\ \A p : p \in Expected <=> IsGood(p)
    BY <1>3, SearchFacts
  <2>2. \A c \in caps : IsCap(c) /\ IsChain(c.tail) /\ c.tail \in Seq(Node) /\ Len(c.tail) \in Nat
                        /\ c.tail[1] = eos /\ c.wholeCost = WholeCost(c.tail)
    <3> TAKE c \in caps
    <3>1. IsCap(c)
      BY <2>1 DEF Search
    <3> QED BY <3>1, <1>1, <2>1, CapFacts DEF IsChain
  <2>3. \A c \in caps : \A p : IsPathFrom(p, eos) => (IsPrefix(c.tail, p) <=> IsStart(c.tail, p))
    <3> TAKE c \in caps
    <3> TAKE p
    <3> HAVE IsPathFrom(p, eos)
    <3>1. p \in Seq(Node) /\ c.tail \in Seq(Node)
      BY <2>2 DEF IsPathFrom, IsChain
    <3> QED BY <3>1, PrefixIsStart
  <2>4. ASSUME NEW p \in Expected
        PROVE  Cardinality({cap \in caps : IsPrefix(cap.tail, p)}) = IF p \in ProducedNodes THEN 0 ELSE 1
    <3>1. IsGood(p) /\ IsPathFrom(p, eos) /\ Len(p) \in Nat
      BY <2>1 DEF IsGood, IsPathFrom, IsChain
    <3> DEFINE C == {cap \in caps : IsPrefix(cap.tail, p)}
    <3>2. \A c : c \in C <=> c \in caps /\ IsStart(c.tail, p)
      BY <2>3, <3>1
    <3> HIDE DEF C
    <3>3. CASE p \in ProducedNodes
      <4>1. PICK i \in 1..Len(produced) : produced[i].nodes = p
        BY <2>1, <3>3 DEF ProducedNodes
      <4>2. \A c \in caps : ~IsStart(c.tail, p)
        BY <2>1, <4>1 DEF Search
      <4>3. C = {}
        BY <3>2, <4>2
      <4> QED BY <4>3, <3>3, FS_EmptySet DEF C
    <3>4. CASE p \notin ProducedNodes
      <4>1. PICK c \in caps : IsStart(c.tail, p)
        <5>1. \A i \in 1..Len(produced) : produced[i].nodes # p
          BY <2>1, <3>4 DEF ProducedNodes
        <5> QED BY <5>1, <2>1, <3>1 DEF Search
      <4>2. ASSUME NEW e \in caps, IsStart(e.tail, p) PROVE e = c
        <5>1. Len(c.tail) \in Nat /\ Len(e.tail) \in Nat
          BY <2>2
        <5>2. IsStart(c.tail, e.tail) \/ IsStart(e.tail, c.tail)
          BY <5>1, <4>1, <4>2, <3>1, StartsFacts
        <5> QED BY <5>2, <2>1 DEF Search, AreApart
      <4>3. C = {c}
        BY <3>2, <4>1, <4>2
      <4> QED BY <4>3, <3>4, FS_Singleton DEF C
    <3> QED BY <3>3, <3>4
  <2>5. ASSUME NEW cap \in caps
        PROVE  cap.wholeCost = CheapestOf({PathCost(p) : p \in {q \in WholePaths : IsPrefix(cap.tail, q)}})
    <3> DEFINE costs == {PathCost(p) : p \in {q \in WholePaths : IsPrefix(cap.tail, q)}}
    <3>1. \A x : x \in costs <=> \E p : IsPathFrom(p, eos) /\ IsStart(cap.tail, p) /\ x = PathCost(p)
      BY <2>1, <2>3
    <3> HIDE DEF costs
    <3>2. /\ \A p : IsPathFrom(p, eos) /\ IsStart(cap.tail, p) => cap.wholeCost <= PathCost(p)
          /\ \E p : IsPathFrom(p, eos) /\ IsStart(cap.tail, p) /\ cap.wholeCost = PathCost(p)
      BY <1>1, <2>1, <2>2, WholeCostFacts
    <3>3. \A p : IsPathFrom(p, eos) => PathCost(p) \in Int
      BY <1>1, <2>1, PathCostIsInt DEF IsPathFrom
    <3>4. cap.wholeCost \in costs /\ costs \subseteq Int /\ \A x \in costs : cap.wholeCost <= x
      BY <3>1, <3>2, <3>3
    <3> QED BY <3>4, CheapestFacts DEF costs
  <2> QED BY <2>4, <2>5 DEF CapsPartitionTheRest
<1> QED BY <1>2, <1>3

\* The inductive invariant: the lattice, and the search in it.
SearchIInv == LatticeInv /\ SearchInv

LEMMA NextKeeps == ASSUME SearchIInv, CostsFit, [Next]_vars PROVE SearchIInv'
BY NextKeepsLattice, NextKeepsSearch DEF SearchIInv

LEMMA InitIsSearch == Init => SearchIInv
<1> SUFFICES ASSUME Init PROVE SearchIInv
  OBVIOUS
<1>1. LatticeInv
  BY InitIsGraph DEF Init
<1>2. state = "none" /\ NoIterator
  BY DEF Init, NoIterator
<1> QED BY <1>1, <1>2 DEF SearchIInv, SearchInv

\* PathsComeInOrder: n_best_iterator points to paths of the lattice that the constraint
\* allows and that spell the input, in the order of their costs, and to none twice.
THEOREM TheBestPathsComeInOrder ==
    ASSUME CostsFit
    PROVE  Spec => []PathsComeInOrder
<1> DEFINE R == SearchIInv /\ CostsFit
<1>1. Init => R
  BY InitIsSearch
<1>2. R /\ [Next]_vars => R'
  BY NextKeeps
<1>3. R => PathsComeInOrder
  BY InOrder DEF SearchIInv
<1> HIDE DEF R
<1> QED BY <1>1, <1>2, <1>3, PTL DEF Spec

\* NothingIsSkipped: no path is left out by what open_cap() throws away, and the
\* iterator does not end while there is one.
THEOREM NoPathIsSkipped ==
    ASSUME CostsFit
    PROVE  Spec => []NothingIsSkipped
<1> DEFINE R == SearchIInv /\ CostsFit
<1>1. Init => R
  BY InitIsSearch
<1>2. R /\ [Next]_vars => R'
  BY NextKeeps
<1>3. R => NothingIsSkipped
  BY NothingSkipped DEF SearchIInv
<1> HIDE DEF R
<1> QED BY <1>1, <1>2, <1>3, PTL DEF Spec

\* CapsPartitionTheRest: the caps share the paths that are still to come among them, and
\* the cost of each is that of the cheapest path behind it, after every open_cap().
THEOREM CapsAreAPartition ==
    ASSUME CostsFit
    PROVE  Spec => []CapsPartitionTheRest
<1> DEFINE R == SearchIInv /\ CostsFit
<1>1. Init => R
  BY InitIsSearch
<1>2. R /\ [Next]_vars => R'
  BY NextKeeps
<1>3. R => CapsPartitionTheRest
  BY Partition DEF SearchIInv
<1> HIDE DEF R
<1> QED BY <1>1, <1>2, <1>3, PTL DEF Spec
=============================================================================
