------------------------------- MODULE NBest -------------------------------
(***************************************************************************)
(* The search for the N best paths of a lattice under a constraint         *)
(* (tetengo::lattice::n_best_iterator). A cap is the tail of a path from   *)
(* the EOS node backwards, with the cost of the cheapest whole path that   *)
(* ends with it. open_cap() takes the cheapest cap, completes it along the *)
(* best preceding nodes, and leaves a cap for every other way it passes.   *)
(***************************************************************************)
EXTENDS LatticeConstraint, FiniteSets

VARIABLES
    state,      \* "none", "opening" inside of open_cap(), or "ready"
    pattern,    \* m_p_constraint
    caps,       \* m_caps
    path,       \* m_path, last node first, with its cost
    produced    \* history: the paths the iterator has pointed to, in order

searchVars == <<state, pattern, caps, path, produced>>
vars == <<connection, input, graph, eos, result, state, pattern, caps, path, produced>>

NoPath == [nodes |-> <<>>, cost |-> 0]

NoIterator == state = "none" /\ pattern = <<>> /\ caps = {} /\ path = NoPath /\ produced = <<>>

-----------------------------------------------------------------------------
(* open_cap()                                                              *)

Cap(tail, tailCost, wholeCost) == [tail |-> tail, tailCost |-> tailCost, wholeCost |-> wholeCost]

Opening(cap) == [nodes |-> cap.tail, cost |-> cap.tailCost, caps |-> {}, conforming |-> TRUE]

\* The cap through preceding node i of the node that has been reached.
Branch(w, i) ==
    LET node == Last(w.nodes)
        preceding == graph[node.preceding].nodes[i]
        upToEdge == AddCost(w.cost, node.edges[i])
    IN  Cap(Append(w.nodes, preceding),
            AddCost(upToEdge, preceding.entry.cost), AddCost(upToEdge, preceding.cost))

\* Variant: the best preceding node gets a cap, too.
BranchesAll(w) ==
    {c \in {Branch(w, i) : i \in DOMAIN graph[Last(w.nodes).preceding].nodes} :
        /\ MatchesTail(pattern, c.tail)
        /\ c.tailCost # MaxCost
        /\ c.wholeCost # MaxCost}

\* The caps of the ways that are not the best one.
Branches(w) ==
    LET node == Last(w.nodes)
    IN  {c \in {Branch(w, i) : i \in DOMAIN graph[node.preceding].nodes \ {node.best}} :
            /\ MatchesTail(pattern, c.tail)
            /\ c.tailCost # MaxCost
            /\ c.wholeCost # MaxCost}

\* One turn of the loop along the best preceding nodes.
Walked(w) ==
    LET node == Last(w.nodes)
        best == graph[node.preceding].nodes[node.best]
        nodes == Append(w.nodes, best)
    IN  IF IsBos(node) \/ ~w.conforming THEN w
        ELSE [nodes |-> nodes,
              cost |-> AddCost(w.cost, AddCost(node.edges[node.best], best.entry.cost)),
              caps |-> w.caps \cup Branches(w),
              conforming |-> MatchesTail(pattern, nodes)]

\* The opened cap. A turn goes at least one step back, so that there are not
\* more turns than steps.
Opened(cap) ==
    LET turn[n \in 0..Len(graph)] == IF n = 0 THEN Opening(cap) ELSE Walked(turn[n - 1])
    IN  turn[Len(graph)]

-----------------------------------------------------------------------------
\* The constructor of n_best_iterator begins with the cap of the EOS node.
Create(p) ==
    /\ eos # NoNode
    /\ state = "none"
    /\ state' = "opening"
    /\ pattern' = p
    /\ caps' = {Cap(<<eos>>, eos.entry.cost, eos.cost)}
    /\ UNCHANGED <<latticeVars, path, produced>>

\* Variant: any cap is taken from the queue.
OpenAnyCap ==
    /\ state = "opening"
    /\ \E cap \in caps :
          LET opened == Opened(cap)
          IN  /\ caps' = (caps \ {cap}) \cup opened.caps
              /\ IF opened.conforming
                   THEN /\ state' = "ready"
                        /\ path' = [nodes |-> opened.nodes, cost |-> cap.wholeCost]
                        /\ produced' = Append(produced, path')
                   ELSE UNCHANGED <<state, path, produced>>
    /\ UNCHANGED <<latticeVars, pattern>>

\* One turn of the outer loop of open_cap(). The order of caps of the same cost
\* is left to the std::priority_queue.
OpenCap ==
    /\ state = "opening"
    /\ \E cap \in caps :
          LET opened == Opened(cap)
          IN  /\ \A c \in caps : cap.wholeCost <= c.wholeCost
              /\ caps' = (caps \ {cap}) \cup opened.caps
              /\ IF opened.conforming
                   THEN /\ state' = "ready"
                        /\ path' = [nodes |-> opened.nodes, cost |-> cap.wholeCost]
                        /\ produced' = Append(produced, path')
                   ELSE UNCHANGED <<state, path, produced>>
    /\ UNCHANGED <<latticeVars, pattern>>

\* The loop ends without a path when the last cap has been taken.
NoMoreCaps ==
    /\ state = "opening"
    /\ caps = {}
    /\ state' = "ready"
    /\ path' = NoPath
    /\ UNCHANGED <<latticeVars, pattern, caps, produced>>

\* operator++, which throws std::logic_error behind the last path.
Increment ==
    /\ state = "ready"
    /\ path # NoPath
    /\ IF caps = {}
         THEN path' = NoPath /\ UNCHANGED state
         ELSE state' = "opening" /\ UNCHANGED path
    /\ UNCHANGED <<latticeVars, pattern, caps, produced>>

\* The client destroys the iterator.
Destroy ==
    /\ state = "ready"
    /\ state' = "none"
    /\ pattern' = <<>>
    /\ caps' = {}
    /\ path' = NoPath
    /\ produced' = <<>>
    /\ UNCHANGED latticeVars

-----------------------------------------------------------------------------
(* The patterns that a client makes of a path, with the nodes from i to j  *)
(* left open.                                                              *)

PatternOf(nodes, i, j) ==
    LET forward == Reverse(nodes)
        element == [k \in DOMAIN forward |-> NodeElement(forward[k])]
    IN  SubSeq(element, 1, i - 1)
          \o (IF i <= j THEN <<Wildcard(forward[i].preceding)>> ELSE <<>>)
          \o SubSeq(element, j + 1, Len(element))

Patterns ==
    {<<>>} \cup
    UNION {{PatternOf(p, k[1], k[2]) : k \in {k \in (1..Len(p)) \X (0..Len(p)) : k[1] <= k[2] + 1}}
             : p \in WholePaths}

Init == LatticeInit /\ NoIterator

\* The lattice is not changed while an iterator points into it.
Next ==
    \/ /\ state = "none"
       /\ \/ \E chunk \in Chunk : PushBack(chunk)
          \/ Settle
       /\ UNCHANGED searchVars
    \/ \E p \in Patterns : Create(p)
    \/ OpenCap
    \/ NoMoreCaps
    \/ Increment
    \/ Destroy

Spec == Init /\ [][Next]_vars

-----------------------------------------------------------------------------
(* The reference                                                           *)

SameNodes(p, q) == Len(p) = Len(q) /\ \A i \in DOMAIN p : SameNode(p[i], q[i])

\* What a pattern means: the path begins with the nodes in front of the wildcard,
\* goes on from its step, and ends with the nodes behind it.
Allowed(nodes) ==
    LET forward == Reverse(nodes)
        wild == {k \in DOMAIN pattern : pattern[k].kind = "wildcard"}
        Of(elements) == [k \in DOMAIN elements |-> elements[k].node]
    IN  \/ pattern = <<>>
        \/ wild = {} /\ SameNodes(forward, Of(pattern))
        \/ \E w \in wild :
              LET front == w - 1
                  back == Len(pattern) - w
              IN  /\ Len(forward) > front + back
                  /\ forward[w].preceding = pattern[w].step
                  /\ SameNodes(SubSeq(forward, 1, front), Of(SubSeq(pattern, 1, front)))
                  /\ SameNodes(SubSeq(forward, Len(forward) - back + 1, Len(forward)),
                               Of(SubSeq(pattern, w + 1, Len(pattern))))

\* The paths that the iterator has to enumerate.
Expected == {p \in WholePaths : Allowed(p) /\ PathCost(p) # MaxCost}

ProducedNodes == {produced[i].nodes : i \in DOMAIN produced}

-----------------------------------------------------------------------------
(* Properties                                                              *)

Spelling(nodes) == FlattenSeq([k \in DOMAIN nodes |-> Reverse(nodes)[k].entry.key])

\* The iterator points to paths of the lattice that the pattern allows, each with
\* what it costs, none twice, and none cheaper than the one before it. The entries
\* on a path spell the input without overlap or gap, also when a push_back() has
\* failed on the way.
PathsComeInOrder ==
    /\ \A i \in DOMAIN produced :
          /\ produced[i].nodes \in WholePaths
          /\ Spelling(produced[i].nodes) = SubSeq(input, 1, Last(graph).tail)
          /\ Allowed(produced[i].nodes)
          /\ produced[i].cost = PathCost(produced[i].nodes)
    /\ \A i, j \in DOMAIN produced :
          i < j => /\ produced[i].cost <= produced[j].cost
                   /\ produced[i].nodes # produced[j].nodes

\* A path that the iterator has still to produce is not cheaper than the one it
\* points to, and it does not end while there is such a path: the caps that
\* were thrown away, because of the constraint or the cost, led nowhere.
NothingIsSkipped ==
    \A p \in Expected \ ProducedNodes :
        /\ \A i \in DOMAIN produced : produced[i].cost <= PathCost(p)
        /\ ~(state = "ready" /\ path = NoPath)

\* Every path yet to come is the continuation of exactly one cap, no path that
\* has been produced is one, and a cap knows the cheapest of its continuations.
CapsPartitionTheRest ==
    /\ state # "none" =>
          \A p \in Expected :
              Cardinality({cap \in caps : IsPrefix(cap.tail, p)}) = IF p \in ProducedNodes THEN 0 ELSE 1
    /\ \A cap \in caps :
          cap.wholeCost = CheapestOf({PathCost(p) : p \in {q \in WholePaths : IsPrefix(cap.tail, q)}})
=============================================================================
