------------------------------ MODULE Lattice ------------------------------
(***************************************************************************)
(* The Viterbi lattice (tetengo::lattice::lattice): every push_back() adds *)
(* a step with a node for every vocabulary entry that spells the input from*)
(* the end of an earlier step up to its new end, and each node remembers   *)
(* the cheapest way to it.                                                 *)
(*                                                                         *)
(* Steps are numbered from 1, and step 1 holds the BOS node alone. A node  *)
(* has the costs of the edges from the nodes of its preceding step.        *)
(***************************************************************************)
EXTENDS Integers, SequencesExt

CONSTANTS
    Chunk,         \* the inputs that push_back() is called with
    Entries,       \* the vocabulary: a sequence of entries for each key
    Connections,   \* choices of the connection cost of each pair of entries
    MaxCost,       \* the greatest int, which stands for "not connected"
    MaxLength,     \* bound: the length of the whole input
    MaxSteps       \* bound: the steps of the graph, the first included

ASSUME StepsAssumption == MaxSteps \in Nat \ {0}

ASSUME MaxCostAssumption == MaxCost \in Nat

VARIABLES
    connection,   \* the connection costs of the vocabulary
    input,        \* m_p_input; none and empty are the same
    graph,        \* m_graph
    eos,          \* the EOS node that the client got from settle(), or NoNode
    result        \* what the last push_back() or settle() returned or threw

latticeVars == <<connection, input, graph, eos, result>>

-----------------------------------------------------------------------------
(* The vocabulary                                                          *)

\* entry::bos_eos(): the entry without a key.
BosEos == [name |-> "bos/eos", key |-> <<>>, cost |-> 0]

Find(key) == IF key \in DOMAIN Entries THEN Entries[key] ELSE <<>>

AllEntries == {BosEos} \cup UNION {Range(Entries[key]) : key \in DOMAIN Entries}

\* The entries for a key have this key.
ASSUME EntriesAssumption ==
    \A key \in DOMAIN Entries : Entries[key] \in Seq([name : STRING, key : {key}, cost : Int])

\* find_connection() has an answer for every pair of entries.
ASSUME ConnectionsAssumption ==
    \A c \in Connections : \A e, f \in AllEntries : c[<<e.name, f.name>>] \in Int

\* find_connection()
Connection(e, f) == connection[<<e.name, f.name>>]

\* The letters of the input.
ASSUME ChunkAssumption == Chunk \subseteq Seq(UNION {Range(chunk) : chunk \in Chunk})

\* No sum of costs along a path, which is added in int, comes near to the greatest int:
\* a path has a node of each step and the EOS node at most, each with its entry and an edge.
CostsFit ==
    \E bound \in 0..MaxCost :
        LET Costs == {MaxCost} \cup (-bound)..bound
        IN  /\ 2 * (MaxSteps + 1) * bound < MaxCost
            /\ \A e \in AllEntries : e.cost \in Costs
            /\ \A c \in Connections : \A e, f \in AllEntries : c[<<e.name, f.name>>] \in Costs

-----------------------------------------------------------------------------
(* Nodes                                                                   *)

NoStep == 0     \* the greatest std::size_t, as a step
NoNode == [entry |-> BosEos, index |-> 0, preceding |-> NoStep, edges |-> <<>>, best |-> -1, cost |-> 0]

\* node::bos(); cost is path_cost(), and the entry has the node_cost().
Bos == [entry |-> BosEos, index |-> 1, preceding |-> NoStep, edges |-> <<>>, best |-> 0, cost |-> 0]

\* operator==, which looks neither at the value nor at the index.
SameNode(m, n) ==
    /\ m.entry.key = n.entry.key
    /\ m.entry.cost = n.entry.cost
    /\ m.preceding = n.preceding
    /\ m.best = n.best
    /\ m.cost = n.cost

IsBos(n) == SameNode(n, Bos)

AddCost(a, b) == IF a = MaxCost \/ b = MaxCost THEN MaxCost ELSE a + b

-----------------------------------------------------------------------------
(* The steps of the graph                                                  *)

PrecedingEdgeCosts(step, entry) ==
    [i \in DOMAIN step.nodes |-> Connection(step.nodes[i].entry, entry)]

\* The cost of reaching an entry through node i of a step.
CostThrough(step, edges, i) == AddCost(step.nodes[i].cost, edges[i])

\* Variant: the edges are not looked at.
BestWithoutEdges(step, edges) ==
    CHOOSE i \in DOMAIN step.nodes :
        \A j \in DOMAIN step.nodes :
            \/ step.nodes[i].cost < step.nodes[j].cost
            \/ step.nodes[i].cost = step.nodes[j].cost /\ i <= j

\* best_preceding_node_index(): the first of the cheapest.
Best(step, edges) ==
    CHOOSE i \in DOMAIN step.nodes :
        \A j \in DOMAIN step.nodes :
            \/ CostThrough(step, edges, i) < CostThrough(step, edges, j)
            \/ CostThrough(step, edges, i) = CostThrough(step, edges, j) /\ i <= j

\* A node for an entry behind step s. A new step numbers its nodes.
NodeAfter(s, entry) ==
    LET edges == PrecedingEdgeCosts(graph[s], entry)
        best == Best(graph[s], edges)
    IN  [entry |-> entry,
         index |-> 1,
         preceding |-> s,
         edges |-> edges,
         best |-> best,
         cost |-> AddCost(CostThrough(graph[s], edges, best), entry.cost)]

NodesAfter(s, text) ==
    LET found == Find(SubSeq(text, graph[s].tail + 1, Len(text)))
    IN  [i \in DOMAIN found |-> NodeAfter(s, found[i])]

\* The nodes of a new step, numbered in the order they are found.
NodesFor(text) ==
    LET nodes == FlattenSeq([s \in DOMAIN graph |-> NodesAfter(s, text)])
    IN  [i \in DOMAIN nodes |-> [nodes[i] EXCEPT !.index = i]]

-----------------------------------------------------------------------------
LatticeInit ==
    /\ connection \in Connections
    /\ input = <<>>
    /\ graph = <<[tail |-> 0, nodes |-> <<Bos>>]>>
    /\ eos = NoNode
    /\ result = "none"

\* push_back(): the input stays appended when no node is found. "Modification of
\* the lattice after settlement invalidate the EOS node": the client drops it.
PushBack(chunk) ==
    LET text == input \o chunk
        nodes == NodesFor(text)
    IN  /\ Len(text) <= MaxLength /\ Len(graph) < MaxSteps
        /\ input' = text
        /\ eos' = NoNode
        /\ IF nodes = <<>>
             THEN /\ result' = "invalid_argument"
                  /\ UNCHANGED graph
             ELSE /\ graph' = Append(graph, [tail |-> Len(text), nodes |-> nodes])
                  /\ result' = "void"
        /\ UNCHANGED connection

\* settle() leaves the lattice as it is; the EOS node has no cost of its own.
Settle ==
    LET node == NodeAfter(Len(graph), BosEos)
    IN  /\ eos = NoNode
        /\ eos' = node
        /\ result' = "node"
        /\ UNCHANGED <<connection, input, graph>>

-----------------------------------------------------------------------------
(* The reference: the paths of the lattice, last node first, without a look*)
(* at what the nodes remember.                                             *)

\* The paths that end at node i of step s.
Paths ==
    LET ending[s \in DOMAIN graph] ==
          [i \in DOMAIN graph[s].nodes |->
              LET n == graph[s].nodes[i]
              IN  IF s = 1 THEN {<<n>>}
                  ELSE {<<n>> \o p : p \in UNION {ending[n.preceding][j] : j \in DOMAIN graph[n.preceding].nodes}}]
    IN  ending

Edge(m, n) == Connection(m.entry, n.entry)

\* What the first nodes of a path cost, edge by edge and node by node, up to the edge
\* from node k + 1.
CostTo(path) ==
    LET sum[k \in 0..(Len(path) - 1)] ==
          IF k = 0 THEN 0
          ELSE AddCost(sum[k - 1], AddCost(Edge(path[k + 1], path[k]), path[k].entry.cost))
    IN  sum

PathCost(path) == CostTo(path)[Len(path) - 1]

\* The paths from the EOS node.
WholePaths ==
    IF eos = NoNode THEN {}
    ELSE {<<eos>> \o p : p \in UNION {Paths[eos.preceding][i] : i \in DOMAIN graph[eos.preceding].nodes}}

CheapestOf(costs) == CHOOSE c \in costs : \A d \in costs : c <= d

-----------------------------------------------------------------------------
(* Properties                                                              *)

\* Each node remembers the cost of the cheapest of all paths to it, or that
\* there is none, although it was computed from the nodes of one step only.
PathCostIsOptimal ==
    \A s \in DOMAIN graph : \A i \in DOMAIN graph[s].nodes :
        graph[s].nodes[i].cost = CheapestOf({PathCost(p) : p \in Paths[s][i]})
=============================================================================
