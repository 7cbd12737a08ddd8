----------------------------- MODULE GraphSearch -----------------------------
(***************************************************************************)
(* The breadth-first searches of the dependency graph: transitive_deps     *)
(* (entroly-core/src/depgraph.rs) along the links, and identify_cluster    *)
(* (entroly-core/src/hierarchical.rs) along the links in both directions.  *)
(* A node is marked when it enters the queue, not when it leaves it, so    *)
(* the depth it gets must be its distance for the depth limit to mean      *)
(* anything.                                                               *)
(***************************************************************************)
EXTENDS DependencyGraph, Sequences, SequencesExt

CONSTANTS MaxDepth   (* greatest depth limit that is tried                 *)

ASSUME SearchAssumption == MaxDepth \in Nat

\* What a fragment is linked to, and what is linked to it.
Targets == [i \in Ids |-> {l.to : l \in {k \in links : k.from = i}}]

Dependents == [i \in Ids |-> {l.from : l \in {k \in links : k.to = i}}]

\* A fault: the greatest depth is searched too.
NewFromTooDeep(at, visited, limit, leads) ==
    IF at.depth <= limit THEN leads[at.id] \ visited ELSE {}

\* Where a node leads that no node before it did.
NewFrom(at, visited, limit, leads) ==
    IF at.depth < limit THEN leads[at.id] \ visited ELSE {}

Node == [id : Ids, depth : Nat]

\* Nodes in the order in which they enter the queue, whatever it is.
Queued(S, depth) == SetToSeq({[id |-> i, depth |-> depth] : i \in S})

\* The node at the head of the queue leaves it, and where it leads enters.
Pop(walk, limit, leads) ==
    IF walk.queue = <<>> THEN walk
    ELSE LET at  == Head(walk.queue)
             new == NewFrom(at, walk.visited, limit, leads)
         IN  [queue   |-> Tail(walk.queue) \o Queued(new, at.depth + 1),
              visited |-> walk.visited \cup new,
              found   |-> walk.found \cup {at.id}]

\* The search once it has popped MaxIds times.  A node enters the queue once at
\* most, so that nothing is left in it.
Walked(seeds, limit, leads) ==
    LET after[n \in 0 .. MaxIds] ==
            IF n = 0 THEN [queue |-> Queued(seeds, 0), visited |-> seeds, found |-> {}]
            ELSE Pop(after[n - 1], limit, leads)
    IN  after[MaxIds]

\* transitive_deps: the node it starts from is not among the results.
TransitiveDeps(i, limit) ==
    Walked({i}, limit, Targets).found \ {i}

\* identify_cluster takes a step along links from transitive_deps.
Neighbours == [i \in Ids |-> TransitiveDeps(i, 1) \cup Dependents[i]]

IdentifyCluster(seeds, limit) ==
    Walked(seeds, limit, Neighbours).found

\* Reference: what can be reached in so many steps.
Within(S, n, leads) ==
    LET within[k \in 0 .. n] ==
            IF k = 0 THEN S
            ELSE within[k - 1] \cup UNION {leads[i] : i \in within[k - 1]}
    IN  within[n]

BothWays == [i \in Ids |-> Targets[i] \cup Dependents[i]]

\* Whatever the graph, the seeds and the depth limit: a search returns
\* exactly the fragments within that many links of where it starts, and not
\* fewer because a fragment was first seen along a longer way (the causal
\* chain of optimize goes two links, transitive_deps as many as it is told).
SearchesAreExact ==
    \A n \in 0 .. MaxDepth :
        /\ \A i \in Ids : TransitiveDeps(i, n) = Within({i}, n, Targets) \ {i}
        /\ \A S \in SUBSET Ids : IdentifyCluster(S, n) = Within(S, n, BothWays)
=============================================================================
