------------------------------- MODULE Scheduler -------------------------------
(***************************************************************************)
(* The order of the candidates in the answer to a peer query, and where    *)
(* the answer is cut (src/src/tracker/scheduler.rs).                       *)
(***************************************************************************)
EXTENDS Naturals, FiniteSets

CONSTANTS
  TopN,        \* length of an answer; every node asks for 5
  Policy,      \* of the job: "RarityFirst" or "TopologyAware"
  Rack,        \* per node, its rack
  Bandwidth    \* per node, the upload bandwidth it reports; 8000 in every node

\* i comes before j in an answer to a node of rack r: rarity_first sorts by bandwidth,
\* topology_aware by rack first.  Equals come in any order.
Before(r, i, j) ==
  LET local(k) == Rack[k] = r
      faster   == Bandwidth[i] > Bandwidth[j]
  IN IF Policy = "RarityFirst" THEN faster
     ELSE \/ local(i) /\ ~local(j)
          \/ (local(i) <=> local(j)) /\ faster

\* truncate(top_n) of the sorted holders H: what it may leave, equals being in any order.
Cut(r, H) ==
  {S \in SUBSET H :
     /\ Cardinality(S) <= TopN
     /\ Cardinality(S) = TopN \/ S = H
     /\ \A i \in S, j \in H \ S : ~Before(r, j, i)}
=============================================================================
