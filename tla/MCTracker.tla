------------------------------- MODULE MCTracker -------------------------------
(* Instances of Tracker for TLC: n2 lives in one shard of the nodes, n1 and *)
(* n3 in the other, as their ids may hash; the job's own shard is the second. *)
EXTENDS Tracker, TLC

CONSTANTS n1, n2, n3, c1, c2

MCChunk == {c1, c2}
MCNodeShard == [n \in Node |-> IF n = n2 THEN 1 ELSE 0]
MCJobShard == [j \in Job |-> 1]

\* Nothing yet, the first chunk, everything; n3 only asks.
MCReports == [n \in Node |-> IF n = n3 THEN {} ELSE {{}, {c1}, MCChunk}]

\* The node of the later shard has the better link.
MCRack == [n \in Node |-> "rack"]
MCBandwidth == [n \in Node |-> IF n = n2 THEN 9 ELSE 8]
=============================================================================
