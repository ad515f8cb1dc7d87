------------------------------- MODULE Registry -------------------------------
(***************************************************************************)
(* What the tracker promises its callers, with neither locks nor threads:  *)
(* a table of jobs, each with the nodes that report to it and the chunks   *)
(* every node last said it holds (README "tracker", spec.md section 3).    *)
(* Tracker.tla is shown to implement this specification.                   *)
(***************************************************************************)
EXTENDS FiniteSets

CONSTANTS Job, Node, Chunk

VARIABLES
  status,   \* per job: "absent", "Running", "Complete" or "Cancelled"
  nodes,    \* per job: the registered nodes
  bits,     \* per job and node: the chunks of its last report
  stale     \* per job: the nodes silent for longer than the eviction timeout

vars == <<status, nodes, bits, stale>>

JobStatus == {"absent", "Running", "Complete", "Cancelled"}

TypeOK ==
  /\ status \in [Job -> JobStatus]
  /\ nodes \in [Job -> SUBSET Node]
  /\ bits \in [Job -> [Node -> SUBSET Chunk]]
  /\ stale \in [Job -> SUBSET Node]

Init ==
  /\ status = [j \in Job |-> "absent"]
  /\ nodes = [j \in Job |-> {}]
  /\ bits = [j \in Job |-> [n \in Node |-> {}]]
  /\ stale = [j \in Job |-> {}]

\* Every node of the job holds every chunk, and there is at least one node.
AllDone(j) ==
  /\ nodes[j] # {}
  /\ \A n \in nodes[j] : bits[j][n] = Chunk

-----------------------------------------------------------------------------
Create(j) ==
  /\ status[j] = "absent"
  /\ status' = [status EXCEPT ![j] = "Running"]
  /\ UNCHANGED <<nodes, bits, stale>>

Cancel(j) ==
  /\ status[j] # "absent"
  /\ status' = [status EXCEPT ![j] = "Cancelled"]
  /\ UNCHANGED <<nodes, bits, stale>>

\* A report registers the node, replaces its bitmap and makes it fresh.
Report(j, n, B) ==
  /\ status[j] # "absent"
  /\ nodes' = [nodes EXCEPT ![j] = @ \cup {n}]
  /\ bits' = [bits EXCEPT ![j][n] = B]
  /\ stale' = [stale EXCEPT ![j] = @ \ {n}]
  /\ UNCHANGED status

\* A job becomes complete only at an instant when all its nodes report
\* everything; a cancelled job that its nodes finish is complete too.
Finish(j) ==
  /\ status[j] # "absent"
  /\ AllDone(j)
  /\ status' = [status EXCEPT ![j] = "Complete"]
  /\ UNCHANGED <<nodes, bits, stale>>

Expire(j, n) ==
  /\ n \in nodes[j] \ stale[j]
  /\ stale' = [stale EXCEPT ![j] = @ \cup {n}]
  /\ UNCHANGED <<status, nodes, bits>>

\* Only nodes that fell silent are dropped, and their bitmaps with them.
Evict(j, S) ==
  /\ S # {} /\ S \subseteq stale[j]
  /\ nodes' = [nodes EXCEPT ![j] = @ \ S]
  /\ bits' = [bits EXCEPT ![j] = [n \in Node |-> IF n \in S THEN {} ELSE @[n]]]
  /\ stale' = [stale EXCEPT ![j] = @ \ S]
  /\ UNCHANGED status

Next ==
  \E j \in Job :
    \/ Create(j)
    \/ Cancel(j)
    \/ \E n \in Node, B \in SUBSET Chunk : Report(j, n, B)
    \/ Finish(j)
    \/ \E n \in Node : Expire(j, n)
    \/ \E S \in SUBSET Node : Evict(j, S)

Spec == Init /\ [][Next]_vars
=============================================================================
