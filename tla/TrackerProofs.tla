----------------------------- MODULE TrackerProofs -----------------------------
(* Theorems about Tracker for every value of its constants. *)
EXTENDS Tracker, TLAPS

USE DEF JobStatus

LEMMA ShardRange == /\ NumShards \in Nat /\ NumShards > 0
                    /\ 0 \in 0 .. NumShards - 1 /\ 0 \in 0 .. NumShards
  BY ShardAssumption

LEMMA IdleTask == Idle \in Task
  BY ShardRange DEF Idle, Task, Ops

\* A worker that stands before the last shard moves to a shard.
LEMMA NextShard ==
  ASSUME NEW w \in Worker, TypeOK, ~Last(w)
  PROVE  task[w].at + 1 \in 0 .. NumShards - 1
<1>1. task[w] \in Task BY DEF TypeOK
<1>2. task[w].at \in 0 .. NumShards - 1 BY <1>1 DEF Task
<1> QED BY <1>2, ShardRange DEF Last

\* A task whose fields are all in range is a task.
LEMMA ObserveType ==
  ASSUME TypeOK, NEW B
  PROVE  Observe(B) \in [Worker -> [ever : SUBSET Node, steady : SUBSET Node]]
  BY DEF TypeOK, Observe, Holders

\* A heartbeat names a job and a node, and has scanned nothing; a peer query
\* names a job, a node and a chunk.
RequestInv ==
  \A w \in Worker :
    /\ task[w].op = "heartbeat" =>
         task[w].job \in Job /\ task[w].node \in Node /\ task[w].at = 0
    /\ task[w].op = "peers" =>
         task[w].job \in Job /\ task[w].node \in Node /\ task[w].chunk \in Chunk

LEMMA TypeInit == Init => TypeOK
  BY IdleTask DEF Init, TypeOK, NoHist

LEMMA TypeArrive ==
  ASSUME TypeOK, NEW w \in Worker, Arrive(w)
  PROVE  TypeOK'
<1> USE DEF TypeOK, Take, registry
<1>1. ASSUME NEW j \in Job, TakeCreateJob(w, j) PROVE TypeOK'
  BY <1>1, IdleTask DEF TakeCreateJob, Task, Ops
<1>2. ASSUME NEW j \in Job, NEW n \in Node, NEW B \in Reports[n], TakeHeartbeat(w, j, n, B)
      PROVE  TypeOK'
  BY <1>2, IdleTask, ReportAssumption DEF TakeHeartbeat, Task, Ops
<1>3. ASSUME NEW j \in Job, NEW n \in Node, NEW c \in Chunk, TakeGetPeers(w, j, n, c)
      PROVE  TypeOK'
  BY <1>3, IdleTask DEF TakeGetPeers, Task, Ops, Holders
<1>4. ASSUME NEW j \in Job, TakeGetStatus(w, j) PROVE TypeOK'
  BY <1>4, IdleTask DEF TakeGetStatus, Task, Ops
<1>5. CASE TakeListJobs(w)
  BY <1>5, IdleTask DEF TakeListJobs, Task, Ops
<1>6. CASE EvictionTick(w)
  BY <1>6, IdleTask DEF EvictionTick, Task, Ops
<1>7. ASSUME NEW j \in Job, CancelJob(w, j) PROVE TypeOK'
  BY <1>7 DEF CancelJob
<1> QED BY <1>1, <1>2, <1>3, <1>4, <1>5, <1>6, <1>7 DEF Arrive

\* What one shard of a peer query's scan leaves: all it saw, or after the last shard a cut.
LEMMA ScanStep ==
  ASSUME NEW w \in Worker, ScanForPeers(w)
  PROVE  LET t    == task[w]
             seen == t.found \cup CandidatesHere(t)
         IN \E S \in SUBSET seen :
              /\ IF Last(w) THEN S \in Cut(Rack[t.node], seen) ELSE S = seen
              /\ task' = [task EXCEPT ![w] =
                   [t EXCEPT !.op = IF Last(w) THEN "answer" ELSE "peers",
                             !.at = IF Last(w) THEN 0 ELSE @ + 1, !.found = S]]
<1> DEFINE t == task[w]
           seen == t.found \cup CandidatesHere(t)
<1>1. PICK S \in (IF Last(w) THEN Cut(Rack[t.node], seen) ELSE {seen}) :
        task' = [task EXCEPT ![w] =
          [t EXCEPT !.op = IF Last(w) THEN "answer" ELSE "peers",
                    !.at = IF Last(w) THEN 0 ELSE @ + 1, !.found = S]]
  BY DEF ScanForPeers
<1>2. S \in SUBSET seen /\ IF Last(w) THEN S \in Cut(Rack[t.node], seen) ELSE S = seen
  BY DEF Cut
<1> QED BY <1>1, <1>2

LEMMA TypeWork ==
  ASSUME TypeOK, RequestInv, NEW w \in Worker, Work(w)
  PROVE  TypeOK'
<1> USE DEF TypeOK
<1>1. CASE InsertJob(w)
  BY <1>1, IdleTask DEF InsertJob
<1>2. CASE UpdateNode(w)
  <2> DEFINE t == task[w]
  <2>1. t \in Task /\ t.bits \subseteq Chunk /\ t.job \in Job /\ t.node \in Node
    BY <1>2 DEF Task, RequestInv, UpdateNode
  <2>2. [t EXCEPT !.op = "check", !.bits = {}] \in Task
    BY <2>1 DEF Task, Ops
  <2>3. task' \in [Worker -> Task]
    BY <1>2, <2>2, IdleTask DEF UpdateNode
  <2>4. nodes' \in [Job -> SUBSET Node] /\ stale' \in [Job -> SUBSET Node]
    BY <1>2, <2>1 DEF UpdateNode
  <2>5. bits' \in [Job -> [Node -> SUBSET Chunk]]
    BY <1>2, <2>1 DEF UpdateNode
  <2>6. hist' \in [Worker -> [ever : SUBSET Node, steady : SUBSET Node]]
    BY <1>2, ObserveType DEF UpdateNode
  <2> QED BY <1>2, <2>3, <2>4, <2>5, <2>6 DEF UpdateNode
<1>3. CASE ScanForCompletion(w)
  BY <1>3, IdleTask, NextShard DEF ScanForCompletion, Task, Ops
<1>4. CASE ScanForPeers(w)
  <2> DEFINE t == task[w]
  <2>1. PICK S \in SUBSET (t.found \cup CandidatesHere(t)) :
          task' = [task EXCEPT ![w] = [t EXCEPT !.op = IF Last(w) THEN "answer" ELSE "peers",
                                                !.at = IF Last(w) THEN 0 ELSE @ + 1,
                                                !.found = S]]
    BY <1>4, ScanStep
  <2>2. t \in Task /\ S \subseteq Node
    BY <2>1 DEF CandidatesHere, InShard, Task
  <2>3. (IF Last(w) THEN 0 ELSE t.at + 1) \in 0 .. NumShards - 1
    BY NextShard, ShardRange
  <2> DEFINE next == [t EXCEPT !.op = IF Last(w) THEN "answer" ELSE "peers",
                               !.at = IF Last(w) THEN 0 ELSE @ + 1, !.found = S]
  <2>4. next \in Task
    BY <2>2, <2>3 DEF Task, Ops
  <2>5. task' = [task EXCEPT ![w] = next]
    BY <2>1
  <2> HIDE DEF next
  <2> QED BY <1>4, <2>4, <2>5 DEF ScanForPeers
<1>5. CASE AnswerPeers(w)
  BY <1>5, IdleTask DEF AnswerPeers, registry, NoHist
<1>6. CASE ScanForSnapshot(w)
  <2> DEFINE t == task[w]
  <2>1. t \in Task
    OBVIOUS
  <2>2. ~Last(w) => [t EXCEPT !.at = @ + 1] \in Task
    BY <2>1, NextShard DEF Task
  <2>3. [t EXCEPT !.job = None, !.at = 0] \in Task
    BY <2>1, ShardRange DEF Task
  <2>4. task' \in [Worker -> Task]
    BY <1>6, <2>2, <2>3, IdleTask DEF ScanForSnapshot
  <2> QED BY <1>6, <2>4 DEF ScanForSnapshot
<1>7. CASE NextJobShard(w)
  <2> DEFINE t == task[w]
             jobs == {j \in Job : status[j] # "absent" /\ JobShard[j] = t.walk}
  <2>1. t \in Task /\ jobs \subseteq Job
    OBVIOUS
  <2>2. t.walk + 1 \in 0 .. NumShards
    BY <1>7, <2>1, ShardRange DEF NextJobShard, Task
  <2> HIDE DEF jobs
  <2>3. [t EXCEPT !.walk = @ + 1, !.todo = jobs] \in Task
    BY <2>1, <2>2 DEF Task
  <2> QED BY <1>7, <2>3 DEF NextJobShard, jobs
<1>8. ASSUME NEW j \in Job, VisitJob(w, j) PROVE TypeOK'
  BY <1>8 DEF VisitJob, Task, Ops
<1>9. CASE EndWalk(w)
  BY <1>9, IdleTask DEF EndWalk
<1>10. CASE RetainShard(w)
  <2>1. task[w] \in Task /\ task[w].job \in Job /\ task[w].at \in 0 .. NumShards - 1
    BY <1>10 DEF RetainShard, Task
  <2>2. nodes' \in [Job -> SUBSET Node] /\ stale' \in [Job -> SUBSET Node]
    BY <1>10, <2>1 DEF RetainShard
  <2>3. bits' \in [Job -> [Node -> SUBSET Chunk]]
    BY <1>10, <2>1 DEF RetainShard
  <2>4. task' \in [Worker -> Task]
    BY <1>10, <2>1, NextShard, ShardRange DEF RetainShard, Task
  <2>5. hist' \in [Worker -> [ever : SUBSET Node, steady : SUBSET Node]]
    BY <1>10, ObserveType DEF RetainShard
  <2> QED BY <1>10, <2>2, <2>3, <2>4, <2>5 DEF RetainShard
<1> QED BY <1>1, <1>2, <1>3, <1>4, <1>5, <1>6, <1>7, <1>8, <1>9, <1>10 DEF Work

-----------------------------------------------------------------------------
(* The completion check                                                    *)

\* A completion check has not passed the shard its own entry locks: it stands
\* at or before it, because passing it takes that shard's read lock.
CheckInv ==
  \A w \in Worker : task[w].op = "check" =>
    /\ task[w].job \in Job /\ task[w].node \in Node
    /\ task[w].at <= NodeShard[task[w].node]

CompletionInv == TypeOK /\ RequestInv /\ CheckInv /\ NeverComplete

\* A check that is not blocked stands before its own shard, so it is not at
\* the last one.
LEMMA CheckNotLast ==
  ASSUME TypeOK, CheckInv, NEW w \in Worker, task[w].op = "check", ~Blocked(w)
  PROVE  /\ task[w].at < NodeShard[task[w].node]
         /\ ~Last(w)
<1> DEFINE t == task[w]
<1>1. t \in Task /\ t.node \in Node /\ t.at <= NodeShard[t.node]
  BY DEF TypeOK, CheckInv
<1>2. NodeShard[t.node] \in 0 .. NumShards - 1 /\ t.at \in Int /\ NumShards \in Int
  BY <1>1, ShardAssumption DEF Task
<1>3. Writers(t.job, t.at) = {}
  BY DEF Blocked, CanRead
<1>4. w \in Writers(t.job, NodeShard[t.node])
  BY DEF Writers
<1>5. t.at # NodeShard[t.node]
  BY <1>3, <1>4
<1> QED BY <1>1, <1>2, <1>5 DEF Last

LEMMA CompletionInit == Init => CompletionInv
  BY TypeInit DEF Init, CompletionInv, RequestInv, CheckInv, NeverComplete, Idle

LEMMA CompletionArrive ==
  ASSUME CompletionInv, NEW w \in Worker, Arrive(w)
  PROVE  RequestInv' /\ CheckInv' /\ NeverComplete'
<1> USE DEF CompletionInv, TypeOK, RequestInv, CheckInv, NeverComplete, Take, registry
<1>1. ASSUME NEW j \in Job, TakeCreateJob(w, j) PROVE RequestInv' /\ CheckInv' /\ NeverComplete'
  BY <1>1 DEF TakeCreateJob, Idle
<1>2. ASSUME NEW j \in Job, NEW n \in Node, NEW B \in Reports[n], TakeHeartbeat(w, j, n, B)
      PROVE  RequestInv' /\ CheckInv' /\ NeverComplete'
  BY <1>2 DEF TakeHeartbeat, Idle
<1>3. ASSUME NEW j \in Job, NEW n \in Node, NEW c \in Chunk, TakeGetPeers(w, j, n, c)
      PROVE  RequestInv' /\ CheckInv' /\ NeverComplete'
  BY <1>3 DEF TakeGetPeers, Idle
<1>4. ASSUME NEW j \in Job, TakeGetStatus(w, j) PROVE RequestInv' /\ CheckInv' /\ NeverComplete'
  BY <1>4 DEF TakeGetStatus, Idle
<1>5. CASE TakeListJobs(w)
  BY <1>5 DEF TakeListJobs, Idle
<1>6. CASE EvictionTick(w)
  BY <1>6 DEF EvictionTick, Idle
<1>7. ASSUME NEW j \in Job, CancelJob(w, j) PROVE RequestInv' /\ CheckInv' /\ NeverComplete'
  BY <1>7 DEF CancelJob
<1> QED BY <1>1, <1>2, <1>3, <1>4, <1>5, <1>6, <1>7 DEF Arrive

LEMMA CompletionWork ==
  ASSUME CompletionInv, NEW w \in Worker, Work(w)
  PROVE  RequestInv' /\ CheckInv' /\ NeverComplete'
<1> USE DEF CompletionInv, TypeOK, RequestInv, CheckInv, NeverComplete
<1>1. CASE InsertJob(w)
  BY <1>1 DEF InsertJob, Idle
<1>2. CASE UpdateNode(w)
  <2>1. task[w] \in Task /\ NodeShard[task[w].node] >= 0 /\ task[w].at = 0
    BY <1>2, ShardAssumption DEF UpdateNode, Task
  <2> QED BY <1>2, <2>1 DEF UpdateNode, Idle, Task
<1>3. CASE ScanForCompletion(w)
  <2>1. task[w] \in Task /\ task[w].at < NodeShard[task[w].node] /\ ~Last(w)
    BY <1>3, CheckNotLast DEF ScanForCompletion
  <2>2. task[w].job \in Job /\ task[w].node \in Node
    BY <1>3 DEF ScanForCompletion
  <2>3. NodeShard[task[w].node] \in Int /\ task[w].at \in Int
    <3>1. NodeShard[task[w].node] \in 0 .. NumShards - 1
      BY <2>2, ShardAssumption
    <3>2. task[w].at \in 0 .. NumShards - 1
      BY <2>1 DEF Task
    <3> QED BY <3>1, <3>2, ShardRange
  <2>4. status' = status /\ \A v \in Worker \ {w} : task'[v] = task[v]
    BY <1>3, <2>1 DEF ScanForCompletion
  <2>5. \/ task'[w] = Idle
        \/ task'[w] = [task[w] EXCEPT !.at = @ + 1]
    BY <1>3 DEF ScanForCompletion
  <2>6. task'[w].op \in {"idle", "check"}
    BY <1>3, <2>1, <2>5 DEF ScanForCompletion, Idle, Task
  <2>7. task'[w].op = "check" => /\ task'[w].job = task[w].job
                                /\ task'[w].node = task[w].node
                                /\ task'[w].at = task[w].at + 1
    BY <2>1, <2>5 DEF Idle, Task
  <2>8. CheckInv'
    BY <2>1, <2>3, <2>4, <2>7, <2>2
  <2> QED BY <2>4, <2>6, <2>8
<1>4. CASE ScanForPeers(w)
  BY <1>4 DEF ScanForPeers, Task
<1>5. CASE AnswerPeers(w)
  BY <1>5 DEF AnswerPeers, registry, Idle
<1>6. CASE ScanForSnapshot(w)
  BY <1>6 DEF ScanForSnapshot, Idle, Task
<1>7. CASE NextJobShard(w)
  BY <1>7 DEF NextJobShard, Walking, Task
<1>8. ASSUME NEW j \in Job, VisitJob(w, j) PROVE RequestInv' /\ CheckInv' /\ NeverComplete'
  BY <1>8 DEF VisitJob, Walking, Task
<1>9. CASE EndWalk(w)
  BY <1>9 DEF EndWalk, Idle
<1>10. CASE RetainShard(w)
  BY <1>10 DEF RetainShard, Task
<1> QED BY <1>1, <1>2, <1>3, <1>4, <1>5, <1>6, <1>7, <1>8, <1>9, <1>10 DEF Work

LEMMA CompletionStep == CompletionInv /\ [Next]_vars => CompletionInv'
<1> SUFFICES ASSUME CompletionInv, [Next]_vars PROVE CompletionInv'
  OBVIOUS
<1> USE DEF CompletionInv
<1>1. ASSUME NEW w \in Worker, Arrive(w) PROVE CompletionInv'
  BY <1>1, TypeArrive, CompletionArrive
<1>2. ASSUME NEW w \in Worker, Work(w) PROVE CompletionInv'
  BY <1>2, TypeWork, CompletionWork
<1>3. ASSUME NEW j \in Job, NEW n \in Node, Expire(j, n) PROVE CompletionInv'
  BY <1>3 DEF Expire, TypeOK, RequestInv, CheckInv, NeverComplete
<1>4. CASE UNCHANGED vars
  BY <1>4 DEF vars, TypeOK, RequestInv, CheckInv, NeverComplete
<1> QED BY <1>1, <1>2, <1>3, <1>4 DEF Next

LEMMA CompletionInvariant == Spec => []CompletionInv
<1>1. Init => CompletionInv BY CompletionInit
<1>2. CompletionInv /\ [Next]_vars => CompletionInv' BY CompletionStep
<1> QED BY <1>1, <1>2, PTL DEF Spec

\* Every variable keeps its type: reports only ever register nodes, workers
\* never scan past the last shard of a map.
THEOREM TypeCorrect == Spec => []TypeOK
<1>1. CompletionInv => TypeOK BY DEF CompletionInv
<1> QED BY <1>1, CompletionInvariant, PTL

\* However many shards, nodes and workers there are, update_node never gets to
\* mark a job Complete.
THEOREM JobsNeverComplete == Spec => []NeverComplete
<1>1. CompletionInv => NeverComplete BY DEF CompletionInv
<1> QED BY <1>1, CompletionInvariant, PTL

-----------------------------------------------------------------------------
(* The workers                                                             *)

\* A step is a step of one worker.
Leaves(w) == \A v \in Worker \ {w} : task'[v] = task[v]

LEMMA StepLeavesOthers ==
  ASSUME TypeOK, NEW w \in Worker, Arrive(w) \/ Work(w)
  PROVE  Leaves(w)
<1>1. CASE Arrive(w)
  BY <1>1 DEF Leaves, Arrive, TakeCreateJob, TakeHeartbeat, TakeGetPeers, TakeGetStatus,
     TakeListJobs, EvictionTick, CancelJob, Take, TypeOK
<1>2. CASE Work(w)
  <2>1. \E t : task' = [task EXCEPT ![w] = t]
    <3>1. ASSUME NEW j \in Job, VisitJob(w, j) PROVE \E t : task' = [task EXCEPT ![w] = t]
      <4>1. task' = [task EXCEPT ![w] = [task[w] EXCEPT !.job = j, !.todo = @ \ {j}]]
        BY <3>1 DEF VisitJob, TypeOK
      <4> QED BY <4>1
    <3>2. CASE InsertJob(w) BY <3>2 DEF InsertJob
    <3>3. CASE UpdateNode(w) BY <3>3 DEF UpdateNode
    <3>4. CASE ScanForCompletion(w) BY <3>4 DEF ScanForCompletion
    <3>5. CASE ScanForPeers(w) BY <3>5 DEF ScanForPeers
    <3>6. CASE AnswerPeers(w) BY <3>6 DEF AnswerPeers
    <3>7. CASE ScanForSnapshot(w) BY <3>7 DEF ScanForSnapshot
    <3>8. CASE NextJobShard(w) BY <3>8 DEF NextJobShard
    <3>9. CASE EndWalk(w) BY <3>9 DEF EndWalk
    <3>10. CASE RetainShard(w) BY <3>10 DEF RetainShard
    <3> QED BY <1>2, <3>1, <3>2, <3>3, <3>4, <3>5, <3>6, <3>7, <3>8, <3>9, <3>10 DEF Work
  <2> QED BY <2>1 DEF Leaves, TypeOK
<1> QED BY <1>1, <1>2

-----------------------------------------------------------------------------
(* Blocking                                                                *)

LEMMA SomeoneRuns == TypeOK => OnlyCompletionBlocks
<1> SUFFICES ASSUME TypeOK, \A w \in Worker : task[w].op # "check",
                    NEW w \in Worker, task[w] # Idle
             PROVE  \E v \in Worker : task[v] # Idle /\ ~Blocked(v)
  BY DEF OnlyCompletionBlocks
<1>1. \A j, s : Writers(j, s) = {}
  BY DEF Writers
<1>2. ASSUME NEW v \in Worker, NEW j, NEW s, v \in Readers(j, s)
      PROVE  task[v] # Idle /\ ~Blocked(v)
  BY <1>1, <1>2 DEF Readers, Blocked, CanRead, Idle
<1>3. ASSUME NEW v \in Worker, task[v].op = "evict"
      PROVE  \E u \in Worker : task[u] # Idle /\ ~Blocked(u)
  <2>1. task[v] # Idle
    BY <1>3 DEF Idle
  <2>2. CASE Blocked(v)
    <3>1. Readers(task[v].job, task[v].at) # {}
      BY <1>1, <1>3, <2>2 DEF Blocked, CanWrite
    <3> QED BY <1>2, <3>1 DEF Readers
  <2> QED BY <2>1, <2>2
<1>4. ASSUME NEW v \in Worker, task[v].op = "list"
      PROVE  task[v] # Idle /\ ~Blocked(v)
  BY <1>1, <1>4 DEF Blocked, CanRead, Idle
<1>5. CASE task[w].op = "create" /\ Blocked(w)
  <2>1. PICK v \in Worker : task[v].op \in {"list", "evict"}
    BY <1>5 DEF Blocked, JobReaders
  <2> QED BY <1>3, <1>4, <2>1
<1>6. CASE task[w].op = "heartbeat" /\ Blocked(w)
  <2>1. Readers(task[w].job, NodeShard[task[w].node]) # {}
    BY <1>1, <1>6 DEF Blocked, CanWrite
  <2> QED BY <1>2, <2>1 DEF Readers
<1>7. CASE task[w].op \notin {"create", "heartbeat", "evict"}
  BY <1>1, <1>7 DEF Blocked, CanRead
<1> QED BY <1>3, <1>5, <1>6, <1>7

\* Without a completion check the locks of the tracker cannot deadlock.
THEOREM NoOtherDeadlock == Spec => []OnlyCompletionBlocks
<1>1. CompletionInv => OnlyCompletionBlocks
  BY SomeoneRuns DEF CompletionInv
<1> QED BY <1>1, CompletionInvariant, PTL

\* A wedged worker sleeps on the lock it holds.
LEMMA WedgedBlocks ==
  ASSUME CheckInv, NEW w \in Worker, Wedged(w)
  PROVE  /\ Blocked(w)
         /\ task[w].job \in Job /\ task[w].node \in Node
         /\ w \in Writers(task[w].job, NodeShard[task[w].node])
  BY DEF CheckInv, Wedged, Blocked, CanRead, Writers

\* A worker asleep on a lock does not move.
LEMMA BlockedStays ==
  ASSUME TypeOK, NEW w \in Worker, task[w].op = "check", Blocked(w)
  PROVE  ~Arrive(w) /\ ~Work(w)
<1>1. ~Arrive(w)
  <2>1. Arrive(w) => task[w] = Idle
    BY DEF Arrive, TakeCreateJob, TakeHeartbeat, TakeGetPeers, TakeGetStatus, TakeListJobs,
       EvictionTick, CancelJob, Take
  <2> QED BY <2>1 DEF Idle
<1>2. ~Work(w)
  BY DEF Work, InsertJob, UpdateNode, ScanForCompletion, ScanForPeers, AnswerPeers,
     ScanForSnapshot, NextJobShard, VisitJob, EndWalk, RetainShard, Walking
<1> QED BY <1>1, <1>2

\* Only a worker that may write a shard changes what is registered there.
LEMMA OnlyWritersChange ==
  ASSUME TypeOK, RequestInv, NEW v \in Worker, Arrive(v) \/ Work(v),
         NEW j \in Job, NEW s \in 0 .. NumShards - 1, Writers(j, s) # {}
  PROVE  /\ nodes'[j] \cap InShard(s) = nodes[j] \cap InShard(s)
         /\ \A n \in InShard(s) : bits'[j][n] = bits[j][n]
<1>1. CASE UpdateNode(v)
  <2>1. ~(task[v].job = j /\ NodeShard[task[v].node] = s)
    BY <1>1 DEF UpdateNode, Blocked, CanWrite
  <2>2. task[v].job \in Job /\ task[v].node \in Node
    BY <1>1 DEF UpdateNode, RequestInv
  <2> QED BY <1>1, <2>1, <2>2 DEF UpdateNode, TypeOK, InShard
<1>2. CASE RetainShard(v)
  <2>1. ~(task[v].job = j /\ task[v].at = s)
    BY <1>2 DEF RetainShard, Blocked, CanWrite
  <2> QED BY <1>2, <2>1 DEF RetainShard, TypeOK, InShard
<1>3. CASE UNCHANGED <<nodes, bits>>
  BY <1>3
<1>4. CASE Arrive(v)
  BY <1>3, <1>4 DEF Arrive, TakeCreateJob, TakeHeartbeat, TakeGetPeers, TakeGetStatus,
     TakeListJobs, EvictionTick, CancelJob, Take, registry
<1>5. CASE Work(v)
  BY <1>1, <1>2, <1>3, <1>5 DEF Work, InsertJob, ScanForCompletion, ScanForPeers,
     AnswerPeers, ScanForSnapshot, NextJobShard, VisitJob, EndWalk, registry
<1> QED BY <1>4, <1>5

\* Once a completion check waits for the shard it holds, it waits forever, and
\* the nodes of that shard are cut off from the tracker.
THEOREM WedgeIsForever == Spec => WedgeFreezesShard
<1> DEFINE Frozen(w) ==
      LET j == task[w].job
          S == InShard(NodeShard[task[w].node])
      IN /\ Wedged(w)'
         /\ nodes'[j] \cap S = nodes[j] \cap S
         /\ \A n \in S : bits'[j][n] = bits[j][n]
<1>1. ASSUME CompletionInv, [Next]_vars, NEW w \in Worker, Wedged(w)
      PROVE  Frozen(w)
  <2>1. TypeOK /\ RequestInv /\ CheckInv /\ task[w].op = "check"
    BY <1>1 DEF CompletionInv, Wedged
  <2>2. /\ Blocked(w) /\ task[w].job \in Job /\ task[w].node \in Node
        /\ Writers(task[w].job, NodeShard[task[w].node]) # {}
    BY <1>1, <2>1, WedgedBlocks
  <2>3. NodeShard[task[w].node] \in 0 .. NumShards - 1
    BY <2>2, ShardAssumption
  <2>4. ASSUME task'[w] = task[w] PROVE Wedged(w)'
    BY <1>1, <2>4 DEF Wedged
  <2>5. ASSUME NEW v \in Worker, Arrive(v) \/ Work(v) PROVE Frozen(w)
    <3>1. v # w
      BY <2>1, <2>2, <2>5, BlockedStays
    <3>2. task'[w] = task[w]
      BY <2>1, <2>5, <3>1, StepLeavesOthers DEF Leaves
    <3> QED BY <2>1, <2>2, <2>3, <2>4, <2>5, <3>2, OnlyWritersChange
  <2>6. CASE UNCHANGED <<nodes, bits, task>>
    BY <2>4, <2>6
  <2> QED BY <1>1, <2>5, <2>6 DEF Next, Expire, vars
<1>2. CompletionInv /\ [Next]_vars => [\A w \in Worker : Wedged(w) => Frozen(w)]_vars
  BY <1>1
<1> QED BY <1>2, CompletionInvariant, PTL DEF Spec, WedgeFreezesShard

-----------------------------------------------------------------------------
(* Peer queries                                                            *)

\* A bitmap is only kept for a registered node.
RegisteredInv == \A j \in Job, n \in Node : n \notin nodes[j] => bits[j][n] = {}

\* What a scan under way has collected: every holder so far is in ever, a node
\* that held the chunk all along still holds it, and is collected once its
\* shard is passed.
ScanInv ==
  \A w \in Worker : task[w].op = "peers" =>
    /\ task[w].found \subseteq hist[w].ever
    /\ hist[w].steady \subseteq Holders(bits, task[w].job, task[w].chunk)
    /\ Holders(bits, task[w].job, task[w].chunk) \subseteq hist[w].ever
    /\ \A n \in hist[w].steady \ {task[w].node} :
         NodeShard[n] < task[w].at => n \in task[w].found

QueryInv == RegisteredInv /\ ScanInv /\ PeerQueryRegular

\* What PeerQueryRegular says of one answer.
Regular(t, h) ==
  LET missed == h.steady \ (t.found \cup {t.node})
  IN /\ t.found \subseteq h.ever
     /\ missed # {} => Cardinality(t.found) = TopN
     /\ \A n \in missed, k \in t.found : ~Before(Rack[t.node], n, k)

LEMMA RegularAnswers ==
  PeerQueryRegular <=> \A w \in Worker : task[w].op = "answer" => Regular(task[w], hist[w])
  BY DEF PeerQueryRegular, Regular

LEMMA QueryInit == Init => QueryInv
  BY DEF Init, QueryInv, RegisteredInv, ScanInv, PeerQueryRegular, Idle

\* A step that leaves bitmaps and histories alone, of a worker that neither is
\* nor becomes a query, changes nothing for the queries.
LEMMA NoQueryStep ==
  ASSUME QueryInv, NEW w \in Worker, Leaves(w), UNCHANGED <<nodes, bits, hist>>,
         task'[w].op \notin {"peers", "answer"}
  PROVE  QueryInv'
  BY DEF QueryInv, RegisteredInv, ScanInv, PeerQueryRegular, Leaves, Holders

\* A change of bitmaps that the histories observe keeps every query regular.
LEMMA ObservedStep ==
  ASSUME TypeOK, QueryInv, NEW w \in Worker, Leaves(w), RegisteredInv',
         hist' = Observe(bits'),
         task[w].op \notin {"peers", "answer"}, task'[w].op \notin {"peers", "answer"}
  PROVE  QueryInv'
<1>1. ASSUME NEW v \in Worker, task'[v].op = "peers"
      PROVE  /\ task'[v].found \subseteq hist'[v].ever
             /\ hist'[v].steady \subseteq Holders(bits', task'[v].job, task'[v].chunk)
             /\ Holders(bits', task'[v].job, task'[v].chunk) \subseteq hist'[v].ever
             /\ \A n \in hist'[v].steady \ {task'[v].node} :
                  NodeShard[n] < task'[v].at => n \in task'[v].found
  <2>1. v # w /\ task'[v] = task[v]
    BY <1>1 DEF Leaves
  <2>2. hist'[v] = [ever |-> hist[v].ever \cup Holders(bits', task[v].job, task[v].chunk),
                    steady |-> hist[v].steady \cap Holders(bits', task[v].job, task[v].chunk)]
    BY <1>1, <2>1 DEF Observe
  <2> QED BY <1>1, <2>1, <2>2 DEF QueryInv, ScanInv
<1>2. ScanInv'
  BY <1>1 DEF ScanInv, Holders
<1>3. PeerQueryRegular'
  <2>1. ASSUME NEW v \in Worker, task'[v].op = "answer"
        PROVE  task'[v] = task[v] /\ hist'[v] = hist[v]
    BY <2>1 DEF Leaves, Observe
  <2> QED BY <2>1 DEF QueryInv, PeerQueryRegular
<1> QED BY <1>2, <1>3 DEF QueryInv

LEMMA QueryArrive ==
  ASSUME TypeOK, QueryInv, NEW w \in Worker, Arrive(w)
  PROVE  QueryInv'
<1>1. Leaves(w)
  BY StepLeavesOthers
<1>2. ASSUME UNCHANGED <<nodes, bits, hist>>, task'[w].op \notin {"peers", "answer"}
      PROVE  QueryInv'
  BY <1>1, <1>2, NoQueryStep
<1>3. CASE \E j \in Job : CancelJob(w, j)
  BY <1>2, <1>3 DEF CancelJob, Idle
<1>4. CASE \E j \in Job : TakeCreateJob(w, j)
  <2>1. UNCHANGED <<nodes, bits, hist>>
    BY <1>4 DEF TakeCreateJob, Take, registry
  <2>2. task'[w].op = "create"
    BY <1>4 DEF TakeCreateJob, Take, TypeOK, Idle
  <2> QED BY <1>2, <2>1, <2>2
<1>5. CASE \E j \in Job, n \in Node : \E B \in Reports[n] : TakeHeartbeat(w, j, n, B)
  <2>1. UNCHANGED <<nodes, bits, hist>>
    BY <1>5 DEF TakeHeartbeat, Take, registry
  <2>2. task'[w].op = "heartbeat"
    BY <1>5 DEF TakeHeartbeat, Take, TypeOK, Idle
  <2> QED BY <1>2, <2>1, <2>2
<1>6. ASSUME NEW j \in Job, NEW n \in Node, NEW c \in Chunk, TakeGetPeers(w, j, n, c)
      PROVE  QueryInv'
  <2>1. /\ task'[w].op = "peers" /\ task'[w].job = j /\ task'[w].node = n
        /\ task'[w].chunk = c /\ task'[w].at = 0 /\ task'[w].found = {}
        /\ UNCHANGED <<nodes, bits>>
    <3>1. task'[w] = [Idle EXCEPT !.op = "peers", !.job = j, !.node = n, !.chunk = c]
      BY <1>6 DEF TakeGetPeers, Take, TypeOK
    <3>2. UNCHANGED <<nodes, bits>>
      BY <1>6 DEF TakeGetPeers, Take, registry
    <3> QED BY <3>1, <3>2 DEF Idle
  <2>2. hist'[w] = [ever |-> Holders(bits, j, c), steady |-> Holders(bits, j, c)]
        /\ \A v \in Worker \ {w} : hist'[v] = hist[v]
    BY <1>6 DEF TakeGetPeers, TypeOK
  <2>3. \A m \in Node : ~(NodeShard[m] < 0)
    BY ShardAssumption
  <2>4. RegisteredInv'
    BY <2>1 DEF QueryInv, RegisteredInv
  <2>5. ASSUME NEW v \in Worker, v # w PROVE task'[v] = task[v] /\ hist'[v] = hist[v]
    BY <1>1, <2>2, <2>5 DEF Leaves
  <2>6. ScanInv'
    BY <2>1, <2>2, <2>3, <2>5 DEF QueryInv, ScanInv, Holders
  <2>7. PeerQueryRegular'
    BY <2>1, <2>5 DEF QueryInv, PeerQueryRegular
  <2> QED BY <2>4, <2>6, <2>7 DEF QueryInv
<1>7. CASE \E j \in Job : TakeGetStatus(w, j)
  <2>1. UNCHANGED <<nodes, bits, hist>>
    BY <1>7 DEF TakeGetStatus, Take, registry
  <2>2. task'[w].op = "status"
    BY <1>7 DEF TakeGetStatus, Take, TypeOK, Idle
  <2> QED BY <1>2, <2>1, <2>2
<1>8. CASE TakeListJobs(w)
  <2>1. UNCHANGED <<nodes, bits, hist>>
    BY <1>8 DEF TakeListJobs, Take, registry
  <2>2. task'[w].op = "list"
    BY <1>8 DEF TakeListJobs, Take, TypeOK, Idle
  <2> QED BY <1>2, <2>1, <2>2
<1>9. CASE EvictionTick(w)
  <2>1. UNCHANGED <<nodes, bits, hist>>
    BY <1>9 DEF EvictionTick, Take, registry
  <2>2. task'[w].op = "evict"
    BY <1>9 DEF EvictionTick, Take, TypeOK, Idle
  <2> QED BY <1>2, <2>1, <2>2
<1> QED BY <1>3, <1>4, <1>5, <1>6, <1>7, <1>8, <1>9 DEF Arrive

LEMMA QueryWork ==
  ASSUME TypeOK, RequestInv, QueryInv, NEW w \in Worker, Work(w)
  PROVE  QueryInv'
<1> DEFINE t == task[w]
<1>1. Leaves(w) /\ t \in Task
  BY StepLeavesOthers DEF TypeOK
<1>2. ASSUME UNCHANGED <<nodes, bits, hist>>, task'[w].op \notin {"peers", "answer"}
      PROVE  QueryInv'
  BY <1>1, <1>2, NoQueryStep
<1>3. CASE InsertJob(w)
  BY <1>2, <1>3 DEF InsertJob, TypeOK, Idle
<1>4. CASE UpdateNode(w)
  <2>1. task'[w] = Idle \/ task'[w] = [t EXCEPT !.op = "check", !.bits = {}]
    BY <1>4 DEF UpdateNode, TypeOK
  <2>2. task'[w].op \in {"idle", "check"}
    <3>1. task'[w] = Idle => task'[w].op = "idle"
      BY DEF Idle
    <3>2. task'[w] = [t EXCEPT !.op = "check", !.bits = {}] => task'[w].op = "check"
      BY <1>1 DEF Task
    <3> QED BY <2>1, <3>1, <3>2
  <2>3. RegisteredInv'
    BY <1>4 DEF UpdateNode, QueryInv, RegisteredInv, TypeOK
  <2> QED BY <1>1, <1>4, <2>2, <2>3, ObservedStep DEF UpdateNode
<1>5. CASE ScanForCompletion(w)
  <2>1. task'[w] = Idle \/ task'[w] = [t EXCEPT !.at = @ + 1]
    BY <1>5 DEF ScanForCompletion, TypeOK
  <2>2. task'[w].op \in {"idle", "check"}
    BY <1>1, <1>5, <2>1 DEF ScanForCompletion, Idle, Task
  <2> QED BY <1>2, <1>5, <2>2 DEF ScanForCompletion
<1>6. CASE ScanForPeers(w)
  <2> DEFINE more == CandidatesHere(t)
             H == Holders(bits, t.job, t.chunk)
  <2>1. t.op = "peers" /\ t.job \in Job /\ t.chunk \in Chunk /\ t.at \in 0 .. NumShards - 1
    BY <1>1, <1>6 DEF ScanForPeers, RequestInv, Task
  <2>2. PICK S \in SUBSET (t.found \cup more) :
          /\ IF Last(w) THEN S \in Cut(Rack[t.node], t.found \cup more) ELSE S = t.found \cup more
          /\ task' = [task EXCEPT ![w] = [t EXCEPT !.op = IF Last(w) THEN "answer" ELSE "peers",
                                                   !.at = IF Last(w) THEN 0 ELSE @ + 1,
                                                   !.found = S]]
    BY <1>6, ScanStep
  <2>3. /\ task'[w].found = S
        /\ task'[w].job = t.job /\ task'[w].node = t.node /\ task'[w].chunk = t.chunk
        /\ task'[w].op = (IF Last(w) THEN "answer" ELSE "peers")
        /\ task'[w].at = (IF Last(w) THEN 0 ELSE t.at + 1)
    <3>1. task'[w] = [t EXCEPT !.op = IF Last(w) THEN "answer" ELSE "peers",
                               !.at = IF Last(w) THEN 0 ELSE @ + 1, !.found = S]
      BY <2>2 DEF TypeOK
    <3> QED BY <1>1, <3>1 DEF Task
  <2>4. UNCHANGED <<nodes, bits, hist>>
    BY <1>6 DEF ScanForPeers
  <2>5. /\ t.found \subseteq hist[w].ever /\ hist[w].steady \subseteq H /\ H \subseteq hist[w].ever
        /\ \A n \in hist[w].steady \ {t.node} : NodeShard[n] < t.at => n \in t.found
    BY <2>1 DEF QueryInv, ScanInv
  <2>6. more \subseteq H
    BY <2>1 DEF Holders, InShard, CandidatesHere
  <2>7. ASSUME NEW n \in hist[w].steady \ {t.node}, NodeShard[n] < t.at + 1
        PROVE  n \in t.found \cup more
    <3>1. n \in Node /\ t.chunk \in bits[t.job][n]
      BY <2>5, <2>7 DEF Holders
    <3>2. n \in nodes[t.job]
      BY <2>1, <3>1 DEF QueryInv, RegisteredInv
    <3>3. NodeShard[n] \in 0 .. NumShards - 1
      BY <3>1, ShardAssumption
    <3>4. CASE NodeShard[n] < t.at
      BY <2>5, <2>7, <3>4
    <3>5. CASE NodeShard[n] = t.at
      BY <2>7, <3>1, <3>2, <3>5 DEF InShard, CandidatesHere
    <3> QED BY <2>1, <2>7, <3>3, <3>4, <3>5
  <2>8. Last(w) => \A n \in hist[w].steady \ {t.node} : n \in t.found \cup more
    <3>1. \A n \in hist[w].steady : NodeShard[n] \in 0 .. NumShards - 1
      BY <2>5, ShardAssumption DEF Holders
    <3>2. Last(w) => \A n \in hist[w].steady : NodeShard[n] < t.at + 1
      BY <2>1, <3>1, ShardRange DEF Last
    <3> QED BY <2>7, <3>2
  <2> HIDE DEF more
  <2>9. ASSUME NEW v \in Worker, v # w PROVE task'[v] = task[v]
    BY <1>1, <2>9 DEF Leaves
  <2>10. RegisteredInv'
    BY <2>4 DEF QueryInv, RegisteredInv
  <2>11. ScanInv'
    <3>1. ASSUME task'[w].op = "peers"
          PROVE  /\ S \subseteq hist[w].ever
                 /\ \A n \in hist[w].steady \ {t.node} : NodeShard[n] < t.at + 1 => n \in S
                 /\ task'[w].at = t.at + 1
      BY <2>2, <2>3, <2>5, <2>6, <2>7, <3>1
    <3> QED BY <2>3, <2>4, <2>5, <2>9, <3>1 DEF QueryInv, ScanInv, Holders
  <2>12. PeerQueryRegular'
    <3>1. ASSUME NEW v \in Worker, task'[v].op = "answer", v # w
          PROVE  Regular(task'[v], hist'[v])
      BY <2>4, <2>9, <3>1, RegularAnswers DEF QueryInv
    <3>2. ASSUME task'[w].op = "answer" PROVE Regular(task'[w], hist'[w])
      <4>1. Last(w)
        BY <2>3, <3>2
      <4> DEFINE seen == t.found \cup more
                 missed == hist[w].steady \ (S \cup {t.node})
      <4>2. S \subseteq hist[w].ever /\ missed \subseteq seen \ S
        BY <2>2, <2>5, <2>6, <2>8, <4>1
      <4>3. missed # {} => Cardinality(S) = TopN
        BY <2>2, <4>1, <4>2 DEF Cut
      <4>4. \A n \in missed, k \in S : ~Before(Rack[t.node], n, k)
        BY <2>2, <4>1, <4>2 DEF Cut
      <4> QED BY <2>3, <2>4, <4>2, <4>3, <4>4 DEF Regular
    <3>3. \A v \in Worker : task'[v].op = "answer" => Regular(task'[v], hist'[v])
      BY <3>1, <3>2
    <3> QED BY <3>3 DEF PeerQueryRegular, Regular
  <2> QED BY <2>10, <2>11, <2>12 DEF QueryInv
<1>7. CASE AnswerPeers(w)
  <2>1. task'[w].op = "idle" /\ \A v \in Worker \ {w} : task'[v] = task[v] /\ hist'[v] = hist[v]
    BY <1>7 DEF AnswerPeers, TypeOK, Idle
  <2>2. UNCHANGED <<nodes, bits>>
    BY <1>7 DEF AnswerPeers, registry
  <2>3. RegisteredInv' /\ ScanInv' /\ PeerQueryRegular'
    BY <2>1, <2>2 DEF QueryInv, RegisteredInv, ScanInv, PeerQueryRegular, Holders
  <2> QED BY <2>3 DEF QueryInv
<1>8. CASE ScanForSnapshot(w)
  <2>1. \/ task'[w] = Idle
        \/ task'[w] = [t EXCEPT !.at = @ + 1]
        \/ task'[w] = [t EXCEPT !.job = None, !.at = 0]
    BY <1>8 DEF ScanForSnapshot, TypeOK
  <2>2. task'[w].op \in {"idle", "status", "list"}
    BY <1>1, <1>8, <2>1 DEF ScanForSnapshot, Idle, Task
  <2> QED BY <1>2, <1>8, <2>2 DEF ScanForSnapshot
<1>9. CASE NextJobShard(w)
  <2>1. task'[w].op \in {"list", "evict"}
    BY <1>1, <1>9 DEF NextJobShard, Walking, TypeOK, Task
  <2> QED BY <1>2, <1>9, <2>1 DEF NextJobShard
<1>10. ASSUME NEW j \in Job, VisitJob(w, j) PROVE QueryInv'
  <2>1. task' = [task EXCEPT ![w] = [t EXCEPT !.job = j, !.todo = @ \ {j}]]
    BY <1>10 DEF VisitJob, TypeOK
  <2>2. task'[w].op \in {"list", "evict"}
    BY <1>1, <1>10, <2>1 DEF VisitJob, Walking, TypeOK, Task
  <2> QED BY <1>2, <1>10, <2>2 DEF VisitJob
<1>11. CASE EndWalk(w)
  BY <1>2, <1>11 DEF EndWalk, TypeOK, Idle
<1>12. CASE RetainShard(w)
  <2>1. task'[w] = [t EXCEPT !.job = None, !.at = 0] \/ task'[w] = [t EXCEPT !.at = @ + 1]
    BY <1>12 DEF RetainShard, TypeOK
  <2>2. t.op = "evict" /\ task'[w].op = "evict"
    BY <1>1, <1>12, <2>1 DEF RetainShard, Task
  <2>3. RegisteredInv'
    BY <1>12 DEF RetainShard, QueryInv, RegisteredInv, TypeOK
  <2> QED BY <1>1, <1>12, <2>2, <2>3, ObservedStep DEF RetainShard
<1> QED BY <1>3, <1>4, <1>5, <1>6, <1>7, <1>8, <1>9, <1>10, <1>11, <1>12 DEF Work

\* However heartbeats, evictions and queries interleave shard by shard, the
\* answer to get_peers is regular.
THEOREM PeerQueriesRegular == Spec => []PeerQueryRegular
<1>1. Init => QueryInv BY QueryInit
<1>2. CompletionInv /\ QueryInv /\ [Next]_vars => QueryInv'
  <2> SUFFICES ASSUME CompletionInv, QueryInv, [Next]_vars PROVE QueryInv'
    OBVIOUS
  <2>1. ASSUME NEW w \in Worker, Arrive(w) PROVE QueryInv'
    BY <2>1, QueryArrive DEF CompletionInv
  <2>2. ASSUME NEW w \in Worker, Work(w) PROVE QueryInv'
    BY <2>2, QueryWork DEF CompletionInv
  <2>3. ASSUME UNCHANGED <<nodes, bits, task, hist>> PROVE QueryInv'
    BY <2>3 DEF QueryInv, RegisteredInv, ScanInv, PeerQueryRegular, Holders
  <2> QED BY <2>1, <2>2, <2>3 DEF Next, Expire, vars
<1>3. QueryInv => PeerQueryRegular BY DEF QueryInv
<1> QED BY <1>1, <1>2, <1>3, CompletionInvariant, PTL DEF Spec

-----------------------------------------------------------------------------
(* Refinement                                                              *)

\* A job under creation is not there yet and is created by one worker only; a
\* job that a heartbeat names is there.
JobInv ==
  \A w \in Worker :
    /\ task[w].op = "create" =>
         /\ task[w].job \in Job /\ status[task[w].job] = "absent"
         /\ \A v \in Worker : task[v].op = "create" /\ task[v].job = task[w].job => v = w
    /\ task[w].op = "heartbeat" => status[task[w].job] # "absent"

\* A job once inserted stays.
KeepsJobs == \A j \in Job : status[j] # "absent" => status'[j] # "absent"

LEMMA JobInit == Init => JobInv
  BY DEF Init, JobInv, Idle

\* A step after which its worker neither creates nor reports.
LEMMA JobQuiet ==
  ASSUME TypeOK, RequestInv, JobInv, NEW w \in Worker, Leaves(w), KeepsJobs,
         task'[w].op \notin {"create", "heartbeat"},
         \A v \in Worker \ {w} : task[v].op = "create" =>
                                 status'[task[v].job] = status[task[v].job]
  PROVE  JobInv'
<1>1. ASSUME NEW v \in Worker, task'[v].op \in {"create", "heartbeat"}
      PROVE  v # w /\ task'[v] = task[v]
  BY <1>1 DEF Leaves
<1>2. ASSUME NEW v \in Worker, task'[v].op = "create"
      PROVE  /\ task'[v].job \in Job /\ status'[task'[v].job] = "absent"
             /\ \A u \in Worker : task'[u].op = "create" /\ task'[u].job = task'[v].job => u = v
  BY <1>1, <1>2 DEF JobInv
<1>3. ASSUME NEW v \in Worker, task'[v].op = "heartbeat" PROVE status'[task'[v].job] # "absent"
  BY <1>1, <1>3 DEF JobInv, RequestInv, KeepsJobs
<1> QED BY <1>2, <1>3 DEF JobInv

LEMMA JobArrive ==
  ASSUME TypeOK, RequestInv, JobInv, NEW w \in Worker, Arrive(w)
  PROVE  JobInv'
<1>1. Leaves(w)
  BY StepLeavesOthers
<1>2. ASSUME NEW j \in Job, TakeCreateJob(w, j) PROVE JobInv'
  <2>1. task'[w].op = "create" /\ task'[w].job = j
    BY <1>2 DEF TakeCreateJob, Take, TypeOK, Idle
  <2>2. UNCHANGED status /\ status[j] = "absent"
        /\ \A v \in Worker : task[v].op = "create" => task[v].job # j
    BY <1>2 DEF TakeCreateJob, Take, registry
  <2>3. \A v \in Worker : v # w => task'[v] = task[v]
    BY <1>1 DEF Leaves
  <2> QED BY <2>1, <2>2, <2>3 DEF JobInv
<1>3. ASSUME NEW j \in Job, NEW n \in Node, NEW B \in Reports[n], TakeHeartbeat(w, j, n, B)
      PROVE  JobInv'
  <2>1. task'[w].op = "heartbeat" /\ task'[w].job = j
    BY <1>3 DEF TakeHeartbeat, Take, TypeOK, Idle
  <2>2. UNCHANGED status /\ status[j] # "absent"
    BY <1>3 DEF TakeHeartbeat, Take, registry
  <2>3. \A v \in Worker : v # w => task'[v] = task[v]
    BY <1>1 DEF Leaves
  <2> QED BY <2>1, <2>2, <2>3 DEF JobInv
<1>4. ASSUME UNCHANGED status, task'[w].op \notin {"create", "heartbeat"} PROVE JobInv'
  BY <1>1, <1>4, JobQuiet DEF KeepsJobs
<1>5. CASE \E j \in Job, n \in Node, c \in Chunk : TakeGetPeers(w, j, n, c)
  BY <1>4, <1>5 DEF TakeGetPeers, Take, TypeOK, Idle, registry
<1>6. CASE \E j \in Job : TakeGetStatus(w, j)
  BY <1>4, <1>6 DEF TakeGetStatus, Take, TypeOK, Idle, registry
<1>7. CASE TakeListJobs(w)
  BY <1>4, <1>7 DEF TakeListJobs, Take, TypeOK, Idle, registry
<1>8. CASE EvictionTick(w)
  BY <1>4, <1>8 DEF EvictionTick, Take, TypeOK, Idle, registry
<1>9. ASSUME NEW j \in Job, CancelJob(w, j) PROVE JobInv'
  <2>1. status[j] # "absent" /\ status' = [status EXCEPT ![j] = "Cancelled"] /\ task' = task
        /\ task[w].op = "idle"
    BY <1>9 DEF CancelJob, Idle
  <2>2. KeepsJobs
    BY <2>1 DEF KeepsJobs, TypeOK
  <2>3. ASSUME NEW v \in Worker, task[v].op = "create"
        PROVE  status'[task[v].job] = status[task[v].job]
    <3>1. task[v].job \in Job /\ task[v].job # j
      BY <2>1, <2>3 DEF JobInv
    <3> QED BY <2>1, <3>1 DEF TypeOK
  <2>4. task'[w].op \notin {"create", "heartbeat"}
    BY <2>1
  <2> QED BY <1>1, <2>2, <2>3, <2>4, JobQuiet
<1> QED BY <1>2, <1>3, <1>5, <1>6, <1>7, <1>8, <1>9 DEF Arrive

LEMMA JobWork ==
  ASSUME TypeOK, RequestInv, CheckInv, JobInv, NEW w \in Worker, Work(w)
  PROVE  JobInv'
<1>1. Leaves(w) /\ task[w] \in Task
  BY StepLeavesOthers DEF TypeOK
<1>2. CASE InsertJob(w)
  <2>1. task[w].op = "create" /\ task'[w].op = "idle"
        /\ status' = [status EXCEPT ![task[w].job] = "Running"]
    BY <1>2 DEF InsertJob, TypeOK, Idle
  <2>2. KeepsJobs
    BY <2>1 DEF KeepsJobs, TypeOK
  <2>3. \A v \in Worker \ {w} : task[v].op = "create" => task[v].job # task[w].job
    BY <2>1 DEF JobInv
  <2> QED BY <1>1, <2>1, <2>2, <2>3, JobQuiet DEF TypeOK
<1>3. ASSUME UNCHANGED status, task'[w].op \notin {"create", "heartbeat"} PROVE JobInv'
  BY <1>1, <1>3, JobQuiet DEF KeepsJobs
<1>4. CASE UpdateNode(w)
  BY <1>1, <1>3, <1>4 DEF UpdateNode, TypeOK, Idle, Task
<1>5. CASE ScanForCompletion(w)
  <2>1. UNCHANGED status
    BY <1>5, CheckNotLast DEF ScanForCompletion
  <2> QED BY <1>1, <1>3, <1>5, <2>1 DEF ScanForCompletion, TypeOK, Idle, Task
<1>6. CASE ScanForPeers(w)
  <2>1. task'[w].op \in {"peers", "answer"}
    BY <1>1, <1>6 DEF ScanForPeers, TypeOK, Task
  <2> QED BY <1>3, <1>6, <2>1 DEF ScanForPeers
<1>7. CASE AnswerPeers(w)
  BY <1>3, <1>7 DEF AnswerPeers, TypeOK, Idle, registry
<1>8. CASE ScanForSnapshot(w)
  <2>1. task'[w].op \in {"idle", "status", "list"}
    BY <1>1, <1>8 DEF ScanForSnapshot, TypeOK, Task, Idle
  <2> QED BY <1>3, <1>8, <2>1 DEF ScanForSnapshot
<1>9. CASE NextJobShard(w)
  <2>1. task'[w].op \in {"list", "evict"}
    BY <1>1, <1>9 DEF NextJobShard, Walking, TypeOK, Task
  <2> QED BY <1>3, <1>9, <2>1 DEF NextJobShard
<1>10. ASSUME NEW j \in Job, VisitJob(w, j) PROVE JobInv'
  <2>1. task' = [task EXCEPT ![w] = [task[w] EXCEPT !.job = j, !.todo = @ \ {j}]]
    BY <1>10 DEF VisitJob, TypeOK
  <2>2. task'[w].op \in {"list", "evict"}
    BY <1>1, <1>10, <2>1 DEF VisitJob, Walking, TypeOK, Task
  <2> QED BY <1>3, <1>10, <2>2 DEF VisitJob
<1>11. CASE EndWalk(w)
  BY <1>3, <1>11 DEF EndWalk, TypeOK, Idle
<1>12. CASE RetainShard(w)
  <2>1. task'[w].op = "evict"
    BY <1>1, <1>12 DEF RetainShard, TypeOK, Task
  <2> QED BY <1>3, <1>12, <2>1 DEF RetainShard
<1> QED BY <1>2, <1>4, <1>5, <1>6, <1>7, <1>8, <1>9, <1>10, <1>11, <1>12 DEF Work

LEMMA JobInvariant == Spec => []JobInv
<1>1. Init => JobInv BY JobInit
<1>2. CompletionInv /\ JobInv /\ [Next]_vars => JobInv'
  <2> SUFFICES ASSUME CompletionInv, JobInv, [Next]_vars PROVE JobInv'
    OBVIOUS
  <2>1. ASSUME NEW w \in Worker, Arrive(w) PROVE JobInv'
    BY <2>1, JobArrive DEF CompletionInv
  <2>2. ASSUME NEW w \in Worker, Work(w) PROVE JobInv'
    BY <2>2, JobWork DEF CompletionInv
  <2>3. ASSUME UNCHANGED <<status, task>> PROVE JobInv'
    BY <2>3 DEF JobInv
  <2> QED BY <2>1, <2>2, <2>3 DEF Next, Expire, vars
<1> QED BY <1>1, <1>2, CompletionInvariant, PTL DEF Spec

\* Every step of a worker is one operation of the registry or none.
LEMMA StepImplements ==
  ASSUME CompletionInv, JobInv, [Next]_vars
  PROVE  [R!Next]_(R!vars)
<1> USE DEF R!vars
<1>1. ASSUME UNCHANGED registry PROVE [R!Next]_(R!vars)
  BY <1>1 DEF registry
<1>2. ASSUME NEW w \in Worker, Arrive(w) PROVE [R!Next]_(R!vars)
  <2>1. ASSUME NEW j \in Job, CancelJob(w, j) PROVE R!Next
    BY <2>1 DEF CancelJob, R!Next, R!Cancel
  <2> QED BY <1>1, <1>2, <2>1 DEF Arrive, TakeCreateJob, TakeHeartbeat, TakeGetPeers,
             TakeGetStatus, TakeListJobs, EvictionTick, Take
<1>3. ASSUME NEW w \in Worker, Work(w) PROVE [R!Next]_(R!vars)
  <2>1. TypeOK /\ RequestInv /\ CheckInv /\ task[w] \in Task
    BY DEF CompletionInv, TypeOK
  <2>2. CASE InsertJob(w)
    <3>1. R!Create(task[w].job) /\ task[w].job \in Job
      BY <2>2 DEF InsertJob, JobInv, R!Create
    <3> QED BY <3>1 DEF R!Next
  <2>3. CASE UpdateNode(w)
    <3>1. /\ task[w].job \in Job /\ task[w].node \in Node /\ task[w].bits \in SUBSET Chunk
          /\ status[task[w].job] # "absent"
      BY <2>1, <2>3 DEF UpdateNode, RequestInv, JobInv, Task
    <3>2. R!Report(task[w].job, task[w].node, task[w].bits)
      BY <2>3, <3>1 DEF UpdateNode, R!Report
    <3> QED BY <3>1, <3>2 DEF R!Next
  <2>4. CASE ScanForCompletion(w)
    BY <1>1, <2>1, <2>4, CheckNotLast DEF ScanForCompletion, registry
  <2>5. CASE RetainShard(w)
    <3> DEFINE j == task[w].job
               S == stale[j] \cap InShard(task[w].at)
    <3>1. j \in Job /\ S \in SUBSET Node
      BY <2>1, <2>5 DEF RetainShard, Task, InShard
    <3>2. CASE S = {}
      <4>1. nodes' = nodes /\ stale' = stale /\ bits' = bits /\ status' = status
        BY <2>1, <2>5, <3>1, <3>2 DEF RetainShard, TypeOK
      <4> QED BY <1>1, <4>1 DEF registry
    <3>3. CASE S # {}
      <4>1. R!Evict(j, S)
        BY <2>5, <3>3 DEF RetainShard, R!Evict
      <4> QED BY <3>1, <4>1 DEF R!Next
    <3> QED BY <3>2, <3>3
  <2> QED BY <1>1, <1>3, <2>2, <2>3, <2>4, <2>5 DEF Work, ScanForPeers, AnswerPeers,
             ScanForSnapshot, NextJobShard, VisitJob, EndWalk, registry
<1>4. ASSUME NEW j \in Job, NEW n \in Node, Expire(j, n) PROVE R!Next
  BY <1>4 DEF Expire, R!Next, R!Expire
<1>5. CASE UNCHANGED vars
  BY <1>1, <1>5 DEF vars, registry
<1> QED BY <1>2, <1>3, <1>4, <1>5 DEF Next

\* The tracker with its locks, partial scans and sweeps shard by shard implements
\* the registry whose operations are atomic.
THEOREM TrackerImplementsRegistry == Spec => ImplementsRegistry
<1>1. Init => R!Init
  BY DEF Init, R!Init
<1>2. CompletionInv /\ JobInv /\ [Next]_vars => [R!Next]_(R!vars)
  BY StepImplements
<1> QED BY <1>1, <1>2, CompletionInvariant, JobInvariant, PTL DEF Spec, R!Spec, ImplementsRegistry

\* Nothing overwrites Cancelled: a new job was never there, and no completion check
\* gets as far as its write.
THEOREM CancelledForGood == Spec => CancelSticks
<1>1. ASSUME CompletionInv, JobInv, [Next]_vars, NEW j \in Job, status[j] = "Cancelled"
      PROVE  status'[j] = "Cancelled"
  <2>1. TypeOK /\ CheckInv /\ status \in [Job -> JobStatus]
    BY <1>1 DEF CompletionInv, TypeOK
  <2>2. ASSUME NEW w \in Worker, InsertJob(w) PROVE status'[j] = "Cancelled"
    BY <1>1, <2>1, <2>2 DEF InsertJob, JobInv
  <2>3. ASSUME NEW w \in Worker, ScanForCompletion(w) PROVE status' = status
    BY <2>1, <2>3, CheckNotLast DEF ScanForCompletion
  <2>4. ASSUME NEW w \in Worker, NEW i \in Job, CancelJob(w, i) PROVE status'[j] = "Cancelled"
    BY <1>1, <2>1, <2>4 DEF CancelJob
  <2>5. CASE status' = status
    BY <1>1, <2>5
  <2>6. QED
    BY <1>1, <2>2, <2>3, <2>4, <2>5
       DEF Next, Arrive, Work, TakeCreateJob, TakeHeartbeat, TakeGetPeers, TakeGetStatus,
           TakeListJobs, EvictionTick, Take, UpdateNode, ScanForPeers, AnswerPeers,
           ScanForSnapshot, NextJobShard, VisitJob, EndWalk, RetainShard, Expire, vars, registry
<1>2. CompletionInv /\ JobInv /\ [Next]_vars
        => [\A j \in Job : status[j] = "Cancelled" => status'[j] = "Cancelled"]_vars
  BY <1>1
<1> QED BY <1>2, CompletionInvariant, JobInvariant, PTL DEF Spec, CancelSticks

\* The next shard of a walk, within a job or from job to job, and the end of a job.
LEMMA NextIsNearer ==
  ASSUME NEW t \in Task
  PROVE  /\ Nearer(t, [t EXCEPT !.at = @ + 1])
         /\ \A T : Nearer(t, [t EXCEPT !.walk = @ + 1, !.todo = T])
         /\ t.job # None => Nearer(t, [t EXCEPT !.job = None, !.at = 0])
<1>1. t.at \in Int /\ t.walk \in Int
  BY ShardRange DEF Task
<1>2. Nearer(t, [t EXCEPT !.at = @ + 1])
  <2> DEFINE u == [t EXCEPT !.at = @ + 1]
  <2>1. u.at = t.at + 1 /\ u.walk = t.walk /\ u.todo = t.todo /\ u.job = t.job /\ u.op = t.op
    BY DEF Task
  <2> HIDE DEF u
  <2>2. Nearer(t, u)
    BY <1>1, <2>1 DEF Nearer
  <2> QED BY <2>2 DEF u
<1>3. ASSUME NEW T PROVE Nearer(t, [t EXCEPT !.walk = @ + 1, !.todo = T])
  <2> DEFINE u == [t EXCEPT !.walk = @ + 1, !.todo = T]
  <2>1. u.walk = t.walk + 1
    BY DEF Task
  <2> HIDE DEF u
  <2>2. Nearer(t, u)
    BY <1>1, <2>1 DEF Nearer
  <2> QED BY <2>2 DEF u
<1>4. ASSUME t.job # None PROVE Nearer(t, [t EXCEPT !.job = None, !.at = 0])
  <2> DEFINE u == [t EXCEPT !.job = None, !.at = 0]
  <2>1. u.job = None /\ u.walk = t.walk /\ u.todo = t.todo
    BY DEF Task
  <2> HIDE DEF u
  <2>2. Nearer(t, u)
    BY <1>4, <2>1 DEF Nearer
  <2> QED BY <2>2 DEF u
<1> QED BY <1>2, <1>3, <1>4

\* A step of a worker brings its own request on.
LEMMA WorkIsNearer ==
  ASSUME TypeOK, NEW w \in Worker, Work(w)
  PROVE  Nearer(task[w], task'[w])
<1> DEFINE t == task[w]
<1>1. /\ t \in Task /\ t.at \in Int /\ t.walk \in Int /\ t.todo \subseteq Job
      /\ \A u : task' = [task EXCEPT ![w] = u] => task'[w] = u
  BY ShardRange DEF TypeOK, Task
<1>2. CASE InsertJob(w) \/ AnswerPeers(w) \/ EndWalk(w)
  BY <1>1, <1>2 DEF InsertJob, AnswerPeers, EndWalk, Nearer
<1>3. CASE UpdateNode(w)
  <2> DEFINE u == [t EXCEPT !.op = "check", !.bits = {}]
  <2>1. t.op = "heartbeat" /\ (task'[w] = Idle \/ task'[w] = u)
    BY <1>1, <1>3 DEF UpdateNode
  <2>2. u.op = "check" /\ u.walk = t.walk /\ u.todo = t.todo
    BY <1>1 DEF Task
  <2> HIDE DEF u
  <2> QED BY <1>1, <2>1, <2>2 DEF Nearer
<1>4. CASE ScanForCompletion(w)
  <2>1. task'[w] = Idle \/ task'[w] = [t EXCEPT !.at = @ + 1]
    BY <1>1, <1>4 DEF ScanForCompletion
  <2>2. Nearer(t, Idle)
    BY DEF Nearer
  <2> QED BY <1>1, <2>1, <2>2, NextIsNearer
<1>5. CASE ScanForPeers(w)
  <2>1. PICK S : task' = [task EXCEPT ![w] =
                   [t EXCEPT !.op = IF Last(w) THEN "answer" ELSE "peers",
                             !.at = IF Last(w) THEN 0 ELSE @ + 1, !.found = S]]
    BY <1>5, ScanStep
  <2> DEFINE u == [t EXCEPT !.op = IF Last(w) THEN "answer" ELSE "peers",
                            !.at = IF Last(w) THEN 0 ELSE @ + 1, !.found = S]
  <2>2. t.op = "peers" /\ task'[w] = u
    BY <1>1, <1>5, <2>1 DEF ScanForPeers
  <2>3. /\ u.walk = t.walk /\ u.todo = t.todo /\ u.job = t.job
        /\ u.op = IF Last(w) THEN "answer" ELSE "peers"
        /\ u.at = IF Last(w) THEN 0 ELSE t.at + 1
    BY <1>1 DEF Task
  <2> HIDE DEF u
  <2> QED BY <1>1, <2>2, <2>3 DEF Nearer
<1>6. CASE ScanForSnapshot(w)
  <2>1. /\ t.job # None
        /\ \/ task'[w] = Idle
           \/ task'[w] = [t EXCEPT !.at = @ + 1]
           \/ task'[w] = [t EXCEPT !.job = None, !.at = 0]
    BY <1>1, <1>6 DEF ScanForSnapshot
  <2>2. Nearer(t, Idle)
    BY DEF Nearer
  <2> QED BY <1>1, <2>1, <2>2, NextIsNearer
<1>7. CASE NextJobShard(w)
  <2> DEFINE here == {j \in Job : status[j] # "absent" /\ JobShard[j] = t.walk}
  <2>1. task'[w] = [t EXCEPT !.walk = @ + 1, !.todo = here]
    BY <1>1, <1>7 DEF NextJobShard
  <2> HIDE DEF here
  <2>2. Nearer(t, [t EXCEPT !.walk = @ + 1, !.todo = here])
    <3> HIDE DEF t
    <3> QED BY <1>1, NextIsNearer
  <2> QED BY <2>1, <2>2
<1>8. ASSUME NEW j \in Job, VisitJob(w, j) PROVE Nearer(t, task'[w])
  <2>1. j \in t.todo /\ task' = [task EXCEPT ![w].job = j, ![w].todo = @ \ {j}]
    BY <1>8 DEF VisitJob
  <2>2. task'[w].walk = t.walk /\ task'[w].todo = t.todo \ {j}
    BY <1>1, <2>1 DEF TypeOK, Task
  <2> QED BY <2>1, <2>2 DEF Nearer
<1>9. CASE RetainShard(w)
  <2>1. /\ t.job # None
        /\ \/ task'[w] = [t EXCEPT !.at = @ + 1]
           \/ task'[w] = [t EXCEPT !.job = None, !.at = 0]
    BY <1>1, <1>9 DEF RetainShard
  <2> QED BY <1>1, <2>1, NextIsNearer
<1> QED BY <1>2, <1>3, <1>4, <1>5, <1>6, <1>7, <1>8, <1>9 DEF Work

\* Every request is a finite walk: with NoOtherDeadlock, that some worker can go on
\* while no completion check runs, this is the safety half of Drains.
THEOREM EveryRequestAdvances == Spec => RequestsAdvance
<1>1. ASSUME TypeOK, [Next]_vars, NEW w \in Worker, task[w] # Idle
      PROVE  task'[w] = task[w] \/ Nearer(task[w], task'[w])
  <2>1. ASSUME NEW v \in Worker, Arrive(v) PROVE task'[w] = task[w]
    <3>1. CASE task' = task
      BY <3>1
    <3>2. CASE task' # task
      <4>1. task[v] = Idle
        BY <2>1, <3>2 DEF Arrive, TakeCreateJob, TakeHeartbeat, TakeGetPeers, TakeGetStatus,
                          TakeListJobs, EvictionTick, CancelJob, Take
      <4>2. v # w
        BY <1>1, <4>1
      <4> QED BY <1>1, <2>1, <4>2, StepLeavesOthers DEF Leaves
    <3> QED BY <3>1, <3>2
  <2>2. ASSUME NEW v \in Worker, Work(v) PROVE task'[w] = task[w] \/ Nearer(task[w], task'[w])
    <3>1. CASE v = w
      BY <1>1, <2>2, <3>1, WorkIsNearer
    <3>2. CASE v # w
      BY <1>1, <2>2, <3>2, StepLeavesOthers DEF Leaves
    <3> QED BY <3>1, <3>2
  <2> QED BY <1>1, <2>1, <2>2 DEF Next, Expire, vars
<1>2. TypeOK /\ [Next]_vars =>
        [\A w \in Worker : task[w] # Idle =>
           task'[w] = task[w] \/ Nearer(task[w], task'[w])]_vars
  BY <1>1
<1> QED BY <1>2, TypeCorrect, PTL DEF Spec, RequestsAdvance
=============================================================================
