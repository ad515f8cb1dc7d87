-------------------------------- MODULE Tracker --------------------------------
(***************************************************************************)
(* The tracker's registry at the granularity of its locks                  *)
(* (src/src/tracker/mod.rs, scheduler.rs, server.rs).                      *)
(*                                                                         *)
(* Every handler runs without an await, so the actors are the tokio worker *)
(* threads: a worker takes one request, or the eviction tick, and works on *)
(* it until it is done, blocking its thread on the locks it meets.  A      *)
(* DashMap is NumShards shards, each under a read-write lock:              *)
(*   - entry() keeps the WRITE lock of the key's shard while the returned  *)
(*     guard lives,                                                        *)
(*   - iter() visits the shards in order and takes the READ lock of the    *)
(*     next before it drops the one it holds,                              *)
(*   - retain() write-locks one shard at a time, insert() one shard.       *)
(* Who holds a lock follows from where each worker stands, so no variable  *)
(* records it.  The lock of one NodeState is only taken under its shard's  *)
(* lock and adds no interleaving.                                          *)
(***************************************************************************)
EXTENDS Integers, FiniteSets, Scheduler

CONSTANTS
  Job, Node, Chunk, Worker,
  Reports,     \* per node, the bitmaps its heartbeats may carry
  NumShards,   \* shards of a DashMap
  JobShard,    \* the shard of Tracker::jobs that holds a job
  NodeShard,   \* the shard of Job::nodes that holds a node
  None

ASSUME ShardAssumption ==
  /\ NumShards \in Nat \ {0}
  /\ JobShard \in [Job -> 0 .. NumShards - 1]
  /\ NodeShard \in [Node -> 0 .. NumShards - 1]

ASSUME ReportAssumption == Reports \in [Node -> SUBSET SUBSET Chunk]

ASSUME NoneAssumption == None \notin Job \cup Node \cup Chunk

VARIABLES
  status,   \* Job::status; "absent" before create_job inserts the job
  nodes,    \* the keys of Job::nodes
  bits,     \* NodeState::bitmap, {} for a node that is not registered
  stale,    \* the nodes for which NodeState::is_stale(60) holds
  task,     \* what every worker thread is doing
  hist      \* per peer query, the holders seen since it began (read by a property only)

registry == <<status, nodes, bits, stale>>
vars == <<status, nodes, bits, stale, task, hist>>

JobStatus == {"absent", "Running", "Complete", "Cancelled"}

Ops == {"idle", "create", "heartbeat", "check", "peers", "answer",
        "status", "list", "evict"}

Task == [op    : Ops,
         job   : Job \cup {None},
         node  : Node \cup {None},     \* the reporting or the asking node
         bits  : SUBSET Chunk,         \* the reported bitmap
         chunk : Chunk \cup {None},    \* the chunk asked for
         at    : 0 .. NumShards - 1,   \* shards of Job::nodes already passed
         walk  : 0 .. NumShards,       \* shards of Tracker::jobs already entered
         todo  : SUBSET Job,           \* jobs of the current shard still to visit
         found : SUBSET Node]          \* the candidates collected so far

Idle == [op |-> "idle", job |-> None, node |-> None, bits |-> {}, chunk |-> None,
         at |-> 0, walk |-> 0, todo |-> {}, found |-> {}]

NoHist == [ever |-> {}, steady |-> {}]

\* Types: no thread's counter leaves the shards and jobs that its request walks over.
TypeOK ==
  /\ status \in [Job -> JobStatus]
  /\ nodes \in [Job -> SUBSET Node]
  /\ bits \in [Job -> [Node -> SUBSET Chunk]]
  /\ stale \in [Job -> SUBSET Node]
  /\ task \in [Worker -> Task]
  /\ hist \in [Worker -> [ever : SUBSET Node, steady : SUBSET Node]]

Init ==
  /\ status = [j \in Job |-> "absent"]
  /\ nodes = [j \in Job |-> {}]
  /\ bits = [j \in Job |-> [n \in Node |-> {}]]
  /\ stale = [j \in Job |-> {}]
  /\ task = [w \in Worker |-> Idle]
  /\ hist = [w \in Worker |-> NoHist]

-----------------------------------------------------------------------------
(* The locks, derived from the positions of the workers *)

InShard(s) == {n \in Node : NodeShard[n] = s}

\* Mutant: the entry is released before the completion check.
WritersReleased(j, s) == {}

\* Mutant: a peer query keeps the asker's entry, as if to touch it.
WritersOfQueries(j, s) ==
  {w \in Worker : /\ task[w].op \in {"check", "peers"}
                  /\ task[w].job = j
                  /\ NodeShard[task[w].node] = s}

\* update_node checks completion with the reporter's entry still held.
Writers(j, s) ==
  {w \in Worker : /\ task[w].op = "check"
                  /\ task[w].job = j
                  /\ NodeShard[task[w].node] = s}

\* An iterator past shard s, and not past the next, still holds s.
Readers(j, s) ==
  {w \in Worker : /\ task[w].op \in {"check", "peers", "status", "list"}
                  /\ task[w].job = j
                  /\ task[w].at = s + 1}

\* A walk over Tracker::jobs holds the shard whose jobs it visits.
JobReaders(s) ==
  {w \in Worker : task[w].op \in {"list", "evict"} /\ task[w].walk = s + 1}

CanRead(j, s) == Writers(j, s) = {}
CanWrite(j, s) == Writers(j, s) = {} /\ Readers(j, s) = {}

\* The worker's thread sleeps on a lock.
Blocked(w) ==
  LET t == task[w] IN
  \/ t.op = "create" /\ JobReaders(JobShard[t.job]) # {}
  \/ t.op = "heartbeat" /\ ~CanWrite(t.job, NodeShard[t.node])
  \/ t.op \in {"check", "peers", "status"} /\ ~CanRead(t.job, t.at)
  \/ t.op = "list" /\ t.job # None /\ ~CanRead(t.job, t.at)
  \/ t.op = "evict" /\ t.job # None /\ ~CanWrite(t.job, t.at)

\* Mutant: one shard too many.
LastLate(w) == task[w].at = NumShards

Last(w) == task[w].at + 1 = NumShards

-----------------------------------------------------------------------------
(* server.rs: a worker takes a request.  A request for an unknown job is   *)
(* answered with an error and changes nothing.                             *)

Take(w, t) ==
  /\ task[w] = Idle
  /\ task' = [task EXCEPT ![w] = t]
  /\ UNCHANGED registry

\* The id is a fresh UUID.
TakeCreateJob(w, j) ==
  /\ status[j] = "absent"
  /\ \A v \in Worker : task[v].op = "create" => task[v].job # j
  /\ Take(w, [Idle EXCEPT !.op = "create", !.job = j])
  /\ UNCHANGED hist

TakeHeartbeat(w, j, n, B) ==
  /\ status[j] # "absent"
  /\ Take(w, [Idle EXCEPT !.op = "heartbeat", !.job = j, !.node = n, !.bits = B])
  /\ UNCHANGED hist

Holders(B, j, c) == {n \in Node : c \in B[j][n]}

TakeGetPeers(w, j, n, c) ==
  /\ status[j] # "absent"
  /\ Take(w, [Idle EXCEPT !.op = "peers", !.job = j, !.node = n, !.chunk = c])
  /\ hist' = [hist EXCEPT ![w] = [ever |-> Holders(bits, j, c),
                                  steady |-> Holders(bits, j, c)]]

TakeGetStatus(w, j) ==
  /\ status[j] # "absent"
  /\ Take(w, [Idle EXCEPT !.op = "status", !.job = j])
  /\ UNCHANGED hist

TakeListJobs(w) ==
  /\ Take(w, [Idle EXCEPT !.op = "list"])
  /\ UNCHANGED hist

\* One background task runs the passes, one after the other.
EvictionTick(w) ==
  /\ \A v \in Worker : task[v].op # "evict"
  /\ Take(w, [Idle EXCEPT !.op = "evict"])
  /\ UNCHANGED hist

CancelJob(w, j) ==
  /\ task[w] = Idle
  /\ status[j] # "absent"
  /\ status' = [status EXCEPT ![j] = "Cancelled"]
  /\ UNCHANGED <<nodes, bits, stale, task, hist>>

-----------------------------------------------------------------------------
(* tracker/mod.rs *)

\* What a running query can have seen, once the bitmaps are B.
Observe(B) ==
  [w \in Worker |->
    IF task[w].op = "peers"
      THEN LET H == Holders(B, task[w].job, task[w].chunk)
           IN [ever |-> hist[w].ever \cup H, steady |-> hist[w].steady \cap H]
      ELSE hist[w]]

InsertJob(w) ==
  LET t == task[w] IN
  /\ t.op = "create" /\ ~Blocked(w)
  /\ status' = [status EXCEPT ![t.job] = "Running"]
  /\ task' = [task EXCEPT ![w] = Idle]
  /\ UNCHANGED <<nodes, bits, stale, hist>>

\* update_node up to the completion check, which a full bitmap starts.
UpdateNode(w) ==
  LET t == task[w] IN
  /\ t.op = "heartbeat" /\ ~Blocked(w)
  /\ nodes' = [nodes EXCEPT ![t.job] = @ \cup {t.node}]
  /\ bits' = [bits EXCEPT ![t.job][t.node] = t.bits]
  /\ stale' = [stale EXCEPT ![t.job] = @ \ {t.node}]
  /\ task' = [task EXCEPT ![w] =
                IF t.bits = Chunk THEN [t EXCEPT !.op = "check", !.bits = {}] ELSE Idle]
  /\ hist' = Observe(bits')
  /\ UNCHANGED status

Incomplete(j, s) == {n \in nodes[j] \cap InShard(s) : bits[j][n] # Chunk}

\* One shard of nodes.iter().all(is_complete), the entry still held.
ScanForCompletion(w) ==
  LET t == task[w]
      stop == Incomplete(t.job, t.at) # {}
  IN
  /\ t.op = "check" /\ ~Blocked(w)
  /\ task' = [task EXCEPT ![w] =
                IF stop \/ Last(w) THEN Idle ELSE [t EXCEPT !.at = @ + 1]]
  /\ status' = IF ~stop /\ Last(w)
                 THEN [status EXCEPT ![t.job] = "Complete"] ELSE status
  /\ UNCHANGED <<nodes, bits, stale, hist>>

\* The candidates in the shard that a query has come to.
CandidatesHere(t) ==
  {n \in (nodes[t.job] \cap InShard(t.at)) \ {t.node} : t.chunk \in bits[t.job][n]}

\* Mutant: the scan stops at the first shard that has a candidate.
ScanForFirstPeers(w) ==
  LET t    == task[w]
      seen == t.found \cup CandidatesHere(t)
      stop == Last(w) \/ seen # {}
  IN
  /\ t.op = "peers" /\ ~Blocked(w)
  /\ \E S \in (IF stop THEN Cut(Rack[t.node], seen) ELSE {seen}) :
       task' = [task EXCEPT ![w] =
         [t EXCEPT !.op = IF stop THEN "answer" ELSE "peers",
                   !.at = IF stop THEN 0 ELSE @ + 1, !.found = S]]
  /\ UNCHANGED <<status, nodes, bits, stale, hist>>

\* One shard of the scheduler's scan for holders of the chunk; after the last, what was
\* collected is sorted and cut.
ScanForPeers(w) ==
  LET t    == task[w]
      seen == t.found \cup CandidatesHere(t)
  IN
  /\ t.op = "peers" /\ ~Blocked(w)
  /\ \E S \in (IF Last(w) THEN Cut(Rack[t.node], seen) ELSE {seen}) :
       task' = [task EXCEPT ![w] =
         [t EXCEPT !.op = IF Last(w) THEN "answer" ELSE "peers",
                   !.at = IF Last(w) THEN 0 ELSE @ + 1, !.found = S]]
  /\ UNCHANGED <<status, nodes, bits, stale, hist>>

\* The response is written with no lock held.
AnswerPeers(w) ==
  /\ task[w].op = "answer"
  /\ task' = [task EXCEPT ![w] = Idle]
  /\ hist' = [hist EXCEPT ![w] = NoHist]
  /\ UNCHANGED registry

\* One shard of Job::snapshot, for a status request or a visit of a list.
ScanForSnapshot(w) ==
  LET t == task[w] IN
  /\ t.op \in {"status", "list"} /\ t.job # None /\ ~Blocked(w)
  /\ task' = [task EXCEPT ![w] =
       IF ~Last(w) THEN [t EXCEPT !.at = @ + 1]
       ELSE IF t.op = "status" THEN Idle
       ELSE [t EXCEPT !.job = None, !.at = 0]]
  /\ UNCHANGED <<status, nodes, bits, stale, hist>>

Walking(w) == task[w].op \in {"list", "evict"} /\ task[w].job = None

\* The walks over Tracker::jobs: a job inserted in a shard not yet entered
\* is visited too.
NextJobShard(w) ==
  LET t == task[w] IN
  /\ Walking(w) /\ t.todo = {} /\ t.walk < NumShards
  /\ task' = [task EXCEPT ![w] =
       [t EXCEPT !.walk = @ + 1,
                 !.todo = {j \in Job : status[j] # "absent" /\ JobShard[j] = t.walk}]]
  /\ UNCHANGED <<status, nodes, bits, stale, hist>>

\* Mutant: a job that was visited is not crossed off.
VisitJobAgain(w, j) ==
  /\ Walking(w) /\ j \in task[w].todo
  /\ task' = [task EXCEPT ![w].job = j]
  /\ UNCHANGED <<status, nodes, bits, stale, hist>>

VisitJob(w, j) ==
  /\ Walking(w) /\ j \in task[w].todo
  /\ task' = [task EXCEPT ![w].job = j, ![w].todo = @ \ {j}]
  /\ UNCHANGED <<status, nodes, bits, stale, hist>>

EndWalk(w) ==
  /\ Walking(w) /\ task[w].todo = {} /\ task[w].walk = NumShards
  /\ task' = [task EXCEPT ![w] = Idle]
  /\ UNCHANGED <<status, nodes, bits, stale, hist>>

\* One shard of nodes.retain(|ns| !ns.is_stale(60)).
RetainShard(w) ==
  LET t == task[w]
      gone == stale[t.job] \cap InShard(t.at)
  IN
  /\ t.op = "evict" /\ t.job # None /\ ~Blocked(w)
  /\ nodes' = [nodes EXCEPT ![t.job] = @ \ gone]
  /\ bits' = [bits EXCEPT ![t.job] = [n \in Node |-> IF n \in gone THEN {} ELSE @[n]]]
  /\ stale' = [stale EXCEPT ![t.job] = @ \ gone]
  /\ task' = [task EXCEPT ![w] =
       IF Last(w) THEN [t EXCEPT !.job = None, !.at = 0] ELSE [t EXCEPT !.at = @ + 1]]
  /\ hist' = Observe(bits')
  /\ UNCHANGED status

\* Time passes: more than 60 seconds since the node's last report.
Expire(j, n) ==
  /\ n \in nodes[j] \ stale[j]
  /\ stale' = [stale EXCEPT ![j] = @ \cup {n}]
  /\ UNCHANGED <<status, nodes, bits, task, hist>>

-----------------------------------------------------------------------------
\* What reaches the tracker from outside: requests and the timer.
Arrive(w) ==
  \/ \E j \in Job : TakeCreateJob(w, j)
  \/ \E j \in Job, n \in Node : \E B \in Reports[n] : TakeHeartbeat(w, j, n, B)
  \/ \E j \in Job, n \in Node, c \in Chunk : TakeGetPeers(w, j, n, c)
  \/ \E j \in Job : TakeGetStatus(w, j)
  \/ TakeListJobs(w)
  \/ EvictionTick(w)
  \/ \E j \in Job : CancelJob(w, j)

\* A worker gets on with what it took.
Work(w) ==
  \/ InsertJob(w)
  \/ UpdateNode(w)
  \/ ScanForCompletion(w)
  \/ ScanForPeers(w)
  \/ AnswerPeers(w)
  \/ ScanForSnapshot(w)
  \/ NextJobShard(w)
  \/ \E j \in Job : VisitJob(w, j)
  \/ EndWalk(w)
  \/ RetainShard(w)

Next ==
  \/ \E w \in Worker : Arrive(w) \/ Work(w)
  \/ \E j \in Job, n \in Node : Expire(j, n)

Spec == Init /\ [][Next]_vars

\* A thread that is not asleep on a lock keeps running; nothing forces
\* requests, the timer or silence.
FairSpec == Spec /\ \A w \in Worker : WF_vars(Work(w))

-----------------------------------------------------------------------------
(* Properties *)

\* get_peers is no atomic read, reports and evictions run between its shards, and its
\* answer is cut.  Still every peer of the answer held the chunk at some moment of the
\* query, and a node that held it all along (the asker apart) is missing only because the
\* answer is full, and then from behind the last peer in it.
PeerQueryRegular ==
  \A w \in Worker : task[w].op = "answer" =>
    LET t      == task[w]
        missed == hist[w].steady \ (t.found \cup {t.node})
    IN /\ t.found \subseteq hist[w].ever
       /\ missed # {} => Cardinality(t.found) = TopN
       /\ \A n \in missed, k \in t.found : ~Before(Rack[t.node], n, k)

\* The completion check of update_node iterates over all shards while its own
\* entry write-locks one of them, so no job is ever marked Complete.
NeverComplete == \A j \in Job : status[j] # "Complete"

\* A cancelled job stays cancelled, also when its nodes go on to report everything:
\* update_node would write Complete over any status.
CancelSticks ==
  [][\A j \in Job : status[j] = "Cancelled" => status'[j] = "Cancelled"]_vars

\* Nothing but that check can bring the tracker to a halt: while no worker is
\* in it, some worker that has a request can get on with it.
OnlyCompletionBlocks ==
  (\A w \in Worker : task[w].op # "check") =>
    \/ \A w \in Worker : task[w] = Idle
    \/ \E w \in Worker : task[w] # Idle /\ ~Blocked(w)

\* The check waits for the shard that its own thread holds.
Wedged(w) == task[w].op = "check" /\ task[w].at = NodeShard[task[w].node]

\* A wedged worker stays wedged, and from then on no report and no eviction
\* reaches any node of the shard it holds, in that job.
WedgeFreezesShard ==
  [][\A w \in Worker : Wedged(w) =>
       LET j == task[w].job
           S == InShard(NodeShard[task[w].node])
       IN /\ Wedged(w)'
          /\ nodes'[j] \cap S = nodes[j] \cap S
          /\ \A n \in S : bits'[j][n] = bits[j][n]]_vars

AllDone(j) == nodes[j] # {} /\ \A n \in nodes[j] : bits[j][n] = Chunk

\* "Distribution job is complete when all nodes report 100% bitmap coverage"
\* (model-distribution-spec.md:108): once a full report finds every node done,
\* the job completes, unless it is cancelled or a node that is not done turns up.
CompletesWhenAllReport ==
  \A w \in Worker, j \in Job :
    (task[w].op = "check" /\ task[w].job = j /\ AllDone(j))
      ~> (status[j] \in {"Complete", "Cancelled"} \/ ~AllDone(j))

\* Request u has less before it than t: it is answered, entered another shard of jobs,
\* has fewer jobs of that shard to visit, is done with the one it visited, or is
\* further within it.
Nearer(t, u) ==
  \/ u = Idle
  \/ t.walk < u.walk
  \/ t.walk = u.walk /\ u.todo \subseteq t.todo /\ u.todo # t.todo
  \/ /\ t.walk = u.walk /\ t.todo = u.todo
     /\ \/ t.job # None /\ u.job = None
        \/ t.job = u.job /\ t.op = u.op /\ t.at < u.at
        \/ <<t.op, u.op>> \in {<<"heartbeat", "check">>, <<"peers", "answer">>}

\* No request is begun again, however many jobs and nodes come and go under its walk: each
\* step of its worker leaves less to do, and no step of another worker adds to it.
RequestsAdvance ==
  [][\A w \in Worker : task[w] # Idle =>
       task'[w] = task[w] \/ Nearer(task[w], task'[w])]_vars

\* Once requests and ticks stop arriving, every one taken is answered and all
\* worker threads are free again, unless one of them wedged itself: the locks of
\* dispatch cost a delay, never an answer.
Drains ==
  ([](\A w \in Worker : ~Wedged(w)) /\ <>[][\A w \in Worker : ~Arrive(w)]_vars)
    => <>[](\A w \in Worker : task[w] = Idle)

\* Locks, partial scans and evictions shard by shard implement the registry
\* that changes one operation at a time.
R == INSTANCE Registry
       WITH Job <- Job, Node <- Node, Chunk <- Chunk,
            status <- status, nodes <- nodes, bits <- bits, stale <- stale

\* Locks and partial scans never show: whatever is done is done as the atomic registry does it.
ImplementsRegistry == R!Spec
=============================================================================
