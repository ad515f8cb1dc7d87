--------------------------------- MODULE Swarm ---------------------------------
(***************************************************************************)
(* Several nodes that fetch from each other through one tracker: their     *)
(* processes (src/src/peer/mod.rs), the downloads (downloader.rs), the     *)
(* files their chunk servers read (chunk_server.rs), and of the tracker    *)
(* the reports, the peer query and the eviction (tracker/mod.rs,           *)
(* scheduler.rs).                                                          *)
(*                                                                         *)
(* A machine is an address with a data directory; every start of a process *)
(* on it has an id of its own, and the tracker lists ids.  Inside a node   *)
(* this is Downloader.tla with one permit and without what only that node  *)
(* can see: attempts, pauses, which missing chunk is next.  The tracker is *)
(* Registry.tla with the one thing a node sees of its locks: a shard that  *)
(* a completion check never gets past (Tracker.tla).                       *)
(***************************************************************************)
EXTENDS Integers, FiniteSets

CONSTANTS
  Machine,      \* addresses
  Seed,         \* nodes that somebody else set up, with some of the chunks or all
  Chunk,
  SeedHas,      \* per seed, its chunks
  Found,        \* per machine, the chunks that an earlier job may have left in its data_dir
  MaxLives,     \* per machine, how often a process may be started on it
  Shard,        \* per id, its shard of the tracker's table, in the order of a walk
  TopN,         \* length of a peer list, 5 in the code
  Policy,       \* of the job
  Rack,         \* per address, its rack
  Bandwidth,    \* per address, the upload bandwidth it reports; 8000 in every node
  MayFailWrite, \* machines with a disk that may refuse a write,
  MayBeDeaf,    \* where a chunk server may find its port taken,
  MayBeSilent   \* ids whose heartbeats may be late by a minute though they live

Address == Machine \cup Seed

Id == (Seed \X {1}) \cup UNION {{m} \X (1 .. MaxLives[m]) : m \in Machine}

ASSUME SwarmAssumption ==
  /\ Machine \cap Seed = {}
  /\ SeedHas \in [Seed -> SUBSET Chunk]
  /\ Found \in [Machine -> SUBSET SUBSET Chunk]
  /\ MaxLives \in [Machine -> Nat \ {0}] /\ TopN \in Nat \ {0}
  /\ Shard \in [Id -> Nat]
  /\ Policy \in {"RarityFirst", "TopologyAware"}
  /\ Bandwidth \in [Address -> Nat]

ASSUME FiniteAssumption == IsFiniteSet(Id)

VARIABLES
  phase,    \* per machine, its process: "up", "done" (by itself) or "down"
  life,     \* how often it was started
  listens,  \* its chunk server has the port
  have,     \* the bitmap of the process
  files,    \* chunks whose file in data_dir passes verification
  task,     \* the chunk under way
  seeds,    \* the seeds that run
  nodes,    \* the ids registered with the tracker
  bits,     \* per id, its bitmap there
  stale,    \* the registered ids that were silent for a minute
  wedged    \* the shards whose lock a completion check holds for ever

processes == <<phase, life, listens, seeds>>
tracker == <<nodes, bits, stale, wedged>>
vars == <<processes, have, files, task, tracker>>

Addr(i) == i[1]

\* The id of the process that runs at an address, or ran there last.
Current(i) == Addr(i) \in Machine => i[2] = life[Addr(i)]

Runs(a) == IF a \in Seed THEN a \in seeds ELSE phase[a] = "up"

Alive(i) == Current(i) /\ Runs(Addr(i))

\* Somebody listens at the address.
Listens(a) == Runs(a) /\ (a \in Machine => listens[a])

\* What the process at an address reports.
Got(a) == IF a \in Seed THEN SeedHas[a] ELSE have[a]

Self(m) == <<m, life[m]>>

Idle == [stage |-> "idle", chunk |-> {}, cands |-> {}]

Task == [stage : {"idle", "fetch", "write", "writing"},
         chunk : {{}} \cup {{c} : c \in Chunk},
         cands : SUBSET Id]    \* candidates of the answer not yet tried

\* A seed is one process with one id.
Init ==
  /\ phase = [m \in Machine |-> "up"]
  /\ life = [m \in Machine |-> 1]
  /\ listens \in [Machine -> BOOLEAN] /\ \A m \in Machine : listens[m] \/ m \in MayBeDeaf
  /\ have = [m \in Machine |-> {}]
  /\ files \in [Machine -> SUBSET Chunk] /\ \A m \in Machine : files[m] \in Found[m]
  /\ task = [m \in Machine |-> Idle]
  /\ seeds = Seed
  /\ nodes = {} /\ stale = {} /\ wedged = {}
  /\ bits = [i \in Id |-> {}]

-----------------------------------------------------------------------------
(* The tracker's answer *)

Sched == INSTANCE Scheduler WITH
           Rack      <- [i \in Id |-> Rack[Addr(i)]],
           Bandwidth <- [i \in Id |-> Bandwidth[Addr(i)]]

Holders(m, c) == {i \in Id \ {Self(m)} : c \in bits[i]}

\* Mutant: the list is not cut.
BestUncut(m, c) == {Holders(m, c)}

Best(m, c) == Sched!Cut(Rack[m], Holders(m, c))

\* The next of the candidates in the order of the list.
IsNext(m, i) ==
  /\ i \in task[m].cands
  /\ \A j \in task[m].cands : ~Sched!Before(Rack[m], j, i)

-----------------------------------------------------------------------------
(* The processes *)

Go(m, t) ==
  /\ task' = [task EXCEPT ![m] = t]
  /\ UNCHANGED <<processes, tracker>>

\* A peer query of a new task.  With nobody to ask it pauses and asks again; a walk
\* that meets a wedged shard gives no answer.
Query(m) ==
  /\ phase[m] = "up" /\ task[m].stage = "idle" /\ wedged = {}
  /\ \E c \in Chunk \ have[m] : \E S \in Best(m, c) \ {{}} :
       Go(m, [stage |-> "fetch", chunk |-> {c}, cands |-> S])
  /\ UNCHANGED <<have, files>>

\* Mutant: what a file has is taken unverified.
ServesUnverified(i, C) == Listens(Addr(i))

\* Whoever answers at the address reads the file; torn or missing, it is refused.
Serves(i, C) ==
  /\ Listens(Addr(i))
  /\ C \subseteq (IF Addr(i) \in Seed THEN SeedHas[Addr(i)] ELSE files[Addr(i)])

\* What follows a candidate that is of no use.
Rest(m, i) ==
  IF task[m].cands \subseteq {i} THEN Idle
  ELSE [task[m] EXCEPT !.stage = "fetch", !.cands = @ \ {i}]

\* Mutant: the file is created before the bytes arrive.
FetchTruncates(m) ==
  /\ task[m].stage = "fetch"
  /\ \E i \in Id :
       /\ IsNext(m, i)
       /\ Go(m, IF Serves(i, task[m].chunk)
                  THEN [task[m] EXCEPT !.stage = "write", !.cands = @ \ {i}]
                  ELSE Rest(m, i))
  /\ files' = [files EXCEPT ![m] = @ \ task[m].chunk]
  /\ UNCHANGED have

\* The candidates in the order of the list, to the first that has the chunk.
Fetch(m) ==
  /\ task[m].stage = "fetch"
  /\ \E i \in Id :
       /\ IsNext(m, i)
       /\ Go(m, IF Serves(i, task[m].chunk)
                  THEN [task[m] EXCEPT !.stage = "write", !.cands = @ \ {i}]
                  ELSE Rest(m, i))
  /\ UNCHANGED <<have, files>>

\* fs::write truncates the file first.
BeginWrite(m) ==
  /\ task[m].stage = "write"
  /\ Go(m, [task[m] EXCEPT !.stage = "writing"])
  /\ files' = [files EXCEPT ![m] = @ \ task[m].chunk]
  /\ UNCHANGED have

\* The file is whole and its chunk is marked; the next task begins.
EndWrite(m) ==
  /\ task[m].stage = "writing"
  /\ Go(m, Idle)
  /\ files' = [files EXCEPT ![m] = @ \cup task[m].chunk]
  /\ have' = [have EXCEPT ![m] = @ \cup task[m].chunk]

\* The bytes are dropped and the next candidate is asked.  The file is as it was if it
\* could not be opened, and torn if it could.
FailWrite(m) ==
  /\ m \in MayFailWrite /\ task[m].stage \in {"write", "writing"}
  /\ Go(m, IF task[m].cands = {} THEN Idle ELSE [task[m] EXCEPT !.stage = "fetch"])
  /\ UNCHANGED <<have, files>>

\* run returns, and the chunk server ends with the process.
Exit(m) ==
  /\ phase[m] = "up" /\ task[m] = Idle /\ have[m] = Chunk
  /\ phase' = [phase EXCEPT ![m] = "done"]
  /\ UNCHANGED <<life, listens, seeds, have, files, task, tracker>>

Crash(m) ==
  /\ phase[m] = "up" /\ life[m] < MaxLives[m]
  /\ phase' = [phase EXCEPT ![m] = "down"]
  /\ have' = [have EXCEPT ![m] = {}]
  /\ task' = [task EXCEPT ![m] = Idle]
  /\ UNCHANGED <<life, listens, seeds, files, tracker>>

\* Mutant: the id is the machine's.
RestartSameId(m) ==
  /\ phase[m] # "up" /\ life[m] < MaxLives[m]
  /\ phase' = [phase EXCEPT ![m] = "up"]
  /\ have' = [have EXCEPT ![m] = {}]
  /\ UNCHANGED <<life, listens, seeds, files, task, tracker>>

\* A fresh id and an empty bitmap over the same files.  That the port is taken is only
\* logged.
Restart(m) ==
  /\ phase[m] # "up" /\ life[m] < MaxLives[m]
  /\ phase' = [phase EXCEPT ![m] = "up"]
  /\ life' = [life EXCEPT ![m] = @ + 1]
  /\ \E bound \in BOOLEAN :
       /\ bound \/ m \in MayBeDeaf
       /\ listens' = [listens EXCEPT ![m] = bound]
  /\ have' = [have EXCEPT ![m] = {}]
  /\ UNCHANGED <<seeds, files, task, tracker>>

SeedStop(s) ==
  /\ s \in seeds
  /\ seeds' = seeds \ {s}
  /\ UNCHANGED <<phase, life, listens, have, files, task, tracker>>

-----------------------------------------------------------------------------
(* The tracker's table *)

\* A completion check that begins at shard 0 ends at an incomplete node, if it meets one
\* before its own shard and before any that is wedged.
CheckEnds(i) ==
  \E j \in nodes :
    /\ bits[j] # Chunk /\ Shard[j] < Shard[i]
    /\ \A k \in wedged : Shard[j] < k

\* A heartbeat of a process, with or without a chunk server, and what update_node makes
\* of it; the tracker's walk is Tracker.tla's, here at one moment.
Report(i) ==
  /\ Alive(i) /\ Shard[i] \notin wedged
  /\ nodes' = nodes \cup {i}
  /\ bits' = [bits EXCEPT ![i] = Got(Addr(i))]
  /\ stale' = stale \ {i}
  /\ wedged' = IF Got(Addr(i)) = Chunk /\ ~CheckEnds(i) THEN wedged \cup {Shard[i]} ELSE wedged
  /\ UNCHANGED <<processes, have, files, task>>

\* Nothing was heard of an id for a minute.
Expire(i) ==
  /\ i \in nodes \ stale /\ (Alive(i) => i \in MayBeSilent)
  /\ stale' = stale \cup {i}
  /\ UNCHANGED <<processes, have, files, task, nodes, bits, wedged>>

Forget(S) ==
  /\ nodes' = nodes \ S
  /\ bits' = [i \in Id |-> IF i \in S THEN {} ELSE bits[i]]
  /\ stale' = stale \ S
  /\ UNCHANGED <<processes, have, files, task, wedged>>

\* Mutant: with an id goes whatever has its address.
EvictAddress(i) ==
  /\ i \in stale /\ \A k \in wedged : Shard[i] < k
  /\ Forget({j \in nodes : Addr(j) = Addr(i)})

\* Mutant: an id stays while its address is heard of.
EvictSilentAddress(i) ==
  /\ i \in stale /\ \A k \in wedged : Shard[i] < k
  /\ \A j \in nodes : Addr(j) = Addr(i) => j \in stale
  /\ Forget({i})

\* retain visits the shards in their order, to the first that is wedged.
Evict(i) ==
  /\ i \in stale /\ \A k \in wedged : Shard[i] < k
  /\ Forget({i})

Work(m) == Query(m) \/ Fetch(m) \/ BeginWrite(m) \/ EndWrite(m) \/ Exit(m)

Next ==
  \/ \E m \in Machine : Work(m) \/ FailWrite(m) \/ Crash(m) \/ Restart(m)
  \/ \E s \in Seed : SeedStop(s)
  \/ \E i \in Id : Report(i) \/ Expire(i) \/ Evict(i)

Spec == Init /\ [][Next]_vars

\* A process goes on while it runs, with a pause of at most seconds between queries.
\* The ids of ended processes fall silent, a seed that is not listed reports, and the
\* tracker's timer runs.
FairSpec ==
  /\ Spec
  /\ \A m \in Machine : WF_vars(Work(m))
  /\ \A i \in Id : WF_vars(~Alive(i) /\ Expire(i)) /\ WF_vars(Evict(i))
  /\ \A s \in Seed : WF_vars(<<s, 1>> \notin nodes /\ Report(<<s, 1>>))

-----------------------------------------------------------------------------
(* Properties *)

\* Types: no list of candidates is longer than top_n, also half used.
TypeOK ==
  /\ phase \in [Machine -> {"up", "done", "down"}]
  /\ life \in [Machine -> Nat \ {0}] /\ \A m \in Machine : life[m] <= MaxLives[m]
  /\ listens \in [Machine -> BOOLEAN]
  /\ have \in [Machine -> SUBSET Chunk]
  /\ files \in [Machine -> SUBSET Chunk]
  /\ task \in [Machine -> Task]
  /\ \A m \in Machine : Cardinality(task[m].cands) <= TopN
  /\ seeds \subseteq Seed
  /\ nodes \subseteq Id /\ stale \subseteq nodes
  /\ bits \in [Id -> SUBSET Chunk]
  /\ wedged \subseteq Nat

\* A candidate list is never wrong about a process that runs and has its port: however
\* long ago the tracker answered, its id serves the chunk when it is asked.  Only ids of
\* ended processes and of those that nobody can reach mislead, and lead to the wrong
\* process if the machine runs another one by now.
OnlyOldIdsMislead ==
  \A m \in Machine : \A i \in task[m].cands :
    (Alive(i) /\ Listens(Addr(i))) => Serves(i, task[m].chunk)

Carried(m) == IF task[m].stage \in {"write", "writing"} THEN task[m].chunk ELSE {}

\* The copies of the swarm, as the abstract specification sees them.
D == INSTANCE Distribution WITH
       holds <- files,
       carry <- [m \in Machine |-> Carried(m)]

\* Chunks come from verified copies only, over every detour by stale lists, reused
\* addresses and half-written files.
ImplementsDistribution == D!Spec

Somewhere(c) == D!Copies(c) \/ \E m \in Machine : c \in Carried(m)

\* The last copy of a chunk goes with a seed, or with a process that has it in memory
\* and crashes or cannot write it: a node that fetches a chunk again after a restart,
\* perhaps from itself, truncates its file for that.  Nothing else loses one: no
\* refusal, eviction, restart or wrong candidate.
OnlyCarriersLose ==
  [][\A c \in Chunk : (Somewhere(c) /\ ~Somewhere(c)') =>
       \/ seeds' # seeds
       \/ \E m \in Machine : c \in Carried(m) /\ (Crash(m) \/ FailWrite(m))]_vars

\* The nodes, as the abstract specification of a node sees them.
N == INSTANCE Nodes WITH listed <- [m \in Machine |-> bits[Self(m)]]

\* Every node of the swarm is the node that Downloader implements.
ImplementsNodes == N!Spec

\* The tracker of the swarm as the registry that Tracker implements, with one job.
R == INSTANCE Registry WITH
       Job    <- {"job"},
       Node   <- Id,
       status <- [j \in {"job"} |-> "Running"],
       nodes  <- [j \in {"job"} |-> nodes],
       bits   <- [j \in {"job"} |-> bits],
       stale  <- [j \in {"job"} |-> stale]

\* What the tracker does in the swarm, the registry does: whoever reports again in time
\* stays, also at the address of an id that goes.
ActsAsRegistry == [][R!Next]_R!vars

\* Every process that is not killed gets the whole file, whatever entries of dead
\* processes are before the others in the lists that it gets, if the seeds stay and have
\* every chunk, no completion check wedges the tracker, heartbeats of the living are
\* heard of within a minute, fewer nodes than a list is long lack their port, and writes
\* fail finitely often.
Spreads ==
  (/\ \A c \in Chunk : \E s \in Seed : c \in SeedHas[s]
   /\ [](/\ seeds = Seed /\ wedged = {} /\ \A i \in stale : ~Alive(i)
         /\ Cardinality({m \in Machine : phase[m] = "up" /\ ~listens[m]}) < TopN)
   /\ <>[][\A m \in Machine : ~FailWrite(m)]_vars) =>
    \A m \in Machine : (phase[m] = "up") ~> (phase[m] # "up")
=============================================================================
