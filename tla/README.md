# Verification of the model-distribution system

TLA+ models of the Rust crate in `src/` (a tracker and peer nodes that spread a
large file in chunks), the TLC runs that check small instances, and TLAPS proofs
for every size. Paths such as `tracker/mod.rs` are relative to `src/src/`;
`README.md:337` and `model-distribution-spec.md` are the repository's documents.

## The system

| Component | State | Operations | Talks to |
|---|---|---|---|
| Tracker (`tracker/mod.rs`, `server.rs`, `scheduler.rs`) | `jobs`: id to `Job`; per job a status and `nodes`: id to `NodeState` (bitmap, address, last seen), both `DashMap`s | create, cancel, status, list, heartbeat (`update_node`), peer query (`get_peers`), eviction every 30 s | one TCP connection per request from nodes and clients |
| Peer node (`peer/mod.rs`) | a node id per start, the bitmap, `data_dir` | start, heartbeat every 5 s, exit when complete | tracker |
| Downloader (`peer/downloader.rs`) | the round, a semaphore, the tasks | collect, spawn, query, fetch, verify, write, mark, retry | tracker, chunk servers |
| Chunk server (`peer/chunk_server.rs`) | none but the files | answer with a file or an error | other downloaders |
| Manifest, `ChunkBitmap` (`manifest.rs`) | hashes per chunk, bits | build, ranges, verify, mark, missing | all |
| Delta patch (`delta.rs`) | three index sets; the files | compute, delete stale chunks, verify unchanged ones | chunk store (a library, no caller yet) |
| Erasure coding (`erasure.rs`) | none | split, encode, reconstruct | none (self test only) |
| Protocol (`proto/`) | none | framing, requests and responses | tracker, nodes, clients |
| Metrics, CLI, errors | none of their own | I/O | |

What is hard here: handlers block runtime threads on shard locks and iterate over
tables that others change; the bitmap lives in memory, the files do not, and they are
named without a version; heartbeats are lost, late, reordered or hang, with no timeout
anywhere; candidates fail, lie or fall silent; writes and binds fail, and only a
log line says so; the process exits or crashes at any point.

What makes the parts correct:

* Tracker: every request is answered; a peer query names holders only, the best of
  the steady ones among them; only silent nodes are evicted; a job completes when all
  its nodes report everything.
* Node: a chunk is marked, reported and served only once verified and on disk; no
  chunk is fetched by two tasks; every chunk that can be had arrives; the process
  ends with the whole file.
* Delta: an update leaves exactly the new version, and a verdict on a shared chunk holds.

## Modules

| Module | Models | Proofs |
|---|---|---|
| `Registry` | what the tracker promises: each operation one atomic step | |
| `Scheduler` | operators: the order of a peer list and where it is cut | through `Tracker` and `Swarm` |
| `Tracker` | the tracker at the granularity of its locks; implements `Registry` | `TrackerProofs` |
| `Nodes` | what a node promises the others: whole chunks received in one step, and listed with no others | `NodesProofs` |
| `Downloader` | one node: loop, tasks, heartbeats, files, crash and restart; implements `Nodes` for one machine | `DownloaderProofs` |
| `Distribution` | what the whole promises of the bytes: verified copies come from verified copies | |
| `Swarm` | several nodes, seeds and the tracker between them; implements `Distribution` and `Nodes`, acts as `Registry` | `SwarmProofs` |
| `Eviction` | heartbeats, staleness and eviction passes in time | `EvictionProofs` |
| `Manifest`, `Erasure` | operators: counts, ranges, bitmaps and their bytes; shards and stripes | through `Pipeline` |
| `Pipeline` | a file from the client's command to a node, streamed manifests, bitmaps on the wire, stripes | `PipelineProofs` |
| `Delta` | an update of a chunk store by a delta patch | `DeltaProofs` |
| `MCTracker`, `MCDownloader`, `MCSwarm`, `MCPipeline` | constants for TLC | |
| `Lemmas` | | least elements, for `DownloaderProofs` |

How they compose: `Tracker` implements `Registry`, and the tracker in `Swarm` does nothing
that `Registry` does not (`ActsAsRegistry`); `Downloader` implements `Nodes` for its one
machine and `Swarm` does for all of its own, so the swarm may leave out permits, rounds,
attempts and heartbeats under way; both `Tracker` and `Swarm` cut their answers by
`Scheduler`. `Eviction` says when the tracker takes a live process for dead; the ids of
`MayBeSilent` are those `Swarm` lets it happen to. The swarm starts with the manifest that `Pipeline` is about.

### Tracker

No handler awaits, so the actors are the runtime's worker threads. `task[w]` is the
program counter of worker `w`: the request it took (`Take...`, from `dispatch`), the
shard it has reached (`at`, of `Job::nodes`; `walk`, of `Tracker::jobs`) and what it
collected. Held locks are not recorded, they follow from the counters (`Writers`,
`Readers`, `JobReaders`). What is assumed of DashMap 5 (external code):

* a read-write lock per shard, not reentrant, without preference for writers;
* `entry()` keeps the shard's write lock while the returned guard lives, which
  in `update_node` is to the end of the function;
* an iterator takes the next shard's read lock before it drops its own;
* `retain` write-locks one shard at a time, `insert` one shard.

`UpdateNode` is `update_node` up to the completion check, `ScanForCompletion` one
shard of that check with the entry still held. It ends early, as `all` does, at a shard
with an incomplete node. `ScanForPeers` is one shard of a peer query; with the last shard
goes the sort and the cut to `TopN` (`Scheduler.Cut`, equals in any order). `hist` only
serves `PeerQueryRegular`. `Expire` is the passing of 60 s without a report.

### Downloader

Tasks are indexed by the permit of the semaphore they hold. `phase` is where the
loop stands, `queue` the rest of a round, `task[k].stage` the point a task has
reached; a write is two steps (`fs::write` truncates first) and may fail at either.
The pause between rounds is part of `Join`, and a chunk that is complete by now is
passed over in `Spawn` (the second look of `downloader.rs:47`, which
`OneTaskPerChunk` shows to be dead code). The tracker and the other nodes are the
environment: per chunk the candidate lists `Answers`, per peer and chunk the replies
`Serves`; an empty set of replies is a peer that never answers. `net` holds
heartbeats under way; `reported[l]` is what the tracker last heard of the node's
`l`-th start, each start being a node id of its own. `waits` is the heartbeat loop
waiting for an answer: it sends nothing meanwhile, and only `Resume`, the answer or an
error of the connection, ends the wait, which nothing in the code forces. An error may
come while the heartbeat is still on its way, so later ones can overtake it. The data
directory may hold anything at the start. The manifest is given: a node of this commit
stops in `fetch_manifest` (finding 4), and the model is of the node from the next line on.

### Swarm

A machine is an address with a data directory; an id is a machine and the number of the
start, as every start takes a fresh UUID. `nodes`, `bits` and `stale` are the tracker's
table. The answer to a query is `Scheduler.Cut` of the holders but the asker's own id.
`Fetch` asks the addresses in the order of the list (`IsNext`), so whoever runs there now,
the asker itself included under an id of an earlier start. What can go wrong:

* `listens[m]`: whether the chunk server of a process has its port. A bind that fails is
  only logged (`peer/mod.rs:54`); the node downloads and reports all the same.
* `FailWrite`: a write that fails, before the file is opened or after it is truncated. The
  bytes are dropped and the next candidate is asked.
* `Expire` of a living id: its heartbeats fail or hang for a minute.
* `wedged`: the shards whose lock a completion check holds for ever (finding 1). A full
  report wedges the shard of its id (`Shard`), unless the check meets an incomplete node
  in an earlier shard (`CheckEnds`). A query that would walk over a wedged shard has no
  answer, an eviction reaches the shards before it, reports only the other ones.
* crashes and restarts over the same files, which may hold chunks of an earlier job
  (`Found`).

Seeds are external: nodes that somebody set up with all or some of the chunks (`SeedHas`),
each one process with one id. One step each stands for what `Downloader` and `Tracker`
split up: a query (its scan is regular, `PeerQueryRegular`), the end of a write and its
mark (a crash between them forgets the mark anyway), a heartbeat and its handling, the
walk of its completion check included. A file is either verified or not, so `files` is the
set that is. `Distribution` sees of all this the seeds, `files`, and the verified chunk in
the memory of each process.

### Eviction

Time passes in fractions of a second (`Res`), since `is_stale` cuts an age to seconds.
What is due is done before time passes: a tick of the heartbeat interval unless the last
heartbeat is still under way, the eviction pass. A heartbeat may take up to `MaxDelay`
steps, any number of intervals, also when its sender has ended; the ticks missed
meanwhile are made up for at once (tokio's `Burst`), and `beat` counts them down to
`-Behind`. Any number may fail in a row; `lost` and `slow` remember, for `LiveStays`,
whether more than `MaxLost` did and whether one took longer than `Prompt`.

### Pipeline

`Manifest` and `Erasure` are operators; `Pipeline` lets them meet: the client's
`--chunk-size-mb` in wrapping arithmetic, `build`, the frame with its 32-bit length and
the reader's cap, the job, a bitmap marked in any order and sent as bytes, a start of a
node, `build_from_file` with reads of any length, stripes of any chunks in any order
with any shards lost. A hash is the content it is taken of. A panic, of a division by
zero or of an overflow in a build that checks for it, is a stage of its own.

### Delta

`Unchanged`, `Changed`, `Deleted` are `compute`; `del` and `chk` are the two passes of
`PatchApplicator`, a file per step; `writing`, `begun` and `got` the download. That is the
downloader of `downloader.rs`, which `delta.rs:154` names: it knows no patch, begins with an
empty bitmap and may write any chunk of the new manifest, shared ones too. Any failure,
order, retry or crash. `UpdateYieldsNewVersion` therefore asks of the download that it has
finished what it began, and `VerdictsHold` speaks of chunks it has not begun.

## Runs

| Run | Shows |
|---|---|
| `tracker` | `PeerQueryRegular` (a non-atomic answer is still regular, up to the cut), `NeverComplete`, `OnlyCompletionBlocks`, `WedgeFreezesShard`, `CancelSticks` (no late report completes a cancelled job), `RequestsAdvance` (no walk over jobs and shards starts again), `Drains` (every request taken is answered unless a worker wedges itself), `ImplementsRegistry` |
| `tracker_completes` | violated: finding 1 |
| `downloader` | `Integrity`, `OneTaskPerChunk`, `ReportedIsServable`, and with `ImplementsNodes` that the process ends with the whole file only, under every fault; `SilenceIsFinal`: from the first silent candidate on, nothing arrives but the rest of the round |
| `downloader_live` | `FetchesAvailable`: failing candidates do not keep an available chunk from arriving; `ReportedWhileRunning`: nor do lost, late or overtaken heartbeats keep it from being reported, if the tracker can be reached; `RoundsGain`: every round has something to gain and loses none of it |
| `downloader_silent`, `downloader_resumes` | violated: findings 2 and 3 |
| `swarm` | `OnlyOldIdsMislead` (a list is never wrong about a process that runs and has its port), `ImplementsDistribution`, `OnlyCarriersLose` (the last copy goes with a seed, or with a process that has it in memory and crashes or cannot write it), `ImplementsNodes`, `ActsAsRegistry`, `Spreads` |
| `eviction` | `LiveStays`, `DeadLeaves` |
| `pipeline` | `ManifestCoversFile`, `SubmittedWholeOrNot`, `BitmapSurvives`, `RebuildsEveryChunk`, `SplitMergesBack` |
| `pipeline_starts`, `pipeline_streams` | violated: findings 4 and 5 |
| `delta` | `UpdateYieldsNewVersion`, `VerdictsHold` (what a verification found of a shared chunk stays true until the download takes up that chunk) |

### Findings

1. **The tracker blocks on itself** (`tracker/mod.rs:265`). The completion check
   iterates over all shards while its own entry write-locks one, and gets away only if an
   incomplete node is in an earlier shard. The job never
   completes (`NeverComplete`); the worker thread is gone; the shard takes no report
   and no eviction any more (`WedgeFreezesShard`). What then waits for that shard
   wedges too, an eviction with a lock of the job table in its hands, so new jobs
   wait as well, until no thread is left. `model-distribution-spec.md:108` promises
   completion. Only because of this does a cancelled job stay cancelled
   (`CancelSticks`): once the check is repaired, line 267 overwrites the status, so
   `Registry`, which allows that, is the place to decide what is wanted.
2. **A silent peer is never left** (`downloader.rs:151`). Nothing has a timeout;
   `README.md:337` says the next candidate is tried. `SilenceIsFinal`, proved for every
   node, says how much is lost: everything outside the round of that task.
3. **No resume** (`peer/mod.rs:60`). A restart begins with an empty bitmap and
   truncates files that its old registration still advertises.
   `model-distribution-spec.md:34` promises resumption. `OnlyCarriersLose` says how far
   that can go: a crash, or a write that fails, in the middle of such a fetch may take the
   last copy.
4. **No node starts** (`peer/mod.rs:115`). The status answer that `fetch_manifest`
   parses as a manifest, as the comment above it says it can, lacks four of its
   fields.
5. **A streamed manifest has hashes of other ranges** (`manifest.rs:72`).
   `build_from_file` hashes what one `read` per chunk returns. `manifest.rs:20` promises a
   digest per chunk, `:53` a file streamed chunk by chunk; a read of a tokio `File` ends at
   2 MiB, the default chunk has 50 MB. `StreamCorrect`, proved for every sequence of reads,
   says that short reads are all there is to it. Nothing calls the function yet.

### Bounds

* Tracker: one job, three nodes over two shards (two in `tracker_completes`), two
  chunks, two workers, answers of one peer. A wedge needs one worker and one shard, a race
  two workers, a partial scan two shards, and a peer query two holders besides the asker,
  one in each shard and the better one in the later, so that a scan that stops early shows
  behind the cut. The proofs are for any number.
* Downloader: two permits, two chunks, two candidates, two lives, two heartbeats under
  way, two of the three attempts; that is the least at which tasks share the disk,
  heartbeats overtake one another and a restart meets old files, old reports and a
  torn write. `downloader_live` has one permit, hence rounds of two of its three
  chunks, one out of reach, and all three attempts. In
  `downloader` one candidate is silent for ever on one of the chunks, while tasks on the
  other give up, are killed or finish, which is what `SilenceIsFinal` is about. `MaxLives`
  and `MaxNet` are the only bounds that the code does not have.
* Swarm: two nodes, one of which may crash or be started again once, a full seed, lists
  cut to one, the topology-aware policy with the seed in another rack. The first node has
  the disk, the port and the network that may fail and one chunk of an earlier job; the
  second node's shard comes before the others', so some full reports wedge a shard and
  some get away. A stale entry needs one restart, a misleading list a second node, a cut
  that hides a live holder a list shorter than the holders. 330,000 states.
* Eviction: an id and the one of its restart, half seconds, heartbeats every second,
  passes and a timeout of two: small numbers in the code's order that leave a margin of one
  step, so that an off-by-one in any of them shows. `MaxDelay` is three heartbeat
  intervals: a hanging heartbeat outlasts the timeout and its sender is evicted alive,
  which `LiveStays` then puts down to it. One failure in a row is forgiven. Deadlock is
  checked: time always passes. `Behind` is the one bound that the code does not have.
* Pipeline: 3-bit counts, 5-bit sizes, 2-bit bytes: files from empty over every multiple
  and remainder of chunk, shard and byte to more chunks than the count holds; sizes from
  0 to sums that wrap; frames to both sides of the cap.
* Delta: all pairs of manifests of up to three chunks over two hashes, which has
  every case of growing, shrinking, equality and emptiness.

Deadlock is not checked for `tracker` (all its workers can wedge, finding 1) and
`downloader`, `swarm` and `pipeline` (the processes may have ended for good).

### Fairness

* `Tracker`: weak fairness of each worker's `Work`, for the operating system runs a
  thread that does not sleep on a lock; none for requests, ticks or `Expire`.
  `Drains` asks what happens once they stop, as a stream of new work has no end, and no
  worker ever wedges itself.
* `Downloader`: weak fairness of the loop, of each task and of sending heartbeats,
  which the runtime polls. Nothing is assumed of the network: that no heartbeat hangs for
  ever and that of those sent again and again some arrive is `TrackerReached`, the premise
  of `ReportedWhileRunning`, because nothing in the code ends a heartbeat. A crash is never
  forced. A task that waits for a silent peer has no step to be fair to: that is finding 2.
* `Swarm`: weak fairness of each machine's process while it runs, of the silence of ended
  processes and the eviction of each stale entry, for the timer runs, and of the report of a
  seed that is not listed. Crashes, restarts, failing writes, the nodes' own reports, the
  seeds' later ones and their ends are never forced: a full seed that reports after the last
  incomplete node has gone wedges the tracker (finding 1), and `Spreads` is about the runs in
  which that does not come first. `Spreads` states the rest as its premise: the seeds stay and have every
  chunk between them, no check has wedged a shard, no living node is taken for silent,
  fewer running nodes than a list is long lack their port, writes fail finitely often.

`Eviction` has its deadlines in the guards: time does not pass what is due.

## Proofs

TLAPS proves, for every value of the constants that satisfies the named assumptions
(shard maps are functions, contents differ from the marks "absent" and "torn", the
candidate lists are sequences of peers, bounds are numbers):

* `TrackerProofs`: `TypeOK`; `NeverComplete`, from an invariant saying that a check
  stands at or before the shard that its own entry locks, so it has a lock to wait
  for and is never at the last shard's end; `OnlyCompletionBlocks`
  (without a check no lock is held by a thread that waits for one of its own kind:
  waiting goes from the job table down to the node tables, in shard order);
  `WedgeFreezesShard`; `CancelSticks`; `PeerQueryRegular`, from an invariant saying what
  the scan has found of the shards it has passed and, once it is cut, that whoever is left
  out comes from behind the last of a full answer; and that `Tracker` implements
  `Registry`, where a shard scanned, a lock taken and a visit begun are stutters, and one
  shard of an eviction is one `Evict`.
* `DownloaderProofs`: all safety properties of the `downloader` run. None of them is
  inductive by itself. `Integrity` needs that writers work on unmarked chunks
  (`OneTaskPerChunk`), that needs that a round hands out each chunk once and that no
  task outlives a round (`RoundInv`), and marking needs what a task knows at each
  stage (`TaskInv`). Reports of the running life stay within the bitmap, or within
  the intact files after a crash (`ReportInv`).
* `DeltaProofs`: `UpdateYieldsNewVersion` and `VerdictsHold`. The patch's
  three sets partition the chunks of both versions; each pass keeps what it has
  already done of its own set, the deletion never meets a chunk of the new version, and
  what is written is in `begun` until the process ends.
* `SwarmProofs`: the safety properties and the refinements of the `swarm` run.
  `OnlyOldIdsMislead` is not inductive: of a running process neither the tracker
  (`BitsInv`) nor any list (`CandsInv`) may name a chunk that the process has not marked,
  which holds as marks only grow within a life and a restart takes an id that nobody
  has heard of (`BitsInv` again); what is marked is on disk (`HaveInv`), since a task
  only writes chunks that are not marked (`TaskInv`), whichever writes fail. That a
  process without its port serves nobody is all that has to be excepted. Assumed: machines
  and seeds are apart, and the ids finitely many.
* `EvictionProofs`: both properties for all intervals, timeouts and delays. `LiveStays`
  from the age of an entry in terms of losses, the heartbeat under way and the next tick
  (`FreshInv`), as long as no heartbeat was slow; `DeadLeaves` from the age an entry may
  have when the next pass is still `sweep` away (`AgeInv`).
* `PipelineProofs`: all properties of the `pipeline` run for all files, sizes and widths:
  that the ranges partition the file exactly when nothing wraps, that bits survive
  their bytes, and that merging what was split gives the data. `StreamCorrect` bounds
  finding 5: a streamed manifest is right exactly when no read was short.

The refinements that tie the modules together:

* `Downloader` implements `Nodes`: a chunk counts as received from the moment its file is
  whole, a step before the bit is set. The steps of rounds, queries and pauses, and a
  write begun over a file already torn, are stutters; that the write begun over a whole
  file is one of a chunk not yet received is `OneTaskPerChunk` again, and that a late
  heartbeat says nothing the disk lacks is `ReportInv`.
* `Swarm` implements `Nodes`, from `BitsInv` and `TaskInv`. It acts as `Registry`: a
  report, an eviction and the silence of an id are the registry's, what processes do is
  nothing to it. This is of the steps; the registry of a swarm starts with its job.
* `NodesProofs` has what follows for both at once: who is sent to a listed node is sent
  to whole files (`ListedIsWhole`), and a process that ended by itself has left the whole
  file, with no task to spoil it (`DoneIsWhole`). `ExitsComplete`, the same of
  `Downloader` without the detour, is proved in `DownloaderProofs`.

Fairness is beyond the prover's reach, but what fairness acts on is not. The safety
halves of two liveness properties are proved:

* of `Drains`: `RequestsAdvance` (each step of a worker takes its request down a
  well-founded order, `Nearer`: the walk, the jobs left of a shard, the shards of a node
  table) and `OnlyCompletionBlocks` (somebody can take one). Nothing is assumed of how
  many jobs and nodes come and go meanwhile.
* of `FetchesAvailable`: `RoundsGain`. A round that leaves a chunk out is full
  (by counting below the least chunk left out), so with fewer chunks out of reach than a round
  takes one of its chunks can be had; and a task on such a chunk never
  gives up before the candidate that has it, as its list still holds one or another
  attempt follows (an invariant on lists and attempts, `HopeInv`).

`SilenceIsFinal` is the converse, for finding 2: a waiting task keeps its permit, so the
round's join never comes (`Join` awaits all), and no step but `Collect` adds to a round.

Only model-checked: the liveness properties themselves (`Drains`, `FetchesAvailable`,
`ReportedWhileRunning`, `Spreads`), which add fairness to these, and of course what the
violated runs show.

## Not modelled

* `metrics.rs`, `error.rs`, most of the argument parsing, the self test: no behaviour of
  interest. `model-distribution-examples.rs` is a sketch outside the crate.
* `rarity_order`, `replica_counts`, `completion_ratio` of a job, `TailConfig`'s
  thresholds: nothing calls or reads them.
* Seeding: no code of this commit puts the first chunks anywhere; `Swarm` takes seeds
  for given. Heartbeats under way in the swarm (they are in `Downloader` and
  `Eviction`), several permits there, silent peers (finding 2).
* `DeltaPatch::needs_fetch` and `verify_chunk`: nothing calls them. A shared chunk found
  corrupt could not be repaired through `verify_chunk`, which refuses an index outside
  the changed set; with the downloader of this commit that never comes up.
* The answer to a `CreateJob` with an unknown policy (`server.rs:72-75`): an error, no state.
* The Reed-Solomon code and SHA-256: taken for what they promise.
* A node that advertises `0.0.0.0`: the models take an address for one that others reach.
* Panics in tasks: a wrapped or missing index ends a task or a thread in Rust; with a
  manifest that the crate built and that covers its file none is reachable from the
  modelled operations but those that `Pipeline` shows.

The plan of the first version is done; what a next one could add is the tracker after a
repair of finding 1: what then becomes of cancelled jobs and of nodes that exit before
they report.
