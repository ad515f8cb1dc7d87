------------------------------- MODULE Downloader -------------------------------
(***************************************************************************)
(* One peer node: its download loop and the tasks it spawns                *)
(* (src/src/peer/downloader.rs), its heartbeats (peer/mod.rs) and the      *)
(* files its chunk server hands out (peer/chunk_server.rs), with crashes   *)
(* and restarts over the same data directory.                              *)
(*                                                                         *)
(* A task holds one permit of the semaphore from its spawn to its end, so  *)
(* tasks are indexed by permits.  The tracker and the other peers are the  *)
(* environment: the lists it may answer and what a peer may send.  Content *)
(* is abstracted to what verification tells apart: "good" matches the      *)
(* manifest, "torn" has the wrong length, "other" has the right length and *)
(* the wrong hash (an earlier version of the file, corruption).            *)
(***************************************************************************)
EXTENDS Integers, Sequences, FiniteSets

CONSTANTS
  Chunk,        \* chunk indices
  Permit,       \* the permits of the semaphore, config.concurrency of them
  Peer,
  Answers,      \* per chunk: the candidate lists; <<>> is no peer or a failed query
  Serves,       \* per peer and chunk: what it may send; {} if it never answers
  MaxAttempts,  \* attempts of a task, 3 in the code
  MaxLives,     \* how often the process may be started
  MaxNet,       \* heartbeats under way at a time
  DiskMayFail   \* whether a write may fail

ASSUME ChunkAssumption == Chunk \subseteq Nat /\ IsFiniteSet(Chunk)
ASSUME PermitAssumption == IsFiniteSet(Permit)
ASSUME BoundAssumption ==
  /\ MaxAttempts \in Nat \ {0} /\ MaxLives \in Nat \ {0} /\ MaxNet \in Nat
  /\ DiskMayFail \in BOOLEAN

Content == {"absent", "torn", "other", "good"}

\* A connection that fails, an error status, or the bytes of a file.
Reply == {"refused"} \cup Content

ASSUME PeerAssumption ==
  /\ Answers \in [Chunk -> SUBSET Seq(Peer)]
  /\ Serves \in [Peer -> [Chunk -> SUBSET Reply]]

VARIABLES
  phase,     \* where the download loop stands; "exited" or "down" without a process
  queue,     \* chunks of this round not yet handed to a task
  task,      \* per permit, the task that holds it
  bitmap,    \* cfg.bitmap, in memory
  disk,      \* per chunk, its file in data_dir
  life,      \* how often the process was started; each has a node id of its own
  net,       \* heartbeats sent and not yet handled by the tracker
  waits,     \* the heartbeat loop waits for an answer
  reported   \* per life, the last bitmap the tracker handled

vars == <<phase, queue, task, bitmap, disk, life, net, waits, reported>>

Life == 1 .. MaxLives

Task == [stage   : {"free", "query", "fetch", "write", "writing", "mark", "backoff"},
         chunk   : Chunk \cup {-1},
         attempt : 0 .. MaxAttempts - 1,
         peers   : Seq(Peer),      \* candidates left in this attempt
         data    : Reply]          \* what the last peer sent

Free == [stage |-> "free", chunk |-> -1, attempt |-> 0, peers |-> <<>>, data |-> "refused"]

\* Types: no task makes an attempt beyond the last, and no chunk is out of range.
TypeOK ==
  /\ phase \in {"collect", "spawn", "join", "exited", "down"}
  /\ queue \subseteq Chunk
  /\ task \in [Permit -> Task]
  /\ bitmap \subseteq Chunk
  /\ disk \in [Chunk -> Content]
  /\ life \in Life
  /\ net \subseteq [life : Life, bits : SUBSET Chunk]
  /\ waits \in BOOLEAN
  /\ reported \in [Life -> SUBSET Chunk]

\* data_dir may hold whatever an earlier job left, chunks that the version of this
\* one shares or not, whole or torn: a file's name has no version.
Init ==
  /\ phase = "collect"
  /\ queue = {}
  /\ task = [k \in Permit |-> Free]
  /\ bitmap = {}
  /\ disk \in [Chunk -> Content]
  /\ life = 1
  /\ net = {}
  /\ waits = FALSE
  /\ reported = [l \in Life |-> {}]

-----------------------------------------------------------------------------
(* downloader::run *)

Running == phase \in {"collect", "spawn", "join"}

Window == 2 * Cardinality(Permit)

\* Mutant: no more than there are permits.
FirstMissingFew ==
  {c \in Chunk \ bitmap :
     Cardinality({d \in Chunk \ bitmap : d < c}) < Cardinality(Permit)}

\* missing().take(concurrency * 2): always the lowest indices.
FirstMissing ==
  {c \in Chunk \ bitmap : Cardinality({d \in Chunk \ bitmap : d < c}) < Window}

\* A round begins, or the loop ends and with it the process.
Collect ==
  /\ phase = "collect"
  /\ IF bitmap = Chunk
       THEN phase' = "exited" /\ queue' = {}
       ELSE phase' = "spawn" /\ queue' = FirstMissing
  /\ UNCHANGED <<task, bitmap, disk, life, net, waits, reported>>

\* The next chunk of the round gets a task once a permit is free; one that is
\* complete by now is passed over.
Spawn(k) ==
  /\ phase = "spawn"
  /\ \E c \in queue :
       /\ \A d \in queue : c <= d
       /\ queue' = queue \ {c}
       /\ IF c \in bitmap THEN UNCHANGED task
          ELSE /\ task[k] = Free
               /\ task' = [task EXCEPT ![k] = [Free EXCEPT !.stage = "query", !.chunk = c]]
  /\ UNCHANGED <<phase, bitmap, disk, life, net, waits, reported>>

EndSpawn ==
  /\ phase = "spawn" /\ queue = {}
  /\ phase' = "join"
  /\ UNCHANGED <<queue, task, bitmap, disk, life, net, waits, reported>>

\* Mutant: the handles are dropped instead of awaited.
JoinAtOnce ==
  /\ phase = "join"
  /\ phase' = "collect"
  /\ UNCHANGED <<queue, task, bitmap, disk, life, net, waits, reported>>

\* Every handle is awaited before the next round.
Join ==
  /\ phase = "join"
  /\ \A k \in Permit : task[k] = Free
  /\ phase' = "collect"
  /\ UNCHANGED <<queue, task, bitmap, disk, life, net, waits, reported>>

-----------------------------------------------------------------------------
(* A task *)

Step(k, t) ==
  /\ task' = [task EXCEPT ![k] = t]
  /\ UNCHANGED <<phase, queue, life, net, waits, reported>>

Query(k) ==
  LET t == task[k] IN
  /\ t.stage = "query"
  /\ \E ps \in Answers[t.chunk] :
       Step(k, [t EXCEPT !.stage = IF ps = <<>> THEN "backoff" ELSE "fetch", !.peers = ps])
  /\ UNCHANGED <<bitmap, disk>>

\* Mutant: the first failure ends the attempt.
NextPeerGivesUp(t) ==
  [t EXCEPT !.stage = "backoff", !.peers = Tail(@), !.data = "refused"]

\* The candidate failed: on to the next of the list, or to a pause.
NextPeer(t) ==
  [t EXCEPT !.stage = IF Len(t.peers) > 1 THEN "fetch" ELSE "backoff",
            !.peers = Tail(@), !.data = "refused"]

\* Mutant: the hash is not compared.
VerifiedByLength(r) == r \in {"good", "other"}

\* The checks of status, length and hash.
Verified(r) == r = "good"

Fetch(k) ==
  LET t == task[k] IN
  /\ t.stage = "fetch"
  /\ \E r \in Serves[Head(t.peers)][t.chunk] :
       Step(k, IF Verified(r) THEN [t EXCEPT !.stage = "write", !.data = r] ELSE NextPeer(t))
  /\ UNCHANGED <<bitmap, disk>>

\* Mutant: the chunk is marked before it is written.
BeginWriteMarks(k) ==
  /\ task[k].stage = "write"
  /\ Step(k, [task[k] EXCEPT !.stage = "writing"])
  /\ disk' = [disk EXCEPT ![task[k].chunk] = "torn"]
  /\ bitmap' = bitmap \cup {task[k].chunk}

\* fs::write truncates the file before it fills it.
BeginWrite(k) ==
  /\ task[k].stage = "write"
  /\ Step(k, [task[k] EXCEPT !.stage = "writing"])
  /\ disk' = [disk EXCEPT ![task[k].chunk] = "torn"]
  /\ UNCHANGED bitmap

EndWrite(k) ==
  /\ task[k].stage = "writing"
  /\ Step(k, [task[k] EXCEPT !.stage = "mark"])
  /\ disk' = [disk EXCEPT ![task[k].chunk] = task[k].data]
  /\ UNCHANGED bitmap

\* Mutant: the result of the write is ignored.
FailWriteIgnored(k) ==
  /\ DiskMayFail
  /\ task[k].stage \in {"write", "writing"}
  /\ Step(k, [task[k] EXCEPT !.stage = "mark"])
  /\ UNCHANGED <<bitmap, disk>>

\* The file cannot be opened, or not be filled and stays as it is.
FailWrite(k) ==
  /\ DiskMayFail
  /\ task[k].stage \in {"write", "writing"}
  /\ Step(k, NextPeer(task[k]))
  /\ UNCHANGED <<bitmap, disk>>

\* mark_complete; the task returns and its permit is free.
Mark(k) ==
  /\ task[k].stage = "mark"
  /\ Step(k, Free)
  /\ bitmap' = bitmap \cup {task[k].chunk}
  /\ UNCHANGED disk

\* Mutant: one attempt too many.
BackoffLate(k) ==
  LET t == task[k] IN
  /\ t.stage = "backoff"
  /\ Step(k, IF t.attempt = MaxAttempts THEN Free
             ELSE [t EXCEPT !.stage = "query", !.attempt = @ + 1, !.peers = <<>>])
  /\ UNCHANGED <<bitmap, disk>>

\* The sleep after a failed attempt, the last one included.
Backoff(k) ==
  LET t == task[k] IN
  /\ t.stage = "backoff"
  /\ Step(k, IF t.attempt + 1 = MaxAttempts THEN Free
             ELSE [t EXCEPT !.stage = "query", !.attempt = @ + 1, !.peers = <<>>])
  /\ UNCHANGED <<bitmap, disk>>

Work(k) ==
  \/ Query(k)
  \/ Fetch(k)
  \/ BeginWrite(k)
  \/ EndWrite(k)
  \/ FailWrite(k)
  \/ Mark(k)
  \/ Backoff(k)

-----------------------------------------------------------------------------
(* Heartbeats: each on a connection of its own, the next not before this one *)
(* is answered or its connection fails, which tells nothing of its arrival.  *)
(* Nothing ends the wait for an answer that does not come.                   *)

Beat ==
  /\ Running /\ ~waits /\ Cardinality(net) < MaxNet
  /\ net' = net \cup {[life |-> life, bits |-> bitmap]}
  /\ waits' = TRUE
  /\ UNCHANGED <<phase, queue, task, bitmap, disk, life, reported>>

\* Mutant: an entry that is there keeps its first bitmap.
DeliverFirst(m) ==
  /\ m \in net
  /\ net' = net \ {m}
  /\ reported' = [reported EXCEPT ![m.life] = IF @ = {} THEN m.bits ELSE @]
  /\ UNCHANGED <<phase, queue, task, bitmap, disk, life, waits>>

Deliver(m) ==
  /\ m \in net
  /\ net' = net \ {m}
  /\ reported' = [reported EXCEPT ![m.life] = m.bits]
  /\ UNCHANGED <<phase, queue, task, bitmap, disk, life, waits>>

Lose(m) ==
  /\ m \in net
  /\ net' = net \ {m}
  /\ UNCHANGED <<phase, queue, task, bitmap, disk, life, waits, reported>>

\* The answer, or an error of the connection while the heartbeat may still be on its way.
Resume ==
  /\ waits
  /\ waits' = FALSE
  /\ UNCHANGED <<phase, queue, task, bitmap, disk, life, net, reported>>

-----------------------------------------------------------------------------
(* The process *)

\* The files stay as they are; a crash that no restart follows is a stop.
Crash ==
  /\ Running /\ life < MaxLives
  /\ phase' = "down"
  /\ queue' = {}
  /\ task' = [k \in Permit |-> Free]
  /\ bitmap' = {}
  /\ UNCHANGED <<disk, life, net, waits, reported>>

\* PeerNode::run: a fresh id, an empty bitmap, whatever data_dir holds.
Restart ==
  /\ ~Running /\ life < MaxLives
  /\ phase' = "collect"
  /\ bitmap' = {}
  /\ life' = life + 1
  /\ waits' = FALSE
  /\ UNCHANGED <<queue, task, disk, net, reported>>

Loop ==
  \/ Collect
  \/ \E k \in Permit : Spawn(k)
  \/ EndSpawn
  \/ Join

Next ==
  \/ Loop
  \/ \E k \in Permit : Work(k)
  \/ Beat
  \/ \E m \in net : Deliver(m) \/ Lose(m)
  \/ Resume
  \/ Crash
  \/ Restart

Spec == Init /\ [][Next]_vars

\* The runtime polls the loop and every task; a request ends with a reply or an
\* error unless the peer is silent, for no await has a timeout.  A heartbeat is sent
\* every five seconds while the process lives and waits for no other; that it arrives,
\* or ever ends, is not assumed.
FairSpec ==
  /\ Spec
  /\ WF_vars(Loop)
  /\ \A k \in Permit : WF_vars(Work(k))
  /\ WF_vars(Beat)

-----------------------------------------------------------------------------
(* Properties *)

Busy(k) == task[k].stage # "free"

\* A chunk is marked only once its verified content is on disk, and nothing
\* touches the file of a marked chunk again ("Zero tolerance for corrupted data
\* reaching nodes", model-distribution-spec.md:44).
Integrity == \A c \in bitmap : disk[c] = "good"

\* No two tasks work on one chunk, so no two writes to one file overlap, and no
\* task fetches a chunk that is already there.
OneTaskPerChunk ==
  \A k \in Permit : Busy(k) =>
    /\ task[k].chunk \notin bitmap
    /\ \A l \in Permit \ {k} : Busy(l) => task[l].chunk # task[k].chunk

\* What the tracker knows of the running node is true: late, lost or reordered,
\* a heartbeat only ever names chunks that its chunk server has in full.
ReportedIsServable ==
  /\ \A c \in reported[life] : disk[c] = "good"
  /\ \A m \in net : m.life = life => \A c \in m.bits : disk[c] = "good"

\* The process ends by itself only with the whole file on disk, verified, and
\* with no task left that could still write to it.
ExitsComplete ==
  phase = "exited" => /\ \A c \in Chunk : disk[c] = "good"
                      /\ \A k \in Permit : ~Busy(k)

\* A chunk that can be had: every list has a peer that always serves it.
Available(c) ==
  \A ps \in Answers[c] :
    \E i \in 1 .. Len(ps) : Serves[ps[i]][c] = {"good"}

NobodySilent ==
  \A c \in Chunk : Answers[c] # {} /\ \A p \in Peer : Serves[p][c] # {}

\* Peers that refuse, lack the chunk or send corrupt bytes only cost time: as long
\* as all of them answer and fewer chunks than a round takes are out of reach, the
\* others all arrive ("downloader moves to next candidate", README.md:339).
FetchesAvailable ==
  (NobodySilent /\ Cardinality({c \in Chunk : ~Available(c)}) < Window) =>
    \A c \in Chunk : Available(c) => <>(c \in bitmap)

\* "downloaders retry next candidate peer automatically" (README.md:337): a peer
\* that is gone without a word holds no task for ever.
SilentPeerIsLeft ==
  \A k \in Permit, p \in Peer :
    (task[k].stage = "fetch" /\ Head(task[k].peers) = p)
      ~> ~(task[k].stage = "fetch" /\ Head(task[k].peers) = p)

\* No heartbeat hangs for ever, and of those sent again and again some arrive.
TrackerReached == []<>~waits /\ SF_vars(\E m \in net : Deliver(m))

\* A received chunk is reported while the process lives, whatever heartbeats are lost,
\* come late or are overtaken by later ones, if the tracker can be reached: one that
\* hangs holds up all others.  A process that ends may take its last chunk with it.
ReportedWhileRunning ==
  TrackerReached =>
    \A c \in Chunk, l \in Life :
      (life = l /\ c \in bitmap)
        ~> (c \in reported[l] \/ life # l \/ phase \in {"down", "exited"})

\* "Any node can resume an interrupted download from the last completed chunk"
\* (model-distribution-spec.md:34): a chunk that the tracker was told of is not
\* fetched and written over again.
Resumes ==
  [][\A c \in Chunk : (disk[c] = "good" /\ \E l \in Life : c \in reported[l])
                       => disk'[c] = "good"]_vars

\* The chunks that the round still has to deal with.
InRound(c) == c \in queue \/ \E k \in Permit : Busy(k) /\ task[k].chunk = c

OutOfReach == {c \in Chunk : ~Available(c)}

\* Every round brings the download on, whatever candidates fail: if fewer chunks than
\* a round takes are out of reach, a round begins with one that can be had, and such a
\* chunk leaves the round only for the bitmap, or with the process.
RoundsGain ==
  [][(~DiskMayFail /\ Cardinality(OutOfReach) < Window) =>
       /\ (phase = "collect" /\ \E c \in Chunk \ bitmap : Available(c)) =>
            \/ \E c \in queue' \ bitmap : Available(c)
            \/ phase' = phase \/ phase' = "down"
       /\ \A c \in Chunk : Available(c) /\ InRound(c) =>
            InRound(c)' \/ c \in bitmap' \/ phase' = "down"]_vars

\* The candidate never answers.
Waits(k) == /\ task[k].stage = "fetch"
            /\ Serves[Head(task[k].peers)][task[k].chunk] = {}

\* One silent candidate is the end of the download (finding 2): its task waits until the
\* process is killed, and until then nothing arrives but the rest of this round.
SilenceIsFinal ==
  [][\A k \in Permit : Waits(k) =>
       \/ phase' = "down"
       \/ /\ Waits(k)'
          /\ \A c \in Chunk : /\ InRound(c)' => InRound(c)
                              /\ c \in bitmap' \ bitmap => InRound(c)]_vars

\* What a node is to the others: a chunk counts as received once its file is whole.
N == INSTANCE Nodes WITH
       Machine <- {"me"},
       phase  <- [m \in {"me"} |-> IF Running THEN "up"
                                   ELSE IF phase = "exited" THEN "done" ELSE "down"],
       have   <- [m \in {"me"} |->
                    bitmap \cup {task[k].chunk : k \in {l \in Permit : task[l].stage = "mark"}}],
       files  <- [m \in {"me"} |-> {c \in Chunk : disk[c] = "good"}],
       listed <- [m \in {"me"} |-> reported[life]]

\* Tasks, rounds, torn files and heartbeats in any order implement the node that
\* receives a chunk in one step and is heard of at once.
ImplementsNodes == N!Spec
=============================================================================
