---------------------------- MODULE DownloaderProofs ----------------------------
(* Theorems about Downloader for every value of its constants. *)
EXTENDS Downloader, Lemmas, FiniteSetTheorems, TLAPS

\* What a permit's task has reached: a free permit has no leftovers, a task works
\* on a chunk, still has a candidate while it fetches, writes only verified bytes
\* and marks a chunk whose file holds them.
TaskInv ==
  \A k \in Permit :
    /\ task[k].stage = "free" => task[k] = Free
    /\ task[k].stage # "free" => task[k].chunk \in Chunk
    /\ task[k].stage = "fetch" => task[k].peers # <<>>
    /\ task[k].stage \in {"write", "writing", "mark"} =>
         task[k].data = "good" /\ task[k].peers # <<>>
    /\ task[k].stage = "mark" => disk[task[k].chunk] = "good"

\* A round hands out each of its chunks once; between rounds and without a process
\* no task runs.
RoundInv ==
  /\ phase # "spawn" => queue = {}
  /\ phase \notin {"spawn", "join"} => \A k \in Permit : ~Busy(k)
  /\ queue \cap bitmap = {}
  /\ \A k \in Permit : Busy(k) => task[k].chunk \notin queue
  /\ phase = "exited" => bitmap = Chunk

\* What this life's heartbeats may name: a crash forgets the bitmap, not the files.
Known == IF phase = "down" THEN {c \in Chunk : disk[c] = "good"} ELSE bitmap

ReportInv ==
  /\ reported[life] \subseteq Known
  /\ \A m \in net : m.life <= life /\ (m.life = life => m.bits \subseteq Known)
  /\ \A l \in Life : l > life => reported[l] = {}

IInv == TypeOK /\ TaskInv /\ RoundInv /\ OneTaskPerChunk /\ Integrity /\ ReportInv

LEMMA FreeTask == Free \in Task
  BY BoundAssumption DEF Free, Task, Reply, Content

LEMMA InitInv == Init => IInv
<1> SUFFICES ASSUME Init PROVE IInv
  OBVIOUS
<1> USE DEF Init
<1>1. TypeOK
  <2>1. waits \in BOOLEAN
    OBVIOUS
  <2>2. task \in [Permit -> Task] /\ life \in Life
    BY FreeTask, BoundAssumption DEF Life
  <2> QED BY <2>1, <2>2 DEF TypeOK, Life, Content
<1>2. TaskInv /\ RoundInv /\ OneTaskPerChunk /\ Integrity
  BY DEF TaskInv, RoundInv, OneTaskPerChunk, Integrity, Busy, Free
<1>3. ReportInv
  BY BoundAssumption DEF ReportInv, Life
<1> QED BY <1>1, <1>2, <1>3 DEF IInv

\* The loop itself touches no file, no bitmap and no report.
LEMMA LoopStep ==
  ASSUME IInv, Loop
  PROVE  IInv'
<1> USE DEF IInv, Busy
<1>1. CASE Collect
  <2>1. FirstMissing \subseteq Chunk \ bitmap
    BY DEF FirstMissing
  <2>2. TypeOK'
    BY <1>1, <2>1 DEF Collect, TypeOK
  <2>3. TaskInv' /\ OneTaskPerChunk' /\ Integrity'
    BY <1>1 DEF Collect, TaskInv, OneTaskPerChunk, Integrity
  <2>4. RoundInv'
    BY <1>1, <2>1 DEF Collect, RoundInv
  <2>5. ReportInv'
    BY <1>1 DEF Collect, ReportInv, Known
  <2> QED BY <2>2, <2>3, <2>4, <2>5
<1>2. ASSUME NEW k \in Permit, Spawn(k) PROVE IInv'
  <2>1. PICK c \in queue :
          /\ queue' = queue \ {c}
          /\ IF c \in bitmap THEN UNCHANGED task
             ELSE /\ task[k] = Free
                  /\ task' = [task EXCEPT ![k] = [Free EXCEPT !.stage = "query", !.chunk = c]]
    BY <1>2 DEF Spawn
  <2>2. c \in Chunk /\ c \notin bitmap
    BY DEF TypeOK, RoundInv
  <2>3. task'[k].stage = "query" /\ task'[k].chunk = c /\ \A l \in Permit \ {k} : task'[l] = task[l]
    BY <2>1, <2>2 DEF TypeOK, Free
  <2>4. [Free EXCEPT !.stage = "query", !.chunk = c] \in Task
    BY <2>2, FreeTask DEF Task
  <2>5. TypeOK'
    BY <1>2, <2>1, <2>2, <2>4 DEF Spawn, TypeOK
  <2>6. TaskInv' /\ Integrity'
    BY <1>2, <2>2, <2>3 DEF Spawn, TaskInv, Integrity
  <2>7. OneTaskPerChunk'
    BY <1>2, <2>2, <2>3 DEF Spawn, OneTaskPerChunk, RoundInv
  <2>8. RoundInv'
    BY <1>2, <2>1, <2>2, <2>3 DEF Spawn, RoundInv
  <2>9. ReportInv'
    BY <1>2 DEF Spawn, ReportInv, Known
  <2> QED BY <2>5, <2>6, <2>7, <2>8, <2>9
<1>3. CASE EndSpawn
  BY <1>3 DEF EndSpawn, TypeOK, TaskInv, RoundInv, OneTaskPerChunk, Integrity, ReportInv, Known
<1>4. CASE Join
  <2>1. \A k \in Permit : task[k].stage = "free"
    BY <1>4 DEF Join, Free
  <2> QED BY <1>4, <2>1 DEF Join, TypeOK, TaskInv, RoundInv, OneTaskPerChunk, Integrity, ReportInv, Known
<1> QED BY <1>1, <1>2, <1>3, <1>4 DEF Loop

\* A heartbeat carries the bitmap as it is; what arrives is what was sent.
LEMMA HeartbeatStep ==
  ASSUME IInv, Beat \/ Resume \/ \E m \in net : Deliver(m) \/ Lose(m)
  PROVE  IInv'
<1> USE DEF IInv
<1>1. TaskInv' /\ RoundInv' /\ OneTaskPerChunk' /\ Integrity'
  BY DEF Beat, Resume, Deliver, Lose, TaskInv, RoundInv, OneTaskPerChunk, Integrity, Busy
<1>2. CASE Beat
  <2>1. life \in Int /\ bitmap = Known
    BY <1>2, BoundAssumption DEF Beat, Running, Known, TypeOK, Life
  <2> QED BY <1>1, <1>2, <2>1 DEF Beat, TypeOK, ReportInv, Known
<1>3. ASSUME NEW m \in net, Deliver(m) PROVE IInv'
  <2>1. m.life \in Life /\ m.bits \subseteq Chunk /\ m.life <= life
    BY DEF TypeOK, ReportInv
  <2>2. life \in Int /\ \A l \in Life : l \in Int
    BY BoundAssumption DEF TypeOK, Life
  <2>3. TypeOK'
    BY <1>3, <2>1 DEF Deliver, TypeOK
  <2>4. ReportInv'
    BY <1>3, <2>1, <2>2 DEF Deliver, TypeOK, ReportInv, Known
  <2> QED BY <1>1, <2>3, <2>4
<1>4. ASSUME NEW m \in net, Lose(m) PROVE IInv'
  BY <1>1, <1>4 DEF Lose, TypeOK, ReportInv, Known
<1>5. CASE Resume
  BY <1>1, <1>5 DEF Resume, TypeOK, ReportInv, Known
<1> QED BY <1>2, <1>3, <1>4, <1>5

LEMMA ProcessStep ==
  ASSUME IInv, Crash \/ Restart
  PROVE  IInv'
<1> USE DEF IInv
<1>1. life \in Int /\ life >= 1 /\ MaxLives \in Int /\ \A l \in Life : l \in Int
  BY BoundAssumption DEF TypeOK, Life
<1>2. CASE Crash
  <2>1. TypeOK'
    BY <1>2, FreeTask DEF Crash, TypeOK
  <2>2. TaskInv' /\ RoundInv' /\ OneTaskPerChunk' /\ Integrity'
    BY <1>2 DEF Crash, TaskInv, RoundInv, OneTaskPerChunk, Integrity, Busy, Free
  <2>3. Known \subseteq Known'
    BY <1>2 DEF Crash, Running, Known, Integrity, TypeOK
  <2> QED BY <1>2, <2>1, <2>2, <2>3 DEF Crash, ReportInv
<1>3. CASE Restart
  <2>1. life' \in Life /\ life' = life + 1
    BY <1>1, <1>3 DEF Restart, Life
  <2>2. TypeOK'
    BY <1>3, <2>1 DEF Restart, TypeOK
  <2>3. TaskInv' /\ OneTaskPerChunk' /\ Integrity' /\ RoundInv'
    BY <1>3 DEF Restart, Running, TaskInv, RoundInv, OneTaskPerChunk, Integrity, Busy
  <2>4. \A m \in net : m.life \in Int
    BY <1>1 DEF TypeOK
  <2>5. ReportInv'
    BY <1>1, <1>3, <2>1, <2>4 DEF Restart, ReportInv, TypeOK
  <2> QED BY <2>2, <2>3, <2>5
<1> QED BY <1>2, <1>3

-----------------------------------------------------------------------------
\* What a step of the task that holds permit k leaves behind.
LEMMA StepTask ==
  ASSUME TypeOK, NEW k \in Permit, NEW t \in Task, Step(k, t)
  PROVE  /\ task' \in [Permit -> Task]
         /\ task'[k] = t
         /\ \A l \in Permit \ {k} : task'[l] = task[l]
  BY DEF TypeOK, Step

LEMMA NextPeerTask ==
  ASSUME NEW t \in Task, t.peers # <<>>
  PROVE  /\ NextPeer(t) \in Task
         /\ NextPeer(t).chunk = t.chunk
         /\ NextPeer(t).stage \in {"fetch", "backoff"}
         /\ NextPeer(t).stage = "fetch" => NextPeer(t).peers # <<>>
<1> DEFINE q == Tail(t.peers)
           s == IF Len(t.peers) > 1 THEN "fetch" ELSE "backoff"
<1>1. t.peers \in Seq(Peer)
  BY DEF Task
<1>2. q \in Seq(Peer)
  BY <1>1
<1>3. Len(t.peers) > 1 => q # <<>>
  <2>1. Len(t.peers) > 1 => Len(q) = Len(t.peers) - 1 /\ Len(t.peers) \in Nat
    BY <1>1
  <2> HIDE DEF q
  <2>2. q = <<>> => Len(q) = 0
    OBVIOUS
  <2> QED BY <2>1, <2>2
<1>4. NextPeer(t) = [t EXCEPT !.stage = s, !.peers = q, !.data = "refused"]
  BY DEF NextPeer
<1> HIDE DEF q
<1>5. NextPeer(t) \in Task
  BY <1>2, <1>4 DEF Task, Reply
<1>6. NextPeer(t).chunk = t.chunk /\ NextPeer(t).stage = s /\ NextPeer(t).peers = q
  BY <1>4 DEF Task
<1> QED BY <1>3, <1>5, <1>6

\* A step that touches no file and no chunk's mark: the task goes on with its
\* chunk, as TaskInv wants it, or ends.
LEMMA QuietStep ==
  ASSUME IInv, NEW k \in Permit, NEW t \in Task, Step(k, t), UNCHANGED <<bitmap, disk>>,
         Busy(k),
         t.stage = "free" => t = Free,
         t.stage # "free" => t.chunk = task[k].chunk,
         t.stage = "fetch" => t.peers # <<>>,
         t.stage \in {"write", "writing", "mark"} => t.data = "good" /\ t.peers # <<>>,
         t.stage = "mark" => disk[t.chunk] = "good"
  PROVE  IInv'
<1> USE DEF IInv
<1>1. /\ task' \in [Permit -> Task]
      /\ task'[k] = t
      /\ \A l \in Permit \ {k} : task'[l] = task[l]
  BY StepTask
<1>2. UNCHANGED <<phase, queue, life, net, waits, reported>>
  BY DEF Step
<1>3. TypeOK'
  BY <1>1, <1>2 DEF TypeOK
<1>4. TaskInv'
  BY <1>1 DEF TaskInv, Busy
<1>5. RoundInv'
  BY <1>1, <1>2 DEF RoundInv, Busy
<1>6. OneTaskPerChunk'
  BY <1>1 DEF OneTaskPerChunk, Busy
<1>7. Integrity' /\ ReportInv'
  BY <1>2 DEF Integrity, ReportInv, Known
<1> QED BY <1>3, <1>4, <1>5, <1>6, <1>7

LEMMA WorkStep ==
  ASSUME IInv, NEW k \in Permit, Work(k)
  PROVE  IInv'
<1> DEFINE t == task[k]
<1> USE DEF IInv
<1>1. t \in Task /\ Busy(k)
  BY DEF TypeOK, Work, Query, Fetch, BeginWrite, EndWrite, FailWrite, Mark, Backoff, Busy
<1>2. t.chunk \in Chunk /\ t.chunk \notin bitmap /\ phase \in {"spawn", "join"}
  BY <1>1 DEF TaskInv, OneTaskPerChunk, RoundInv, Busy
<1>3. \A l \in Permit \ {k} : Busy(l) => task[l].chunk # t.chunk
  BY <1>1 DEF OneTaskPerChunk
<1>4. CASE Query(k)
  <2>1. PICK ps \in Answers[t.chunk] :
          Step(k, [t EXCEPT !.stage = IF ps = <<>> THEN "backoff" ELSE "fetch", !.peers = ps])
    BY <1>4 DEF Query
  <2> DEFINE u == [t EXCEPT !.stage = IF ps = <<>> THEN "backoff" ELSE "fetch", !.peers = ps]
  <2>2. ps \in Seq(Peer)
    BY <1>2, PeerAssumption
  <2>3. u \in Task
    BY <1>1, <2>2 DEF Task
  <2>4. u.chunk = t.chunk /\ u.peers = ps /\ u.stage = IF ps = <<>> THEN "backoff" ELSE "fetch"
    BY <1>1 DEF Task
  <2>5. UNCHANGED <<bitmap, disk>>
    BY <1>4 DEF Query
  <2>6. Step(k, u)
    BY <2>1
  <2> HIDE DEF u, IInv
  <2> QED BY <1>1, <2>3, <2>4, <2>5, <2>6, QuietStep
<1>5. CASE Fetch(k)
  <2>1. PICK r \in Serves[Head(t.peers)][t.chunk] :
          Step(k, IF Verified(r) THEN [t EXCEPT !.stage = "write", !.data = r] ELSE NextPeer(t))
    BY <1>5 DEF Fetch
  <2>2. t.peers # <<>> /\ UNCHANGED <<bitmap, disk>>
    BY <1>5 DEF Fetch, TaskInv
  <2>3. CASE Verified(r)
    <3> DEFINE u == [t EXCEPT !.stage = "write", !.data = r]
    <3>1. u \in Task
      BY <1>1, <2>3 DEF Task, Reply, Content, Verified
    <3>2. u.chunk = t.chunk /\ u.peers = t.peers /\ u.stage = "write" /\ u.data = "good"
      BY <1>1, <2>3 DEF Task, Verified
    <3> HIDE DEF u, IInv
    <3>3. Step(k, u)
      BY <2>1, <2>3 DEF u
    <3> QED BY <1>1, <2>2, <3>1, <3>2, <3>3, QuietStep
  <2>4. CASE ~Verified(r)
    <3> HIDE DEF IInv
    <3> QED BY <1>1, <2>1, <2>2, <2>4, NextPeerTask, QuietStep
  <2> QED BY <2>3, <2>4
<1>6. CASE BeginWrite(k)
  <2> DEFINE u == [t EXCEPT !.stage = "writing"]
  <2>1. u \in Task /\ u.stage = "writing" /\ u.chunk = t.chunk /\ u.data = t.data /\ u.peers = t.peers
    BY <1>1 DEF Task
  <2>2. /\ task' \in [Permit -> Task]
        /\ task'[k] = u
        /\ \A l \in Permit \ {k} : task'[l] = task[l]
    BY <1>6, <2>1, StepTask DEF BeginWrite
  <2>3. /\ disk' = [disk EXCEPT ![t.chunk] = "torn"]
        /\ UNCHANGED <<bitmap, phase, queue, life, net, waits, reported>>
        /\ t.stage = "write"
    BY <1>6 DEF BeginWrite, Step
  <2> HIDE DEF u
  <2>4. TypeOK'
    BY <2>2, <2>3 DEF TypeOK, Content
  <2>5. TaskInv'
    BY <1>2, <1>3, <2>1, <2>2, <2>3 DEF TaskInv, TypeOK, Busy
  <2>6. RoundInv' /\ OneTaskPerChunk'
    BY <1>1, <2>1, <2>2, <2>3 DEF RoundInv, OneTaskPerChunk, Busy
  <2>7. Integrity' /\ ReportInv'
    BY <1>2, <2>3 DEF Integrity, ReportInv, Known, TypeOK
  <2> QED BY <2>4, <2>5, <2>6, <2>7
<1>7. CASE EndWrite(k)
  <2> DEFINE u == [t EXCEPT !.stage = "mark"]
  <2>1. u \in Task /\ u.stage = "mark" /\ u.chunk = t.chunk /\ u.data = t.data /\ u.peers = t.peers
    BY <1>1 DEF Task
  <2>2. /\ task' \in [Permit -> Task]
        /\ task'[k] = u
        /\ \A l \in Permit \ {k} : task'[l] = task[l]
    BY <1>7, <2>1, StepTask DEF EndWrite
  <2>3. /\ disk' = [disk EXCEPT ![t.chunk] = t.data]
        /\ UNCHANGED <<bitmap, phase, queue, life, net, waits, reported>>
        /\ t.data = "good" /\ t.peers # <<>>
    BY <1>7 DEF EndWrite, Step, TaskInv
  <2> HIDE DEF u
  <2>4. TypeOK'
    BY <1>2, <2>2, <2>3 DEF TypeOK, Content
  <2>5. TaskInv'
    BY <1>2, <1>3, <2>1, <2>2, <2>3 DEF TaskInv, TypeOK, Busy
  <2>6. RoundInv' /\ OneTaskPerChunk'
    BY <1>1, <2>1, <2>2, <2>3 DEF RoundInv, OneTaskPerChunk, Busy
  <2>7. Integrity' /\ ReportInv'
    BY <1>2, <2>3 DEF Integrity, ReportInv, Known, TypeOK
  <2> QED BY <2>4, <2>5, <2>6, <2>7
<1>8. CASE FailWrite(k)
  <2>1. t.peers # <<>> /\ UNCHANGED <<bitmap, disk>>
    BY <1>8 DEF FailWrite, TaskInv
  <2>2. Step(k, NextPeer(t))
    BY <1>8 DEF FailWrite
  <2> HIDE DEF IInv
  <2> QED BY <1>1, <2>1, <2>2, NextPeerTask, QuietStep
<1>9. CASE Mark(k)
  <2>1. /\ task' \in [Permit -> Task]
        /\ task'[k] = Free
        /\ \A l \in Permit \ {k} : task'[l] = task[l]
    BY <1>9, FreeTask, StepTask DEF Mark
  <2>2. /\ bitmap' = bitmap \cup {t.chunk}
        /\ UNCHANGED <<disk, phase, queue, life, net, waits, reported>>
        /\ disk[t.chunk] = "good"
    BY <1>9 DEF Mark, Step, TaskInv
  <2>3. TypeOK'
    BY <1>2, <2>1, <2>2 DEF TypeOK
  <2>4. TaskInv'
    BY <2>1, <2>2 DEF TaskInv, Free
  <2>5. RoundInv'
    BY <1>1, <1>2, <2>1, <2>2 DEF RoundInv, Busy, Free
  <2>6. OneTaskPerChunk'
    BY <1>3, <2>1, <2>2 DEF OneTaskPerChunk, Busy, Free
  <2>7. Integrity' /\ ReportInv'
    BY <1>2, <2>2 DEF Integrity, ReportInv, Known
  <2> QED BY <2>3, <2>4, <2>5, <2>6, <2>7
<1>10. CASE Backoff(k)
  <2>1. UNCHANGED <<bitmap, disk>> /\ t.attempt \in 0 .. MaxAttempts - 1
    BY <1>1, <1>10 DEF Backoff, Task
  <2>2. CASE t.attempt + 1 = MaxAttempts
    <3>1. Step(k, Free) /\ Free.stage = "free"
      BY <1>10, <2>2 DEF Backoff, Free
    <3> HIDE DEF IInv, t
    <3> QED BY <1>1, <2>1, <3>1, FreeTask, QuietStep
  <2>3. CASE t.attempt + 1 # MaxAttempts
    <3> DEFINE u == [t EXCEPT !.stage = "query", !.attempt = @ + 1, !.peers = <<>>]
    <3>1. t.attempt + 1 \in 0 .. MaxAttempts - 1
      BY <2>1, <2>3, BoundAssumption
    <3> <<>> \in Seq(Peer)
      OBVIOUS
    <3>2. u \in Task
      BY <1>1, <3>1 DEF Task
    <3>3. u.stage = "query" /\ u.chunk = t.chunk
      BY <1>1 DEF Task
    <3>4. Step(k, u)
      BY <1>10, <2>3 DEF Backoff
    <3> HIDE DEF IInv, u
    <3> QED BY <1>1, <2>1, <3>2, <3>3, <3>4, QuietStep
  <2> QED BY <2>2, <2>3
<1> QED BY <1>4, <1>5, <1>6, <1>7, <1>8, <1>9, <1>10 DEF Work

LEMMA StutterStep ==
  ASSUME IInv, UNCHANGED vars
  PROVE  IInv'
  BY DEF IInv, vars, TypeOK, TaskInv, RoundInv, OneTaskPerChunk, Integrity, ReportInv,
         Known, Busy

LEMMA Invariant == Spec => []IInv
<1>1. IInv /\ [Next]_vars => IInv'
  BY LoopStep, WorkStep, HeartbeatStep, ProcessStep, StutterStep DEF Next
<1> QED BY InitInv, <1>1, PTL DEF Spec

-----------------------------------------------------------------------------
\* No step of the loop, of a task, of a heartbeat or of a crash leaves the
\* variables' types.
THEOREM DownloaderTypeCorrect == Spec => []TypeOK
<1>1. IInv => TypeOK
  BY DEF IInv
<1> QED BY Invariant, <1>1, PTL

\* Whatever peers send, writes fail and the process crashes: a chunk in the
\* bitmap has its verified content on disk.
THEOREM MarkedIsVerified == Spec => []Integrity
<1>1. IInv => Integrity
  BY DEF IInv
<1> QED BY Invariant, <1>1, PTL

\* However many permits the semaphore has, no two tasks share a chunk.
THEOREM NoChunkFetchedTwice == Spec => []OneTaskPerChunk
<1>1. IInv => OneTaskPerChunk
  BY DEF IInv
<1> QED BY Invariant, <1>1, PTL

\* Lost, late and reordered heartbeats only ever name chunks that are on disk.
THEOREM ReportsAreTrue == Spec => []ReportedIsServable
<1>1. IInv => ReportedIsServable
  BY DEF IInv, ReportInv, Known, Integrity, TypeOK, ReportedIsServable
<1> QED BY Invariant, <1>1, PTL

\* The process ends by itself only with the whole file, verified, on disk.
THEOREM ExitIsComplete == Spec => []ExitsComplete
<1>1. IInv => ExitsComplete
  BY DEF IInv, RoundInv, Integrity, ExitsComplete
<1> QED BY Invariant, <1>1, PTL
-----------------------------------------------------------------------------
(* Rounds *)

LEMMA WindowSize == Window \in Nat /\ \A S \in SUBSET Chunk : IsFiniteSet(S) /\ Cardinality(S) \in Nat
<1>1. Cardinality(Permit) \in Nat
  BY PermitAssumption, FS_CardinalityType
<1>2. \A S \in SUBSET Chunk : IsFiniteSet(S)
  BY ChunkAssumption, FS_Subset
<1> QED BY <1>1, <1>2, FS_CardinalityType DEF Window

\* A round leaves out a missing chunk only if it is full.
LEMMA RoundIsFull ==
  ASSUME NEW c \in Chunk \ bitmap, c \notin FirstMissing
  PROVE  Cardinality(FirstMissing) >= Window
<1> DEFINE Missing == Chunk \ bitmap
           Below(d) == {e \in Missing : e < d}
<1>1. /\ FirstMissing \subseteq Missing /\ Missing \subseteq Chunk /\ Missing \subseteq Nat
      /\ \A d \in Missing : d \in FirstMissing <=> Cardinality(Below(d)) < Window
  BY ChunkAssumption DEF FirstMissing
<1>2. PICK d \in Missing \ FirstMissing : \A e \in Missing \ FirstMissing : d <= e
  <2>1. Missing \ FirstMissing \in SUBSET Nat /\ Missing \ FirstMissing # {}
    BY <1>1
  <2> HIDE DEF Missing
  <2> QED BY <2>1, Least
<1>3. Below(d) \subseteq FirstMissing
  <2> SUFFICES ASSUME NEW e \in Missing, e < d PROVE e \in FirstMissing
    OBVIOUS
  <2>1. e \in Nat /\ d \in Nat
    BY <1>1
  <2> QED BY <1>2, <2>1
<1>4. Below(d) \in SUBSET Chunk /\ FirstMissing \in SUBSET Chunk
  BY <1>1
<1>5. ~ (Cardinality(Below(d)) < Window)
  BY <1>1, <1>2
<1> HIDE DEF Below, Missing
<1>6. Cardinality(Below(d)) <= Cardinality(FirstMissing)
  BY <1>3, <1>4, WindowSize, FS_Subset
<1> QED BY <1>4, <1>5, <1>6, WindowSize

\* If fewer chunks than a round takes are out of reach, every round has one that is not.
LEMMA RoundHasAvailable ==
  ASSUME Cardinality(OutOfReach) < Window, NEW c \in Chunk \ bitmap, Available(c)
  PROVE  \E d \in FirstMissing : Available(d)
<1> SUFFICES ASSUME \A d \in FirstMissing : ~Available(d) PROVE FALSE
  OBVIOUS
<1>1. FirstMissing \subseteq OutOfReach /\ OutOfReach \in SUBSET Chunk /\ FirstMissing \in SUBSET Chunk
  BY DEF FirstMissing, OutOfReach
<1>2. Cardinality(FirstMissing) <= Cardinality(OutOfReach)
  BY <1>1, WindowSize, FS_Subset
<1>3. Cardinality(FirstMissing) >= Window
  BY RoundIsFull
<1> QED BY <1>1, <1>2, <1>3, WindowSize

\* A task of a chunk that can be had never comes to a pause: among the candidates that
\* are left there is one that serves it.
HopeInv ==
  \A k \in Permit : (~DiskMayFail /\ Busy(k) /\ Available(task[k].chunk)) =>
    /\ task[k].stage # "backoff"
    /\ task[k].stage = "fetch" =>
         \E i \in 1 .. Len(task[k].peers) : Serves[task[k].peers[i]][task[k].chunk] = {"good"}

\* What a failed candidate leaves of a list that has a good one.
LEMMA GoodIsLeft ==
  ASSUME NEW t \in Task, t.peers # <<>>, NEW c,
         NEW r \in Serves[Head(t.peers)][c], r # "good",
         \E i \in 1 .. Len(t.peers) : Serves[t.peers[i]][c] = {"good"}
  PROVE  /\ NextPeer(t).stage = "fetch"
         /\ \E i \in 1 .. Len(NextPeer(t).peers) : Serves[NextPeer(t).peers[i]][c] = {"good"}
<1> DEFINE ps == t.peers
<1>1. ps \in Seq(Peer) /\ Head(ps) = ps[1] /\ Len(ps) \in Nat
  BY DEF Task
<1>2. PICK i \in 1 .. Len(ps) : Serves[ps[i]][c] = {"good"}
  OBVIOUS
<1>3. i # 1 /\ i \in Nat /\ Len(ps) > 1 /\ i - 1 \in 1 .. Len(ps) - 1
  BY <1>1, <1>2
<1>4. Len(Tail(ps)) = Len(ps) - 1 /\ Tail(ps)[i - 1] = ps[i]
  BY <1>1, <1>3
<1>5. NextPeer(t).stage = "fetch" /\ NextPeer(t).peers = Tail(ps)
  BY <1>3 DEF NextPeer, Task
<1> QED BY <1>2, <1>3, <1>4, <1>5

LEMMA HopeStep ==
  ASSUME IInv, HopeInv, [Next]_vars
  PROVE  HopeInv'
<1>1. CASE UNCHANGED task
  BY <1>1 DEF HopeInv, Busy
<1>2. ASSUME NEW k \in Permit, Spawn(k) PROVE HopeInv'
  <2>1. CASE UNCHANGED task
    BY <1>1, <2>1
  <2>2. CASE ~UNCHANGED task
    <3>1. PICK c \in queue : task' = [task EXCEPT ![k] = [Free EXCEPT !.stage = "query", !.chunk = c]]
      BY <1>2, <2>2 DEF Spawn
    <3>2. task'[k].stage = "query" /\ \A l \in Permit \ {k} : task'[l] = task[l]
      BY <3>1 DEF IInv, TypeOK, Free
    <3> QED BY <3>2 DEF HopeInv, Busy
  <2> QED BY <2>1, <2>2
<1>3. CASE Crash
  BY <1>3 DEF Crash, HopeInv, Busy, Free
<1>4. ASSUME NEW k \in Permit, Work(k) PROVE HopeInv'
  <2> DEFINE t == task[k]
  <2> SUFFICES ASSUME ~DiskMayFail, Busy(k)', Available(task'[k].chunk)
               PROVE  /\ task'[k].stage # "backoff"
                      /\ task'[k].stage = "fetch" =>
                           \E i \in 1 .. Len(task'[k].peers) :
                             Serves[task'[k].peers[i]][task'[k].chunk] = {"good"}
    <3>1. PICK u : Step(k, u)
      BY <1>4 DEF Work, Query, Fetch, BeginWrite, EndWrite, FailWrite, Mark, Backoff
    <3>2. \A l \in Permit \ {k} : task'[l] = task[l]
      BY <3>1 DEF Step, IInv, TypeOK
    <3> QED BY <3>2 DEF HopeInv, Busy
  <2>1. t \in Task /\ t.stage # "free"
    BY <1>4 DEF Work, Query, Fetch, BeginWrite, EndWrite, FailWrite, Mark, Backoff, IInv, TypeOK
  <2>2. t.chunk \in Chunk
    BY <2>1 DEF IInv, TaskInv
  <2>3. \A u \in Task : Step(k, u) => task'[k] = u
    BY DEF Step, IInv, TypeOK
  <2>4. CASE Query(k)
    <3>1. PICK ps \in Answers[t.chunk] :
            Step(k, [t EXCEPT !.stage = IF ps = <<>> THEN "backoff" ELSE "fetch", !.peers = ps])
      BY <2>4 DEF Query
    <3> DEFINE u == [t EXCEPT !.stage = IF ps = <<>> THEN "backoff" ELSE "fetch", !.peers = ps]
    <3>2. ps \in Seq(Peer)
      BY <2>2, PeerAssumption
    <3>3. u \in Task /\ u.chunk = t.chunk /\ u.peers = ps
          /\ u.stage = IF ps = <<>> THEN "backoff" ELSE "fetch"
      BY <2>1, <3>2 DEF Task
    <3>4. task'[k] = u
      BY <2>3, <3>1, <3>3
    <3> HIDE DEF u
    <3>5. PICK i \in 1 .. Len(ps) : Serves[ps[i]][t.chunk] = {"good"}
      BY <3>3, <3>4 DEF Available
    <3>6. ps # <<>>
      BY <3>2, <3>5
    <3> QED BY <3>3, <3>4, <3>5, <3>6
  <2>5. CASE Fetch(k)
    <3>1. PICK r \in Serves[Head(t.peers)][t.chunk] :
            Step(k, IF Verified(r) THEN [t EXCEPT !.stage = "write", !.data = r] ELSE NextPeer(t))
      BY <2>5 DEF Fetch
    <3>2. t.stage = "fetch" /\ t.peers # <<>>
      BY <2>5 DEF Fetch, IInv, TaskInv
    <3>3. CASE Verified(r)
      <4> DEFINE u == [t EXCEPT !.stage = "write", !.data = r]
      <4>1. u \in Task /\ u.stage = "write"
        BY <2>1, <3>3 DEF Task, Reply, Content, Verified
      <4>2. task'[k] = u
        BY <2>3, <3>1, <3>3, <4>1
      <4> QED BY <4>1, <4>2
    <3>4. CASE ~Verified(r)
      <4>1. NextPeer(t) \in Task /\ NextPeer(t).chunk = t.chunk
        BY <2>1, <3>2, NextPeerTask
      <4>2. task'[k] = NextPeer(t)
        BY <2>3, <3>1, <3>4, <4>1
      <4>3. \E i \in 1 .. Len(t.peers) : Serves[t.peers[i]][t.chunk] = {"good"}
        BY <2>1, <3>2, <4>1, <4>2 DEF HopeInv, Busy
      <4>4. r # "good"
        BY <3>4 DEF Verified
      <4>5. r \in Serves[Head(t.peers)][t.chunk]
        OBVIOUS
      <4>6. /\ NextPeer(t).stage = "fetch"
            /\ \E i \in 1 .. Len(NextPeer(t).peers) : Serves[NextPeer(t).peers[i]][t.chunk] = {"good"}
        BY <2>1, <3>2, <4>3, <4>4, <4>5, GoodIsLeft
      <4> QED BY <4>1, <4>2, <4>6
    <3> QED BY <3>3, <3>4
  <2>6. CASE BeginWrite(k) \/ EndWrite(k)
    <3>1. PICK s \in {"writing", "mark"} : Step(k, [t EXCEPT !.stage = s])
      BY <2>6 DEF BeginWrite, EndWrite
    <3>2. [t EXCEPT !.stage = s] \in Task /\ [t EXCEPT !.stage = s].stage = s
      BY <2>1 DEF Task
    <3> QED BY <2>3, <3>1, <3>2
  <2>7. CASE FailWrite(k)
    BY <2>7 DEF FailWrite
  <2>8. CASE Mark(k)
    BY <2>3, <2>8, FreeTask DEF Mark, Free, Busy
  <2>9. CASE Backoff(k)
    <3>1. CASE t.attempt + 1 = MaxAttempts
      BY <2>3, <2>9, <3>1, FreeTask DEF Backoff, Free, Busy
    <3>2. CASE t.attempt + 1 # MaxAttempts
      <4> DEFINE u == [t EXCEPT !.stage = "query", !.attempt = @ + 1, !.peers = <<>>]
      <4>1. Step(k, u)
        BY <2>9, <3>2 DEF Backoff
      <4>2. task'[k] = u
        BY <4>1 DEF Step, IInv, TypeOK
      <4>3. u.stage = "query"
        BY <2>1 DEF Task
      <4> QED BY <4>2, <4>3
    <3> QED BY <3>1, <3>2
  <2> QED BY <1>4, <2>4, <2>5, <2>6, <2>7, <2>8, <2>9 DEF Work
<1>5. CASE Collect \/ EndSpawn \/ Join \/ Beat \/ Resume \/ (\E m \in net : Deliver(m) \/ Lose(m)) \/ Restart
           \/ UNCHANGED vars
  <2>1. UNCHANGED task
    BY <1>5 DEF Collect, EndSpawn, Join, Beat, Resume, Deliver, Lose, Restart, vars
  <2> QED BY <1>1, <2>1
<1> QED BY <1>2, <1>3, <1>4, <1>5 DEF Next, Loop

\* A chunk of the round that can be had stays in the round until it is marked.
LEMMA RoundKeeps ==
  ASSUME IInv, HopeInv, [Next]_vars, ~DiskMayFail, NEW c \in Chunk, Available(c), InRound(c)
  PROVE  InRound(c)' \/ c \in bitmap' \/ phase' = "down"
<1> USE DEF InRound
<1>1. CASE c \in queue
  <2>1. CASE \E k \in Permit : Spawn(k)
    <3>1. PICK k \in Permit, d \in queue :
            /\ queue' = queue \ {d}
            /\ IF d \in bitmap THEN UNCHANGED task
               ELSE task' = [task EXCEPT ![k] = [Free EXCEPT !.stage = "query", !.chunk = d]]
      BY <2>1 DEF Spawn
    <3>2. CASE d # c
      BY <1>1, <3>1, <3>2
    <3>3. CASE d = c
      <4>1. c \notin bitmap
        BY <1>1 DEF IInv, RoundInv
      <4>2. task'[k].stage = "query" /\ task'[k].chunk = c
        BY <3>1, <3>3, <4>1 DEF IInv, TypeOK, Free
      <4> QED BY <4>2 DEF Busy
    <3> QED BY <3>2, <3>3
  <2>2. CASE ~ (\E k \in Permit : Spawn(k))
    <3>1. phase = "spawn"
      BY <1>1 DEF IInv, RoundInv
    <3>2. queue' = queue \/ phase' = "down"
      BY <1>1, <2>2, <3>1 DEF Next, Loop, Collect, EndSpawn, Join, Work, Query, Fetch, BeginWrite,
         EndWrite, FailWrite, Mark, Backoff, Step, Beat, Resume, Deliver, Lose, Crash, Restart, Running, vars
    <3> QED BY <1>1, <3>2
  <2> QED BY <2>1, <2>2
<1>2. CASE \E k \in Permit : Busy(k) /\ task[k].chunk = c
  <2>1. PICK k \in Permit : Busy(k) /\ task[k].chunk = c
    BY <1>2
  <2>2. task[k] \in Task /\ task[k].stage # "backoff" /\ task[k] # Free
    BY <2>1 DEF IInv, TypeOK, HopeInv, Busy, Free
  <2>3. CASE task'[k] = task[k]
    BY <2>1, <2>3 DEF Busy
  <2>4. ASSUME NEW u \in Task, Step(k, u), u.stage # "free", u.chunk = c PROVE InRound(c)'
    <3>1. task'[k] = u
      BY <2>4 DEF Step, IInv, TypeOK
    <3> QED BY <2>4, <3>1 DEF Busy
  <2>5. CASE Query(k)
    <3>1. PICK ps \in Answers[c] :
            Step(k, [task[k] EXCEPT !.stage = IF ps = <<>> THEN "backoff" ELSE "fetch", !.peers = ps])
      BY <2>1, <2>5 DEF Query
    <3>2. ps \in Seq(Peer)
      BY PeerAssumption
    <3> DEFINE u == [task[k] EXCEPT !.stage = IF ps = <<>> THEN "backoff" ELSE "fetch", !.peers = ps]
    <3>3. u \in Task /\ u.stage # "free" /\ u.chunk = c
      BY <2>1, <2>2, <3>2 DEF Task
    <3> HIDE DEF u
    <3> QED BY <2>4, <3>1, <3>3 DEF u
  <2>6. CASE Fetch(k)
    <3>1. PICK r \in Serves[Head(task[k].peers)][c] :
            Step(k, IF Verified(r) THEN [task[k] EXCEPT !.stage = "write", !.data = r]
                    ELSE NextPeer(task[k]))
      BY <2>1, <2>6 DEF Fetch
    <3>2. task[k].peers # <<>>
      BY <2>6 DEF Fetch, IInv, TaskInv
    <3>3. NextPeer(task[k]) \in Task /\ NextPeer(task[k]).stage # "free" /\ NextPeer(task[k]).chunk = c
      BY <2>1, <2>2, <3>2, NextPeerTask
    <3> DEFINE u == [task[k] EXCEPT !.stage = "write", !.data = r]
    <3>4. Verified(r) => u \in Task /\ u.stage # "free" /\ u.chunk = c
      BY <2>1, <2>2 DEF Task, Verified, Reply, Content
    <3> HIDE DEF u
    <3> QED BY <2>4, <3>1, <3>3, <3>4 DEF u
  <2>7. CASE BeginWrite(k) \/ EndWrite(k)
    <3>1. PICK s \in {"writing", "mark"} : Step(k, [task[k] EXCEPT !.stage = s])
      BY <2>7 DEF BeginWrite, EndWrite
    <3>2. [task[k] EXCEPT !.stage = s] \in Task /\ [task[k] EXCEPT !.stage = s].stage = s
          /\ [task[k] EXCEPT !.stage = s].chunk = c
      BY <2>1, <2>2 DEF Task
    <3> QED BY <2>4, <3>1, <3>2
  <2>8. CASE Mark(k)
    BY <2>1, <2>8 DEF Mark
  <2>9. CASE FailWrite(k) \/ Backoff(k)
    BY <2>2, <2>9 DEF FailWrite, Backoff
  <2>10. ASSUME NEW l \in Permit, l # k, Work(l) PROVE task'[k] = task[k]
    <3>1. PICK u : Step(l, u)
      BY <2>10 DEF Work, Query, Fetch, BeginWrite, EndWrite, FailWrite, Mark, Backoff
    <3> QED BY <2>10, <3>1 DEF Step, IInv, TypeOK
  <2>11. ASSUME NEW l \in Permit, Spawn(l) PROVE task'[k] = task[k]
    BY <2>2, <2>11 DEF Spawn, IInv, TypeOK
  <2>12. CASE Collect \/ EndSpawn \/ Join \/ Beat \/ Resume \/ (\E m \in net : Deliver(m) \/ Lose(m)) \/ Restart
              \/ UNCHANGED vars
    <3>1. task' = task
      BY <2>12 DEF Collect, EndSpawn, Join, Beat, Resume, Deliver, Lose, Restart, vars
    <3> QED BY <2>3, <3>1
  <2>13. CASE Crash
    BY <2>13 DEF Crash
  <2>14. CASE \E l \in Permit : Work(l)
    BY <2>3, <2>5, <2>6, <2>7, <2>8, <2>9, <2>10, <2>14 DEF Work
  <2> QED BY <2>3, <2>11, <2>12, <2>13, <2>14 DEF Next, Loop
<1> QED BY <1>1, <1>2

\* Each round brings the download on, for any number of chunks, permits and candidates.
THEOREM EveryRoundGains == Spec => RoundsGain
<1>1. Init => HopeInv
  BY DEF Init, HopeInv, Busy, Free
<1>2. Spec => []HopeInv
  BY <1>1, Invariant, HopeStep, PTL DEF Spec
<1>3. ASSUME IInv, [Next]_vars, Cardinality(OutOfReach) < Window, phase = "collect",
             NEW c \in Chunk \ bitmap, Available(c)
      PROVE  (\E d \in queue' \ bitmap : Available(d)) \/ phase' = phase \/ phase' = "down"
  <2>1. CASE Collect
    <3>1. bitmap # Chunk
      BY <1>3
    <3>2. queue' = FirstMissing /\ FirstMissing \subseteq Chunk \ bitmap
      BY <2>1, <3>1 DEF Collect, FirstMissing
    <3> QED BY <1>3, <3>2, RoundHasAvailable
  <2>2. CASE ~Collect
    BY <1>3, <2>2 DEF Next, Loop, Spawn, EndSpawn, Join, Work, Query, Fetch, BeginWrite,
       EndWrite, FailWrite, Mark, Backoff, Step, Beat, Resume, Deliver, Lose, Crash, Restart, Running, vars
  <2> QED BY <2>1, <2>2
<1>4. IInv /\ HopeInv /\ [Next]_vars =>
        [(~DiskMayFail /\ Cardinality(OutOfReach) < Window) =>
           /\ (phase = "collect" /\ \E c \in Chunk \ bitmap : Available(c)) =>
                \/ \E c \in queue' \ bitmap : Available(c)
                \/ phase' = phase \/ phase' = "down"
           /\ \A c \in Chunk : Available(c) /\ InRound(c) =>
                InRound(c)' \/ c \in bitmap' \/ phase' = "down"]_vars
  BY <1>3, RoundKeeps
<1> QED BY <1>2, <1>4, Invariant, PTL DEF Spec, RoundsGain

-----------------------------------------------------------------------------
(* A candidate that never answers *)

\* A step of a task changes no other task, and leaves its own with the chunk it had.
LEMMA WorkKeepsChunk ==
  ASSUME IInv, NEW l \in Permit, Work(l)
  PROVE  /\ Busy(l)
         /\ \A k \in Permit \ {l} : task'[k] = task[k]
         /\ Busy(l)' => task'[l].chunk = task[l].chunk
         /\ bitmap' \subseteq bitmap \cup {task[l].chunk}
         /\ UNCHANGED <<phase, queue, life, net, waits, reported>>
<1>1. PICK u : Step(l, u) /\ (u.stage # "free" => u.chunk = task[l].chunk)
  <2>1. task[l] \in Task
    BY DEF IInv, TypeOK
  <2>2. CASE Query(l)
    <3>1. PICK ps : Step(l, [task[l] EXCEPT !.stage = IF ps = <<>> THEN "backoff" ELSE "fetch",
                                            !.peers = ps])
      BY <2>2 DEF Query
    <3>2. [task[l] EXCEPT !.stage = IF ps = <<>> THEN "backoff" ELSE "fetch",
                          !.peers = ps].chunk = task[l].chunk
      BY <2>1 DEF Task
    <3> QED BY <3>1, <3>2
  <2>3. task[l].stage \in {"fetch", "write", "writing"} => NextPeer(task[l]).chunk = task[l].chunk
    BY <2>1, NextPeerTask DEF IInv, TaskInv
  <2>4. CASE Fetch(l)
    <3>1. PICK r : Step(l, IF Verified(r) THEN [task[l] EXCEPT !.stage = "write", !.data = r]
                           ELSE NextPeer(task[l]))
      BY <2>4 DEF Fetch
    <3>2. [task[l] EXCEPT !.stage = "write", !.data = r].chunk = task[l].chunk
      BY <2>1 DEF Task
    <3> QED BY <2>3, <2>4, <3>1, <3>2 DEF Fetch
  <2>5. CASE BeginWrite(l) \/ EndWrite(l)
    <3>1. PICK s : Step(l, [task[l] EXCEPT !.stage = s])
      BY <2>5 DEF BeginWrite, EndWrite
    <3>2. [task[l] EXCEPT !.stage = s].chunk = task[l].chunk
      BY <2>1 DEF Task
    <3> QED BY <3>1, <3>2
  <2>6. CASE FailWrite(l)
    BY <2>3, <2>6 DEF FailWrite
  <2>7. CASE Mark(l)
    BY <2>7 DEF Mark, Free
  <2>8. CASE Backoff(l)
    <3>1. [task[l] EXCEPT !.stage = "query", !.attempt = @ + 1, !.peers = <<>>].chunk = task[l].chunk
      BY <2>1 DEF Task
    <3>2. Free.stage = "free"
      BY DEF Free
    <3> QED BY <2>8, <3>1, <3>2 DEF Backoff
  <2> QED BY <2>2, <2>4, <2>5, <2>6, <2>7, <2>8 DEF Work
<1>2. task'[l] = u /\ \A k \in Permit \ {l} : task'[k] = task[k]
  BY <1>1 DEF Step, IInv, TypeOK
<1>3. UNCHANGED <<phase, queue, life, net, waits, reported>>
  BY <1>1 DEF Step
<1>4. Busy(l) /\ bitmap' \subseteq bitmap \cup {task[l].chunk}
  BY DEF Work, Query, Fetch, BeginWrite, EndWrite, FailWrite, Mark, Backoff, Busy
<1> QED BY <1>1, <1>2, <1>3, <1>4 DEF Busy

\* No step ends the wait but a crash, and none starts another round meanwhile.
LEMMA SilenceHolds ==
  ASSUME IInv, [Next]_vars, NEW k \in Permit, Waits(k), phase' # "down"
  PROVE  /\ Waits(k)'
         /\ \A c \in Chunk : /\ InRound(c)' => InRound(c)
                             /\ c \in bitmap' \ bitmap => InRound(c)
<1>1. task[k].stage = "fetch" /\ Serves[Head(task[k].peers)][task[k].chunk] = {} /\ task[k] # Free
  BY DEF Waits, Free
<1>2. phase \in {"spawn", "join"}
  BY <1>1 DEF IInv, RoundInv, Busy
<1>3. ~Work(k)
  BY <1>1 DEF Work, Query, Fetch, BeginWrite, EndWrite, FailWrite, Mark, Backoff
<1>4. ~Collect /\ ~Join /\ ~Crash /\ ~Restart
  BY <1>1, <1>2 DEF Collect, Join, Crash, Restart, Running
<1>5. ASSUME NEW l \in Permit, Work(l)
      PROVE  /\ task'[k] = task[k]
             /\ \A c \in Chunk : /\ InRound(c)' => InRound(c)
                                 /\ c \in bitmap' \ bitmap => InRound(c)
  <2>1. l # k
    BY <1>3, <1>5
  <2>2. /\ Busy(l)
        /\ \A m \in Permit \ {l} : task'[m] = task[m]
        /\ Busy(l)' => task'[l].chunk = task[l].chunk
        /\ bitmap' \subseteq bitmap \cup {task[l].chunk}
        /\ queue' = queue
    BY <1>5, WorkKeepsChunk
  <2>3. \A m \in Permit : Busy(m)' => Busy(m) /\ task'[m].chunk = task[m].chunk
    BY <2>2 DEF Busy
  <2> QED BY <2>1, <2>2, <2>3 DEF InRound
<1>6. ASSUME NEW l \in Permit, Spawn(l)
      PROVE  /\ task'[k] = task[k]
             /\ \A c \in Chunk : /\ InRound(c)' => InRound(c)
                                 /\ c \in bitmap' \ bitmap => InRound(c)
  <2>1. PICK d \in queue :
          /\ queue' = queue \ {d}
          /\ IF d \in bitmap THEN UNCHANGED task
             ELSE /\ task[l] = Free
                  /\ task' = [task EXCEPT ![l] = [Free EXCEPT !.stage = "query", !.chunk = d]]
    BY <1>6 DEF Spawn
  <2>2. bitmap' = bitmap
    BY <1>6 DEF Spawn
  <2>3. CASE task' = task
    BY <2>1, <2>2, <2>3 DEF InRound, Busy
  <2>4. CASE task' # task
    <3>1. /\ task'[l].chunk = d /\ l # k
          /\ \A m \in Permit \ {l} : task'[m] = task[m]
      BY <1>1, <2>1, <2>4 DEF IInv, TypeOK, Free
    <3> QED BY <2>1, <2>2, <3>1 DEF InRound, Busy
  <2> QED BY <2>3, <2>4
<1>7. ASSUME EndSpawn \/ Beat \/ Resume \/ (\E m \in net : Deliver(m) \/ Lose(m)) \/ UNCHANGED vars
      PROVE  /\ task'[k] = task[k]
             /\ \A c \in Chunk : /\ InRound(c)' => InRound(c)
                                 /\ c \in bitmap' \ bitmap => InRound(c)
  <2>1. task' = task /\ bitmap' = bitmap /\ queue' = queue
    BY <1>7 DEF EndSpawn, Beat, Resume, Deliver, Lose, vars
  <2> QED BY <2>1 DEF InRound, Busy
<1>8. /\ task'[k] = task[k]
      /\ \A c \in Chunk : /\ InRound(c)' => InRound(c)
                          /\ c \in bitmap' \ bitmap => InRound(c)
  BY <1>4, <1>5, <1>6, <1>7 DEF Next, Loop
<1> QED BY <1>1, <1>8 DEF Waits

\* Finding 2 for every node: a candidate that never answers ends the download of
\* everything outside the round, however many permits, chunks and other peers there are.
THEOREM OneSilentPeerEndsIt == Spec => SilenceIsFinal
<1>1. IInv /\ [Next]_vars =>
        [\A k \in Permit : Waits(k) =>
           \/ phase' = "down"
           \/ /\ Waits(k)'
              /\ \A c \in Chunk : /\ InRound(c)' => InRound(c)
                                  /\ c \in bitmap' \ bitmap => InRound(c)]_vars
  BY SilenceHolds
<1> QED BY <1>1, Invariant, PTL DEF Spec, SilenceIsFinal

-----------------------------------------------------------------------------
(* The node that the others see *)

NodePhase == IF Running THEN "up" ELSE IF phase = "exited" THEN "done" ELSE "down"
Received == bitmap \cup {task[k].chunk : k \in {l \in Permit : task[l].stage = "mark"}}
Whole == {c \in Chunk : disk[c] = "good"}
Listed == reported[life]

\* The steps of Nodes, in terms of what this node is to the others.
LEMMA NodeSteps ==
  /\ UNCHANGED <<NodePhase, Received, Whole, Listed>> => UNCHANGED N!vars
  /\ \A c \in Chunk :
       (/\ NodePhase = "up" /\ c \notin Received /\ Whole' = Whole \ {c}
        /\ UNCHANGED <<NodePhase, Received, Listed>>) => N!Next
  /\ \A c \in Chunk :
       (/\ NodePhase = "up" /\ Whole' = Whole \cup {c} /\ Received' = Received \cup {c}
        /\ UNCHANGED <<NodePhase, Listed>>) => N!Next
  /\ (/\ Listed' \subseteq Chunk /\ Listed' \subseteq IF NodePhase = "down" THEN Whole ELSE Received
      /\ UNCHANGED <<NodePhase, Received, Whole>>) => N!Next
  /\ (/\ NodePhase = "up" /\ Received = Chunk /\ NodePhase' = "done"
      /\ UNCHANGED <<Received, Whole, Listed>>) => N!Next
  /\ (/\ NodePhase = "up" /\ NodePhase' = "down" /\ Received' = {}
      /\ UNCHANGED <<Whole, Listed>>) => N!Next
  /\ (/\ NodePhase # "up" /\ NodePhase' = "up" /\ Received' = {} /\ Listed' = {}
      /\ UNCHANGED Whole) => N!Next
<1> DEFINE P == [m \in {"me"} |-> NodePhase]
           H == [m \in {"me"} |-> Received]
           F == [m \in {"me"} |-> Whole]
           L == [m \in {"me"} |-> Listed]
<1> USE DEF NodePhase, Received, Whole, Listed
<1>1. ASSUME UNCHANGED <<NodePhase, Received, Whole, Listed>> PROVE UNCHANGED N!vars
  BY <1>1 DEF N!vars
<1>2. ASSUME NEW c \in Chunk, NodePhase = "up", c \notin Received, Whole' = Whole \ {c},
             UNCHANGED <<NodePhase, Received, Listed>>
      PROVE  N!Next
  <2>1. N!Overwrite("me", c)
    BY <1>2 DEF N!Overwrite
  <2> QED BY <2>1 DEF N!Next
<1>3. ASSUME NEW c \in Chunk, NodePhase = "up", Whole' = Whole \cup {c},
             Received' = Received \cup {c}, UNCHANGED <<NodePhase, Listed>>
      PROVE  N!Next
  <2>1. N!Receive("me", c)
    BY <1>3 DEF N!Receive
  <2> QED BY <2>1 DEF N!Next
<1>4. ASSUME Listed' \subseteq Chunk, Listed' \subseteq IF NodePhase = "down" THEN Whole ELSE Received,
             UNCHANGED <<NodePhase, Received, Whole>>
      PROVE  N!Next
  <2>1. N!Hear("me", Listed')
    BY <1>4 DEF N!Hear, N!Known
  <2> QED BY <1>4, <2>1 DEF N!Next
<1>5. ASSUME NodePhase = "up", Received = Chunk, NodePhase' = "done",
             UNCHANGED <<Received, Whole, Listed>>
      PROVE  N!Next
  <2>1. N!Exit("me")
    BY <1>5 DEF N!Exit
  <2> QED BY <2>1 DEF N!Next
<1>6. ASSUME NodePhase = "up", NodePhase' = "down", Received' = {}, UNCHANGED <<Whole, Listed>>
      PROVE  N!Next
  <2>1. N!Crash("me")
    BY <1>6 DEF N!Crash
  <2> QED BY <2>1 DEF N!Next
<1>7. ASSUME NodePhase # "up", NodePhase' = "up", Received' = {}, Listed' = {}, UNCHANGED Whole
      PROVE  N!Next
  <2>1. N!Restart("me")
    BY <1>7 DEF N!Restart
  <2> QED BY <2>1 DEF N!Next
<1> HIDE DEF NodePhase, Received, Whole, Listed
<1> QED BY <1>1, <1>2, <1>3, <1>4, <1>5, <1>6, <1>7

\* A chunk is received between the end of its write and its mark; no task marks another's.
LEMMA TaskAsNode ==
  ASSUME IInv, NEW k \in Permit, Work(k)
  PROVE  [N!Next]_(N!vars)
<1> DEFINE t == task[k]
<1>1. /\ Busy(k)
      /\ \A l \in Permit \ {k} : task'[l] = task[l]
      /\ Busy(k)' => task'[k].chunk = t.chunk
      /\ UNCHANGED <<phase, queue, life, net, waits, reported>>
  BY WorkKeepsChunk
<1>2. /\ t \in Task /\ t.chunk \in Chunk /\ t.chunk \notin bitmap
      /\ \A l \in Permit \ {k} : Busy(l) => task[l].chunk # t.chunk
  BY <1>1 DEF IInv, TypeOK, TaskInv, OneTaskPerChunk, Busy
<1>3. NodePhase = "up" /\ UNCHANGED <<NodePhase, Listed>>
  BY <1>1 DEF NodePhase, Listed, Running, IInv, RoundInv
<1>4. \A u \in Task : Step(k, u) => task'[k] = u
  BY DEF Step, IInv, TypeOK
<1> DEFINE Others == {task[l].chunk : l \in {m \in Permit \ {k} : task[m].stage = "mark"}}
<1>5. /\ Received = bitmap \cup Others \cup (IF t.stage = "mark" THEN {t.chunk} ELSE {})
      /\ Received' = bitmap' \cup Others \cup (IF task'[k].stage = "mark" THEN {task'[k].chunk} ELSE {})
      /\ t.chunk \notin Others
  <2>1. Received = bitmap \cup Others \cup (IF t.stage = "mark" THEN {t.chunk} ELSE {})
    BY DEF Received
  <2>2. Received' = bitmap' \cup Others \cup (IF task'[k].stage = "mark" THEN {task'[k].chunk} ELSE {})
    BY <1>1 DEF Received
  <2>3. t.chunk \notin Others
    BY <1>2 DEF Busy
  <2> QED BY <2>1, <2>2, <2>3
<1> HIDE DEF Others
<1>6. CASE Query(k) \/ Fetch(k) \/ FailWrite(k) \/ Backoff(k)
  <2>1. UNCHANGED <<bitmap, disk>> /\ t.stage # "mark"
    BY <1>6 DEF Query, Fetch, FailWrite, Backoff
  <2>2. task'[k].stage # "mark"
    <3>1. CASE Query(k)
      <4>1. PICK ps \in Answers[t.chunk] :
              Step(k, [t EXCEPT !.stage = IF ps = <<>> THEN "backoff" ELSE "fetch", !.peers = ps])
        BY <3>1 DEF Query
      <4> DEFINE u == [t EXCEPT !.stage = IF ps = <<>> THEN "backoff" ELSE "fetch", !.peers = ps]
      <4>2. ps \in Seq(Peer)
        BY <1>2, PeerAssumption
      <4>3. u \in Task /\ u.stage # "mark"
        BY <1>2, <4>2 DEF Task
      <4> QED BY <1>4, <4>1, <4>3
    <3>2. t.stage \in {"fetch", "write", "writing"} =>
            NextPeer(t) \in Task /\ NextPeer(t).stage # "mark"
      BY <1>2, NextPeerTask DEF IInv, TaskInv
    <3>3. CASE Fetch(k)
      <4>1. PICK r : Step(k, IF Verified(r) THEN [t EXCEPT !.stage = "write", !.data = r]
                             ELSE NextPeer(t))
        BY <3>3 DEF Fetch
      <4>2. Verified(r) => /\ [t EXCEPT !.stage = "write", !.data = r] \in Task
                           /\ [t EXCEPT !.stage = "write", !.data = r].stage # "mark"
        BY <1>2 DEF Task, Verified, Reply, Content
      <4>3. t.stage = "fetch"
        BY <3>3 DEF Fetch
      <4> QED BY <1>4, <3>2, <4>1, <4>2, <4>3
    <3>4. CASE FailWrite(k)
      BY <1>4, <3>2, <3>4 DEF FailWrite
    <3>5. CASE Backoff(k)
      <4> DEFINE u == [t EXCEPT !.stage = "query", !.attempt = @ + 1, !.peers = <<>>]
      <4>1. Step(k, Free) \/ Step(k, u)
        BY <3>5 DEF Backoff
      <4>2. u.stage = "query" /\ Free.stage = "free"
        BY <1>2 DEF Task, Free
      <4>3. task'[k] = Free \/ task'[k] = u
        BY <4>1 DEF Step, IInv, TypeOK
      <4> QED BY <4>2, <4>3
    <3> QED BY <1>6, <3>1, <3>3, <3>4, <3>5
  <2>3. UNCHANGED <<Received, Whole>>
    BY <1>5, <2>1, <2>2 DEF Whole
  <2> QED BY <1>3, <2>3, NodeSteps
<1>7. CASE BeginWrite(k)
  <2>1. t.stage = "write" /\ bitmap' = bitmap /\ disk' = [disk EXCEPT ![t.chunk] = "torn"]
    BY <1>7 DEF BeginWrite
  <2>2. [t EXCEPT !.stage = "writing"] \in Task /\ [t EXCEPT !.stage = "writing"].stage = "writing"
    BY <1>2 DEF Task
  <2>3. task'[k].stage = "writing"
    BY <1>4, <1>7, <2>2 DEF BeginWrite
  <2>4. Received' = Received /\ t.chunk \notin Received
    BY <1>2, <1>5, <2>1, <2>3
  <2>5. Whole' = Whole \ {t.chunk}
    BY <1>2, <2>1 DEF Whole, IInv, TypeOK
  <2> QED BY <1>2, <1>3, <2>4, <2>5, NodeSteps
<1>8. CASE EndWrite(k)
  <2>1. t.stage = "writing" /\ bitmap' = bitmap /\ disk' = [disk EXCEPT ![t.chunk] = t.data]
    BY <1>8 DEF EndWrite
  <2>2. t.data = "good"
    BY <2>1 DEF IInv, TaskInv
  <2>3. [t EXCEPT !.stage = "mark"] \in Task /\ [t EXCEPT !.stage = "mark"].stage = "mark"
    BY <1>2 DEF Task
  <2>4. task'[k].stage = "mark"
    BY <1>4, <1>8, <2>3 DEF EndWrite
  <2>5. Received' = Received \cup {t.chunk}
    BY <1>1, <1>5, <2>1, <2>4 DEF Busy
  <2>6. Whole' = Whole \cup {t.chunk}
    BY <1>2, <2>1, <2>2 DEF Whole, IInv, TypeOK
  <2> QED BY <1>2, <1>3, <2>5, <2>6, NodeSteps
<1>9. CASE Mark(k)
  <2>1. t.stage = "mark" /\ bitmap' = bitmap \cup {t.chunk} /\ disk' = disk
    BY <1>9 DEF Mark
  <2>2. task'[k] = Free
    BY <1>4, <1>9, FreeTask DEF Mark
  <2>3. UNCHANGED <<Received, Whole>>
    BY <1>5, <2>1, <2>2 DEF Whole, Free
  <2> QED BY <1>3, <2>3, NodeSteps
<1> QED BY <1>6, <1>7, <1>8, <1>9 DEF Work

\* A round that ends or begins is none of the others' concern, but the end of the last.
LEMMA LoopAsNode ==
  ASSUME IInv, Loop
  PROVE  [N!Next]_(N!vars)
<1>1. NodePhase = "up" /\ Whole' = Whole /\ Listed' = Listed /\ bitmap' = bitmap
  BY DEF Loop, Collect, Spawn, EndSpawn, Join, NodePhase, Running, Whole, Listed
<1>2. Received' = Received
  <2>1. CASE task' = task
    BY <1>1, <2>1 DEF Received
  <2>2. CASE task' # task
    <3>1. PICK k \in Permit : Spawn(k)
      BY <2>2 DEF Loop, Collect, EndSpawn, Join
    <3>2. PICK c : /\ task[k] = Free
                   /\ task' = [task EXCEPT ![k] = [Free EXCEPT !.stage = "query", !.chunk = c]]
      BY <2>2, <3>1 DEF Spawn
    <3>3. /\ task[k].stage # "mark" /\ task'[k].stage # "mark"
          /\ \A l \in Permit \ {k} : task'[l] = task[l]
      BY <3>2 DEF IInv, TypeOK, Free
    <3> QED BY <1>1, <3>3 DEF Received
  <2> QED BY <2>1, <2>2
<1>3. CASE Running'
  <2>1. NodePhase' = NodePhase
    BY <1>1, <1>3 DEF NodePhase
  <2> QED BY <1>1, <1>2, <2>1, NodeSteps
<1>4. CASE ~Running'
  <2>1. Collect /\ bitmap = Chunk /\ phase' = "exited"
    BY <1>4 DEF Loop, Collect, Spawn, EndSpawn, Join, Running
  <2>2. Received = Chunk
    BY <2>1 DEF Received, IInv, TaskInv
  <2>3. NodePhase' = "done"
    BY <1>4, <2>1 DEF NodePhase
  <2> QED BY <1>1, <1>2, <2>2, <2>3, NodeSteps
<1> QED BY <1>3, <1>4

\* Late or not, what is heard of a process names what it has received.
LEMMA HeartbeatAsNode ==
  ASSUME IInv, Beat \/ Resume \/ \E m \in net : Deliver(m) \/ Lose(m)
  PROVE  [N!Next]_(N!vars)
<1>1. UNCHANGED <<NodePhase, Received, Whole>>
  BY DEF Beat, Resume, Deliver, Lose, NodePhase, Running, Received, Whole
<1>2. CASE Listed' = Listed
  BY <1>1, <1>2, NodeSteps
<1>3. CASE Listed' # Listed
  <2>1. PICK m \in net : Deliver(m)
    BY <1>3 DEF Beat, Resume, Lose, Listed
  <2>2. m.life \in Life /\ m.bits \subseteq Chunk
    BY DEF IInv, TypeOK
  <2>3. m.life = life /\ Listed' = m.bits
    BY <1>3, <2>1, <2>2 DEF Deliver, Listed, IInv, TypeOK
  <2>4. m.bits \subseteq Known
    BY <2>3 DEF IInv, ReportInv
  <2>5. Known \subseteq IF NodePhase = "down" THEN Whole ELSE Received
    BY DEF Known, NodePhase, Running, Whole, Received, IInv, TypeOK
  <2> QED BY <1>1, <2>2, <2>3, <2>4, <2>5, NodeSteps
<1> QED BY <1>2, <1>3

LEMMA ProcessAsNode ==
  ASSUME IInv, Crash \/ Restart
  PROVE  N!Next
<1>1. CASE Crash
  <2>1. NodePhase = "up" /\ NodePhase' = "down" /\ UNCHANGED <<Whole, Listed>>
    BY <1>1 DEF Crash, NodePhase, Running, Whole, Listed
  <2>2. Received' = {}
    BY <1>1 DEF Crash, Received, Free
  <2> QED BY <2>1, <2>2, NodeSteps
<1>2. CASE Restart
  <2>1. NodePhase # "up" /\ NodePhase' = "up" /\ Whole' = Whole
    BY <1>2 DEF Restart, NodePhase, Running, Whole
  <2>2. Received' = {}
    BY <1>2 DEF Restart, Running, Received, IInv, RoundInv, Busy
  <2>3. life \in Int /\ life' = life + 1 /\ life' \in Life /\ life' > life
    BY <1>2, BoundAssumption DEF Restart, IInv, TypeOK, Life
  <2>4. Listed' = {}
    BY <1>2, <2>3 DEF Restart, Listed, IInv, ReportInv
  <2> QED BY <2>1, <2>2, <2>4, NodeSteps
<1> QED BY <1>1, <1>2

\* Whatever the tasks, the lost and late heartbeats and the torn files in between: the
\* others see a node that receives whole chunks and is listed with no others.
THEOREM DownloaderImplementsNodes == Spec => ImplementsNodes
<1>1. Init => N!Init
  <2> SUFFICES ASSUME Init PROVE N!Init
    OBVIOUS
  <2>1. Running /\ bitmap = {} /\ \A k \in Permit : task[k].stage # "mark"
    BY DEF Init, Running, Free
  <2>2. reported[life] = {}
    BY BoundAssumption DEF Init, Life
  <2> QED BY <2>1, <2>2 DEF N!Init
<1>2. IInv /\ [Next]_vars => [N!Next]_(N!vars)
  <2> SUFFICES ASSUME IInv, [Next]_vars PROVE [N!Next]_(N!vars)
    OBVIOUS
  <2>1. CASE UNCHANGED vars
    <3>1. UNCHANGED <<NodePhase, Received, Whole, Listed>>
      BY <2>1 DEF vars, NodePhase, Running, Received, Whole, Listed
    <3> QED BY <3>1, NodeSteps
  <2> QED BY <2>1, TaskAsNode, LoopAsNode, HeartbeatAsNode, ProcessAsNode DEF Next
<1> QED BY <1>1, <1>2, Invariant, PTL DEF Spec, N!Spec, ImplementsNodes
=============================================================================
