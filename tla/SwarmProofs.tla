------------------------------ MODULE SwarmProofs ------------------------------
(***************************************************************************)
(* Theorems of Swarm, for any number of machines, seeds, chunks, restarts  *)
(* and any length of the lists: what a candidate list may still be wrong   *)
(* about, that verified copies only come from verified copies, what can    *)
(* lose the last one, and that the nodes and the tracker in it are those   *)
(* of the other modules.                                                   *)
(***************************************************************************)
EXTENDS Swarm, FiniteSetTheorems, TLAPS

\* The types, without the length of a list.
Types ==
  /\ phase \in [Machine -> {"up", "done", "down"}]
  /\ life \in [Machine -> Nat \ {0}] /\ \A m \in Machine : life[m] <= MaxLives[m]
  /\ listens \in [Machine -> BOOLEAN]
  /\ have \in [Machine -> SUBSET Chunk]
  /\ files \in [Machine -> SUBSET Chunk]
  /\ task \in [Machine -> Task]
  /\ seeds \subseteq Seed
  /\ nodes \subseteq Id /\ stale \subseteq nodes
  /\ bits \in [Id -> SUBSET Chunk]
  /\ wedged \subseteq Nat

\* A process that ended has no task, and a list is no longer than it may be.
TaskInv ==
  \A m \in Machine :
    /\ phase[m] # "up" => task[m] = Idle
    /\ task[m].chunk \cap have[m] = {}
    /\ Cardinality(task[m].cands) <= TopN

\* What is marked is on disk.
HaveInv == \A m \in Machine : have[m] \subseteq files[m]

\* The tracker knows nothing of ids to come, and of a running process nothing that
\* the process does not have.
BitsInv ==
  \A i \in Id :
    /\ (Addr(i) \in Machine /\ i[2] > life[Addr(i)]) => bits[i] = {}
    /\ Alive(i) => bits[i] \subseteq Got(Addr(i))

\* So it is with a list, however old.
CandsInv ==
  \A m \in Machine : \A i \in task[m].cands :
    /\ Addr(i) \in Machine => i[2] <= life[Addr(i)]
    /\ Alive(i) => task[m].chunk \subseteq Got(Addr(i))

Inv == Types /\ TaskInv /\ HaveInv /\ BitsInv /\ CandsInv

-----------------------------------------------------------------------------
\* An id is one of a seed, or of a start of a machine's process.
LEMMA IdShape ==
  ASSUME NEW i \in Id
  PROVE  /\ Addr(i) \in Address
         /\ Addr(i) \in Seed => Addr(i) \notin Machine
         /\ Addr(i) \in Machine => i = <<Addr(i), i[2]>> /\ i[2] \in 1 .. MaxLives[Addr(i)]
<1>1. QED
  BY SwarmAssumption DEF Id, Addr, Address

\* The id of a process is one of the ids.
LEMMA SelfIsId ==
  ASSUME Types, NEW m \in Machine
  PROVE  Self(m) \in Id /\ Addr(Self(m)) = m /\ Self(m)[2] = life[m] /\ m \notin Seed
<1>1. life[m] \in 1 .. MaxLives[m]
  BY SwarmAssumption DEF Types
<1>2. QED
  BY <1>1, SwarmAssumption DEF Id, Self, Addr

\* A list is cut to TopN holders.
LEMMA BestIsBounded ==
  ASSUME NEW m \in Machine, NEW c \in Chunk, NEW S \in Best(m, c)
  PROVE  /\ S \subseteq Id /\ Cardinality(S) <= TopN
         /\ \A i \in S : c \in bits[i]
<1>1. S \subseteq Holders(m, c) /\ Cardinality(S) <= TopN
  BY DEF Best, Sched!Cut, Cardinality, Sched!Cardinality
<1>2. S \subseteq Id /\ \A i \in S : c \in bits[i]
  BY <1>1 DEF Holders
<1>3. QED
  BY <1>1, <1>2

\* A list gets shorter with every candidate that is tried.
LEMMA RestIsShorter ==
  ASSUME NEW S, S \subseteq Id, NEW i \in S, Cardinality(S) <= TopN
  PROVE  Cardinality(S \ {i}) <= TopN
<1>1. IsFiniteSet(S)
  BY FiniteAssumption, FS_Subset
<1>2. Cardinality(S) \in Nat /\ Cardinality(S \ {i}) = Cardinality(S) - 1
  BY <1>1, FS_CardinalityType, FS_RemoveElement
<1>3. QED
  BY <1>2, SwarmAssumption

\* Whoever has marked a chunk serves it, if its chunk server has the port.
LEMMA GotIsServed ==
  ASSUME Inv, NEW i \in Id, NEW C, C \subseteq Got(Addr(i)), Listens(Addr(i))
  PROVE  Serves(i, C)
<1>1. Addr(i) \in Seed \/ Addr(i) \in Machine
  BY IdShape DEF Address
<1>2. QED
  BY <1>1 DEF Serves, Got, Inv, HaveInv

LEMMA IdleTask ==
  /\ Idle \in Task /\ Idle.stage = "idle" /\ Idle.cands = {} /\ Idle.chunk = {}
  /\ Cardinality(Idle.cands) <= TopN
<1>1. Cardinality({}) = 0
  BY FS_EmptySet
<1>2. QED
  BY <1>1, SwarmAssumption DEF Task, Idle

\* A step that starts and ends no process, and takes no chunk from one, leaves the rest
\* of the ids as they are.
LEMMA Standing ==
  ASSUME UNCHANGED processes, NEW i \in Id,
         \A m \in Machine : have[m] \subseteq have'[m]
  PROVE  /\ Alive(i)' = Alive(i)
         /\ Got(Addr(i)) \subseteq Got(Addr(i))'
         /\ Addr(i) \in Machine => life'[Addr(i)] = life[Addr(i)]
<1>1. Addr(i) \in Seed \/ Addr(i) \in Machine
  BY IdShape DEF Address
<1>2. QED
  BY <1>1 DEF Alive, Current, Runs, Got, Addr, processes

-----------------------------------------------------------------------------
LEMMA InitInv == Init => Inv
<1> SUFFICES ASSUME Init PROVE Inv
  OBVIOUS
<1>1. Types
  <2>1. task \in [Machine -> Task]
    BY IdleTask DEF Init
  <2>2. life \in [Machine -> Nat \ {0}] /\ \A m \in Machine : life[m] <= MaxLives[m]
    <3>1. \A m \in Machine : life[m] = 1 /\ MaxLives[m] \in Nat \ {0}
      BY SwarmAssumption DEF Init
    <3>2. QED
      BY <3>1 DEF Init
  <2>3. QED
    BY <2>1, <2>2 DEF Init, Types
<1>2. TaskInv /\ HaveInv /\ CandsInv
  BY IdleTask DEF Init, TaskInv, HaveInv, CandsInv
<1>3. BitsInv
  BY DEF Init, BitsInv
<1>4. QED
  BY <1>1, <1>2, <1>3 DEF Inv

\* What the invariant asks of one machine's task, and that the others keep it.
LEMMA GoKeeps ==
  ASSUME Inv, NEW m \in Machine, NEW t \in Task, Go(m, t), phase[m] = "up",
         have' \in [Machine -> SUBSET Chunk], files' \in [Machine -> SUBSET Chunk],
         \A n \in Machine : have[n] \subseteq have'[n],
         \A n \in Machine : n # m => have'[n] = have[n],
         HaveInv',
         t.chunk \cap have'[m] = {},
         Cardinality(t.cands) <= TopN,
         \A i \in t.cands :
           /\ Addr(i) \in Machine => i[2] <= life[Addr(i)]
           /\ Alive(i) => t.chunk \subseteq Got(Addr(i))
  PROVE  Inv'
<1>1. /\ task' \in [Machine -> Task] /\ task'[m] = t
      /\ \A n \in Machine : n # m => task'[n] = task[n]
      /\ UNCHANGED <<processes, tracker>>
  BY DEF Go, Inv, Types
<1>2. Types'
  BY <1>1 DEF Inv, Types, processes, tracker
<1>3. TaskInv'
  BY <1>1 DEF Inv, TaskInv, processes
<1>4. BitsInv'
  BY <1>1, Standing DEF Inv, BitsInv, Addr, tracker
<1>5. CandsInv'
  <2> SUFFICES ASSUME NEW n \in Machine, NEW i \in task'[n].cands
               PROVE  /\ Addr(i) \in Machine => i[2] <= life'[Addr(i)]
                      /\ Alive(i)' => task'[n].chunk \subseteq Got(Addr(i))'
    BY DEF CandsInv, Addr
  <2>1. i \in Id
    BY <1>1 DEF Task
  <2>2. CASE n = m
    BY <1>1, <2>1, <2>2, Standing
  <2>3. CASE n # m
    BY <1>1, <2>1, <2>3, Standing DEF Inv, CandsInv
  <2>4. QED
    BY <2>2, <2>3
<1>6. QED
  BY <1>2, <1>3, <1>4, <1>5 DEF Inv

\* Where no file and no bitmap changes, a new task is all there is to see to.
LEMMA GoOnly ==
  ASSUME Inv, NEW m \in Machine, NEW t \in Task, Go(m, t), phase[m] = "up",
         UNCHANGED <<have, files>>, t.chunk \cap have[m] = {},
         Cardinality(t.cands) <= TopN,
         \A i \in t.cands :
           /\ Addr(i) \in Machine => i[2] <= life[Addr(i)]
           /\ Alive(i) => t.chunk \subseteq Got(Addr(i))
  PROVE  Inv'
<1>1. /\ have' \in [Machine -> SUBSET Chunk] /\ files' \in [Machine -> SUBSET Chunk]
      /\ HaveInv' /\ t.chunk \cap have'[m] = {}
      /\ \A n \in Machine : have[n] \subseteq have'[n] /\ have'[n] = have[n]
  BY DEF Inv, Types, HaveInv
<1>2. QED
  BY <1>1, GoKeeps

\* What is known of a task under way.
LEMMA TaskFacts ==
  ASSUME Inv, NEW m \in Machine, task[m].stage # "idle"
  PROVE  /\ task[m] \in Task /\ phase[m] = "up"
         /\ task[m].chunk \subseteq Chunk /\ task[m].chunk \cap have[m] = {}
         /\ task[m].cands \subseteq Id /\ Cardinality(task[m].cands) <= TopN
         /\ \A i \in task[m].cands :
              /\ Addr(i) \in Machine => i[2] <= life[Addr(i)]
              /\ Alive(i) => task[m].chunk \subseteq Got(Addr(i))
<1>1. QED
  BY IdleTask DEF Inv, Types, TaskInv, CandsInv, Task

LEMMA QueryInv == ASSUME Inv, NEW m \in Machine, Query(m) PROVE Inv'
<1>0. PICK c \in Chunk \ have[m] : \E S \in Best(m, c) \ {{}} :
        Go(m, [stage |-> "fetch", chunk |-> {c}, cands |-> S])
  BY DEF Query
<1>1. PICK S \in Best(m, c) : Go(m, [stage |-> "fetch", chunk |-> {c}, cands |-> S])
  BY <1>0
<1> DEFINE t == [stage |-> "fetch", chunk |-> {c}, cands |-> S]
<1>2. /\ S \subseteq Id /\ Cardinality(S) <= TopN /\ \A i \in S : c \in bits[i]
  BY <1>1, BestIsBounded
<1>3. t \in Task /\ t.chunk = {c} /\ t.cands = S
  BY <1>2 DEF Task
<1>4. \A i \in S : /\ Addr(i) \in Machine => i[2] <= life[Addr(i)]
                   /\ Alive(i) => {c} \subseteq Got(Addr(i))
  <2> TAKE i \in S
  <2>1. i \in Id /\ c \in bits[i]
    BY <1>2
  <2>2. Addr(i) \in Machine => i[2] \in Nat /\ life[Addr(i)] \in Nat
    BY <2>1, IdShape, SwarmAssumption DEF Inv, Types
  <2>3. QED
    BY <2>1, <2>2 DEF Inv, BitsInv
<1>5. Go(m, t) /\ phase[m] = "up" /\ UNCHANGED <<have, files>> /\ {c} \cap have[m] = {}
  BY <1>1 DEF Query
<1> HIDE DEF t
<1>6. QED
  BY <1>2, <1>3, <1>4, <1>5, GoOnly

\* What is left of a task is a task whose list is no longer than before.
LEMMA RestOfTask ==
  ASSUME Inv, NEW m \in Machine, task[m].stage # "idle", NEW i \in task[m].cands,
         NEW w, \/ w = Rest(m, i)
                \/ w = [task[m] EXCEPT !.stage = "write", !.cands = @ \ {i}]
  PROVE  /\ w \in Task /\ w.chunk \subseteq task[m].chunk
         /\ w.cands \subseteq task[m].cands /\ Cardinality(w.cands) <= TopN
         /\ w = Rest(m, i) => w.stage \in {"fetch", "idle"}
<1>1. Cardinality(task[m].cands \ {i}) <= TopN
  BY TaskFacts, RestIsShorter
<1>2. CASE w = Idle
  BY <1>2, IdleTask
<1>3. CASE w = [task[m] EXCEPT !.stage = "fetch", !.cands = @ \ {i}]
  BY <1>1, <1>3, TaskFacts DEF Task
<1>4. CASE w = [task[m] EXCEPT !.stage = "write", !.cands = @ \ {i}]
  <2>1. w \in Task /\ w.chunk = task[m].chunk /\ w.cands = task[m].cands \ {i} /\ w.stage = "write"
    BY <1>4, TaskFacts DEF Task
  <2>2. w # Rest(m, i)
    BY <2>1, IdleTask, TaskFacts DEF Rest, Task
  <2>3. QED
    BY <1>1, <2>1, <2>2
<1>5. QED
  BY <1>2, <1>3, <1>4 DEF Rest

\* A task whose chunk and list are part of what they were keeps the invariant.
LEMMA LessKeeps ==
  ASSUME Inv, NEW m \in Machine, task[m].stage # "idle", NEW w \in Task, Go(m, w),
         UNCHANGED <<have, files>>, w.chunk \subseteq task[m].chunk,
         w.cands \subseteq task[m].cands, Cardinality(w.cands) <= TopN
  PROVE  Inv'
<1>1. /\ phase[m] = "up" /\ w.chunk \cap have[m] = {}
      /\ \A i \in w.cands :
           /\ Addr(i) \in Machine => i[2] <= life[Addr(i)]
           /\ Alive(i) => w.chunk \subseteq Got(Addr(i))
  BY TaskFacts
<1>2. QED
  BY <1>1, GoOnly

LEMMA FetchInv == ASSUME Inv, NEW m \in Machine, Fetch(m) PROVE Inv'
<1>1. PICK i \in task[m].cands :
        Go(m, IF Serves(i, task[m].chunk)
                THEN [task[m] EXCEPT !.stage = "write", !.cands = @ \ {i}]
                ELSE Rest(m, i))
  BY DEF Fetch, IsNext
<1>2. PICK w : /\ Go(m, w)
               /\ \/ w = Rest(m, i)
                  \/ w = [task[m] EXCEPT !.stage = "write", !.cands = @ \ {i}]
  BY <1>1
<1>3. task[m].stage # "idle" /\ UNCHANGED <<have, files>>
  BY DEF Fetch
<1>4. QED
  BY <1>2, <1>3, RestOfTask, LessKeeps

LEMMA BeginWriteInv == ASSUME Inv, NEW m \in Machine, BeginWrite(m) PROVE Inv'
<1> DEFINE t == task[m]
           w == [t EXCEPT !.stage = "writing"]
<1>1. task[m].stage # "idle"
  BY DEF BeginWrite
<1>2. w \in Task /\ w.cands = t.cands /\ w.chunk = t.chunk
  BY <1>1, TaskFacts DEF Task
<1>3. Go(m, w)
  BY DEF BeginWrite
<1>4. /\ UNCHANGED have /\ files' = [files EXCEPT ![m] = @ \ t.chunk]
      /\ have \in [Machine -> SUBSET Chunk] /\ files \in [Machine -> SUBSET Chunk]
  BY DEF BeginWrite, Inv, Types
<1>5. HaveInv' /\ files' \in [Machine -> SUBSET Chunk]
  BY <1>1, <1>4, TaskFacts DEF Inv, HaveInv
<1> HIDE DEF w
<1>6. QED
  BY <1>1, <1>2, <1>3, <1>4, <1>5, TaskFacts, GoKeeps

LEMMA EndWriteInv == ASSUME Inv, NEW m \in Machine, EndWrite(m) PROVE Inv'
<1> DEFINE t == task[m]
<1>1. /\ phase[m] = "up" /\ t.chunk \subseteq Chunk
  BY TaskFacts DEF EndWrite
<1>2. Go(m, Idle)
  BY DEF EndWrite
<1>3. /\ files' = [files EXCEPT ![m] = @ \cup t.chunk]
      /\ have' = [have EXCEPT ![m] = @ \cup t.chunk]
      /\ have \in [Machine -> SUBSET Chunk] /\ files \in [Machine -> SUBSET Chunk]
  BY DEF EndWrite, Inv, Types
<1> HIDE DEF t
<1>4. /\ HaveInv' /\ files' \in [Machine -> SUBSET Chunk] /\ have' \in [Machine -> SUBSET Chunk]
      /\ \A n \in Machine : have[n] \subseteq have'[n]
      /\ \A n \in Machine : n # m => have'[n] = have[n]
  BY <1>1, <1>3 DEF Inv, HaveInv
<1>5. QED
  BY <1>1, <1>2, <1>4, IdleTask, GoKeeps

LEMMA FailWriteInv == ASSUME Inv, NEW m \in Machine, FailWrite(m) PROVE Inv'
<1>1. task[m].stage # "idle" /\ UNCHANGED <<have, files>>
  BY DEF FailWrite
<1>2. CASE Go(m, Idle)
  BY <1>1, <1>2, IdleTask, LessKeeps
<1>3. CASE Go(m, [task[m] EXCEPT !.stage = "fetch"])
  <2> DEFINE w == [task[m] EXCEPT !.stage = "fetch"]
  <2>1. w \in Task /\ w.cands = task[m].cands /\ w.chunk = task[m].chunk
    BY <1>1, TaskFacts DEF Task
  <2> HIDE DEF w
  <2>2. Go(m, w)
    BY <1>3 DEF w
  <2>3. QED
    BY <1>1, <2>1, <2>2, TaskFacts, LessKeeps
<1>4. QED
  BY <1>2, <1>3 DEF FailWrite

LEMMA ExitInv == ASSUME Inv, NEW m \in Machine, Exit(m) PROVE Inv'
<1>1. /\ phase' = [phase EXCEPT ![m] = "done"] /\ phase[m] = "up" /\ task[m] = Idle
      /\ UNCHANGED <<life, listens, seeds, have, files, task, tracker>>
  BY DEF Exit
<1>2. Types' /\ TaskInv' /\ HaveInv'
  BY <1>1 DEF Inv, Types, TaskInv, HaveInv, tracker
<1>3. \A i \in Id : Alive(i)' => Alive(i)
  BY <1>1, IdShape DEF Inv, Types, Alive, Current, Runs, Addr, Address
<1>4. \A a : Got(a)' = Got(a)
  BY <1>1 DEF Got
<1>5. BitsInv'
  BY <1>1, <1>3, <1>4 DEF Inv, BitsInv, Addr, tracker
<1>6. CandsInv'
  BY <1>1, <1>3, <1>4 DEF Inv, CandsInv, Addr, Types, Task
<1>7. QED
  BY <1>2, <1>5, <1>6 DEF Inv

LEMMA CrashInv == ASSUME Inv, NEW m \in Machine, Crash(m) PROVE Inv'
<1>1. /\ phase' = [phase EXCEPT ![m] = "down"] /\ phase[m] = "up"
      /\ have' = [have EXCEPT ![m] = {}]
      /\ task' = [task EXCEPT ![m] = Idle]
      /\ UNCHANGED <<life, listens, seeds, files, tracker>>
  BY DEF Crash
<1>2. Types'
  BY <1>1, IdleTask DEF Inv, Types, tracker
<1>3. /\ task'[m] = Idle /\ have'[m] = {} /\ phase'[m] = "down"
      /\ \A n \in Machine : n # m => /\ task'[n] = task[n] /\ have'[n] = have[n]
                                     /\ phase'[n] = phase[n]
  BY <1>1 DEF Inv, Types
<1>4. TaskInv' /\ HaveInv'
  BY <1>1, <1>3, IdleTask DEF Inv, TaskInv, HaveInv
<1>5. \A i \in Id : Alive(i)' => Alive(i) /\ Got(Addr(i))' = Got(Addr(i))
  <2> TAKE i \in Id
  <2>1. Addr(i) \in Seed \/ Addr(i) \in Machine
    BY IdShape DEF Address
  <2>2. QED
    BY <1>1, <1>3, <2>1 DEF Alive, Current, Runs, Addr, Got
<1>6. BitsInv'
  BY <1>1, <1>5 DEF Inv, BitsInv, Addr, tracker
<1>7. CandsInv'
  <2> SUFFICES ASSUME NEW n \in Machine, NEW i \in task'[n].cands
               PROVE  /\ Addr(i) \in Machine => i[2] <= life[Addr(i)]
                      /\ Alive(i)' => task'[n].chunk \subseteq Got(Addr(i))'
    BY <1>1 DEF CandsInv, Addr
  <2>1. n # m /\ task'[n] = task[n]
    BY <1>3, IdleTask
  <2>2. i \in Id
    BY <1>2 DEF Types, Task
  <2>3. QED
    BY <1>5, <2>1, <2>2 DEF Inv, CandsInv
<1>8. QED
  BY <1>2, <1>4, <1>6, <1>7 DEF Inv

LEMMA RestartInv == ASSUME Inv, NEW m \in Machine, Restart(m) PROVE Inv'
<1>1. /\ phase' = [phase EXCEPT ![m] = "up"] /\ phase[m] # "up" /\ life[m] < MaxLives[m]
      /\ life' = [life EXCEPT ![m] = @ + 1]
      /\ \E b \in BOOLEAN : listens' = [listens EXCEPT ![m] = b]
      /\ have' = [have EXCEPT ![m] = {}]
      /\ UNCHANGED <<seeds, files, task, tracker>>
  BY DEF Restart
<1>2. /\ life'[m] = life[m] + 1 /\ have'[m] = {} /\ phase'[m] = "up" /\ task[m] = Idle
      /\ \A n \in Machine : n # m => /\ life'[n] = life[n] /\ have'[n] = have[n]
                                     /\ phase'[n] = phase[n]
      /\ life[m] \in Nat \ {0} /\ MaxLives[m] \in Nat
  BY <1>1, SwarmAssumption DEF Inv, Types, TaskInv
<1>3. /\ life' \in [Machine -> Nat \ {0}] /\ \A n \in Machine : life'[n] <= MaxLives[n]
  BY <1>1, <1>2 DEF Inv, Types
<1>4. listens' \in [Machine -> BOOLEAN]
  BY <1>1 DEF Inv, Types
<1>5. Types'
  BY <1>1, <1>3, <1>4 DEF Inv, Types, tracker
<1>6. TaskInv' /\ HaveInv'
  BY <1>1, <1>2 DEF Inv, TaskInv, HaveInv, Idle
<1>7. ASSUME NEW i \in Id, Addr(i) = m
      PROVE  /\ i[2] \in Nat /\ m \notin Seed /\ (Alive(i)' => i[2] = life[m] + 1)
             /\ i[2] > life[m] => bits[i] = {}
  BY <1>2, <1>7, IdShape DEF Alive, Current, Addr, Inv, BitsInv
<1>8. ASSUME NEW i \in Id, Addr(i) # m
      PROVE  /\ Alive(i)' = Alive(i) /\ Got(Addr(i))' = Got(Addr(i))
             /\ Addr(i) \in Machine => life'[Addr(i)] = life[Addr(i)]
  <2>1. Addr(i) \in Seed \/ Addr(i) \in Machine
    BY IdShape DEF Address
  <2>2. QED
    BY <1>1, <1>2, <1>8, <2>1 DEF Alive, Current, Runs, Addr, Got
<1>9. BitsInv'
  <2> SUFFICES ASSUME NEW i \in Id
               PROVE  /\ (Addr(i) \in Machine /\ i[2] > life'[Addr(i)]) => bits[i] = {}
                      /\ Alive(i)' => bits[i] \subseteq Got(Addr(i))'
    BY <1>1 DEF BitsInv, Addr, tracker
  <2>1. CASE Addr(i) = m
    BY <1>2, <1>7, <2>1
  <2>2. CASE Addr(i) # m
    BY <1>8, <2>2 DEF Inv, BitsInv
  <2>3. QED
    BY <2>1, <2>2
<1>10. CandsInv'
  <2> SUFFICES ASSUME NEW n \in Machine, NEW i \in task[n].cands
               PROVE  /\ Addr(i) \in Machine => i[2] <= life'[Addr(i)]
                      /\ Alive(i)' => task[n].chunk \subseteq Got(Addr(i))'
    BY <1>1 DEF CandsInv, Addr
  <2>1. i \in Id
    BY DEF Inv, Types, Task
  <2>2. CASE Addr(i) = m
    <3>1. i[2] <= life[m]
      BY <2>2 DEF Inv, CandsInv
    <3>2. QED
      BY <1>2, <1>7, <2>1, <2>2, <3>1
  <2>3. CASE Addr(i) # m
    BY <1>8, <2>1, <2>3 DEF Inv, CandsInv
  <2>4. QED
    BY <2>2, <2>3
<1>11. QED
  BY <1>5, <1>6, <1>9, <1>10 DEF Inv

LEMMA SeedStopInv == ASSUME Inv, NEW s \in Seed, SeedStop(s) PROVE Inv'
<1>1. seeds' \subseteq seeds /\ UNCHANGED <<phase, life, listens, have, files, task, tracker>>
  BY DEF SeedStop
<1>2. Types' /\ TaskInv' /\ HaveInv'
  BY <1>1 DEF Inv, Types, TaskInv, HaveInv, tracker
<1>3. \A i : Alive(i)' => Alive(i)
  BY <1>1 DEF Alive, Current, Runs, Addr
<1>4. \A a : Got(a)' = Got(a)
  BY <1>1 DEF Got
<1>5. BitsInv' /\ CandsInv'
  BY <1>1, <1>3, <1>4 DEF Inv, BitsInv, CandsInv, Addr, tracker
<1>6. QED
  BY <1>2, <1>5 DEF Inv

\* A step of the tracker that sets the bitmaps of running processes to what those have,
\* or forgets some.
LEMMA TrackerKeeps ==
  ASSUME Inv, UNCHANGED <<processes, have, files, task>>, Types',
         \A i \in Id : \/ bits'[i] \in {bits[i], {}}
                       \/ (Alive(i) /\ bits'[i] = Got(Addr(i)))
  PROVE  Inv'
<1>1. TaskInv' /\ HaveInv'
  BY DEF Inv, TaskInv, HaveInv, processes
<1>2. \A i : /\ Alive(i)' = Alive(i) /\ Got(Addr(i))' = Got(Addr(i))
             /\ life'[Addr(i)] = life[Addr(i)]
  BY DEF Alive, Current, Runs, Got, Addr, processes
<1>3. \A i \in Id : Addr(i) \in Machine /\ i[2] > life[Addr(i)] => ~Alive(i)
  BY IdShape, SwarmAssumption DEF Alive, Current, Inv, Types
<1>4. BitsInv'
  <2> SUFFICES ASSUME NEW i \in Id
               PROVE  /\ (Addr(i) \in Machine /\ i[2] > life[Addr(i)]) => bits'[i] = {}
                      /\ Alive(i) => bits'[i] \subseteq Got(Addr(i))
    BY <1>2 DEF BitsInv, Addr
  <2>1. QED
    BY <1>3 DEF Inv, BitsInv
<1>5. CandsInv'
  BY <1>2 DEF Inv, CandsInv, Addr
<1>6. QED
  BY <1>1, <1>4, <1>5 DEF Inv

LEMMA ReportInv == ASSUME Inv, NEW i \in Id, Report(i) PROVE Inv'
<1>1. Got(Addr(i)) \subseteq Chunk
  <2>1. Addr(i) \in Seed \/ Addr(i) \in Machine
    BY IdShape DEF Address
  <2>2. \A a \in Seed : SeedHas[a] \subseteq Chunk
    BY SwarmAssumption
  <2>3. \A a \in Machine : have[a] \subseteq Chunk
    BY DEF Inv, Types
  <2>4. QED
    BY <2>1, <2>2, <2>3 DEF Got
<1>2. wedged' \subseteq Nat
  <2>1. wedged' \subseteq wedged \cup {Shard[i]}
    BY DEF Report
  <2>2. Shard[i] \in Nat
    BY SwarmAssumption
  <2>3. QED
    BY <2>1, <2>2 DEF Inv, Types
<1>3. UNCHANGED <<processes, have, files, task>> /\ bits' = [bits EXCEPT ![i] = Got(Addr(i))]
  BY DEF Report
<1>4. nodes' \subseteq Id /\ stale' \subseteq nodes' /\ bits' \in [Id -> SUBSET Chunk]
  BY <1>1, <1>3 DEF Report, Inv, Types
<1>5. Types'
  BY <1>2, <1>3, <1>4 DEF Inv, Types, processes
<1>6. \A j \in Id : bits'[j] = bits[j] \/ (Alive(j) /\ bits'[j] = Got(Addr(j)))
  BY <1>3 DEF Report, Inv, Types
<1>7. QED
  BY <1>3, <1>5, <1>6, TrackerKeeps

LEMMA ExpireInv == ASSUME Inv, NEW i \in Id, Expire(i) PROVE Inv'
<1>1. Types'
  BY DEF Expire, Inv, Types, processes
<1>2. QED
  BY <1>1, TrackerKeeps DEF Expire

LEMMA EvictInv == ASSUME Inv, NEW i \in Id, Evict(i) PROVE Inv'
<1>1. Types'
  BY DEF Evict, Forget, Inv, Types, processes
<1>2. QED
  BY <1>1, TrackerKeeps DEF Evict, Forget

LEMMA StutterInv == Inv /\ UNCHANGED vars => Inv'
<1> SUFFICES ASSUME Inv, UNCHANGED vars PROVE Inv'
  OBVIOUS
<1>1. Types'
  BY DEF vars, Inv, Types, processes, tracker
<1>2. QED
  BY <1>1, TrackerKeeps DEF vars, tracker

LEMMA StepInv == Inv /\ [Next]_vars => Inv'
<1>1. QED
  BY QueryInv, FetchInv, BeginWriteInv, EndWriteInv, FailWriteInv, ExitInv, CrashInv,
     RestartInv, SeedStopInv, ReportInv, ExpireInv, EvictInv, StutterInv DEF Next, Work

LEMMA Invariance == Spec => []Inv
<1>1. QED
  BY InitInv, StepInv, PTL DEF Spec

-----------------------------------------------------------------------------
\* The types: among them, no list is longer than TopN, also half used.
THEOREM SwarmTypeCorrect == Spec => []TypeOK
<1>1. Inv => TypeOK
  BY DEF Inv, Types, TaskInv, TypeOK
<1>2. QED
  BY <1>1, Invariance, PTL

\* A list, however old, is right about every process that still runs and has its port.
THEOREM ListsOfTheLivingAreTrue == Spec => []OnlyOldIdsMislead
<1>1. Inv => OnlyOldIdsMislead
  <2> SUFFICES ASSUME Inv, NEW m \in Machine, NEW i \in task[m].cands,
                      Alive(i), Listens(Addr(i))
               PROVE  Serves(i, task[m].chunk)
    BY DEF OnlyOldIdsMislead
  <2>1. i \in Id
    BY DEF Inv, Types, Task
  <2>2. task[m].chunk \subseteq Got(Addr(i))
    BY DEF Inv, CandsInv
  <2>3. QED
    BY <2>1, <2>2, GotIsServed
<1>2. QED
  BY <1>1, Invariance, PTL

-----------------------------------------------------------------------------
(* Copies *)

carried == [m \in Machine |-> Carried(m)]

\* What the step of a task does to what its process carries.
LEMMA GoCarries ==
  ASSUME Inv, NEW m \in Machine, NEW t, Go(m, t)
  PROVE  /\ task'[m] = t /\ seeds' = seeds
         /\ Carried(m)' = IF t.stage \in {"write", "writing"} THEN t.chunk ELSE {}
         /\ \A n \in Machine : n # m => Carried(n)' = Carried(n)
         /\ carried' = [carried EXCEPT ![m] = Carried(m)']
         /\ carried[m] = Carried(m)
<1>1. task' = [task EXCEPT ![m] = t] /\ seeds' = seeds
  BY DEF Go, processes
<1>2. task'[m] = t /\ \A n \in Machine : n # m => task'[n] = task[n]
  BY <1>1 DEF Inv, Types
<1>3. \A n \in Machine : n # m => Carried(n)' = Carried(n)
  BY <1>2 DEF Carried
<1>4. Carried(m)' = IF t.stage \in {"write", "writing"} THEN t.chunk ELSE {}
  BY <1>2 DEF Carried
<1>5. carried' = [carried EXCEPT ![m] = Carried(m)'] /\ carried[m] = Carried(m)
  BY <1>3 DEF carried
<1>6. QED
  BY <1>1, <1>2, <1>3, <1>4, <1>5

\* A fetch that ends in memory, or with another candidate or none.
LEMMA FetchCarries ==
  ASSUME Inv, NEW m \in Machine, Fetch(m)
  PROVE  /\ UNCHANGED <<seeds, files>> /\ Carried(m) = {} /\ carried[m] = {}
         /\ \A n \in Machine : n # m => Carried(n)' = Carried(n)
         /\ \/ carried' = carried
            \/ \E i \in Id : /\ Serves(i, task[m].chunk)
                             /\ carried' = [carried EXCEPT ![m] = task[m].chunk]
<1>1. PICK i \in task[m].cands :
        Go(m, IF Serves(i, task[m].chunk)
                THEN [task[m] EXCEPT !.stage = "write", !.cands = @ \ {i}]
                ELSE Rest(m, i))
  BY DEF Fetch, IsNext
<1>2. task[m].stage = "fetch" /\ task[m] \in Task /\ i \in Id /\ UNCHANGED files
  BY TaskFacts DEF Fetch
<1>3. Carried(m) = {} /\ carried[m] = {}
  BY <1>2 DEF Carried, carried
<1>4. CASE Serves(i, task[m].chunk)
  <2> DEFINE w == [task[m] EXCEPT !.stage = "write", !.cands = @ \ {i}]
  <2>1. w.stage = "write" /\ w.chunk = task[m].chunk
    BY <1>2 DEF Task
  <2>2. Go(m, w)
    BY <1>1, <1>4
  <2> HIDE DEF w
  <2>3. QED
    BY <1>2, <1>3, <1>4, <2>1, <2>2, GoCarries
<1>5. CASE ~Serves(i, task[m].chunk)
  <2> DEFINE w == Rest(m, i)
  <2>1. w.stage \in {"fetch", "idle"}
    BY <1>2, RestOfTask
  <2>2. Go(m, w)
    BY <1>1, <1>5
  <2> HIDE DEF w
  <2>3. Carried(m)' = {} /\ \A n \in Machine : n # m => Carried(n)' = Carried(n)
    BY <2>1, <2>2, GoCarries
  <2>4. carried' = carried
    BY <1>3, <2>3 DEF carried
  <2>5. QED
    BY <1>2, <1>3, <2>2, <2>3, <2>4, GoCarries
<1>6. QED
  BY <1>4, <1>5

\* A write that begins keeps what is carried, one that ends or fails does not.
LEMMA WriteCarries ==
  ASSUME Inv, NEW m \in Machine, BeginWrite(m) \/ EndWrite(m) \/ FailWrite(m)
  PROVE  /\ seeds' = seeds /\ carried[m] = Carried(m) /\ Carried(m) = task[m].chunk
         /\ \A n \in Machine : n # m => Carried(n)' = Carried(n)
         /\ BeginWrite(m) => carried' = carried /\ Carried(m)' = Carried(m)
         /\ EndWrite(m) \/ FailWrite(m) => carried' = [carried EXCEPT ![m] = {}]
<1>1. Carried(m) = task[m].chunk /\ task[m] \in Task
  BY TaskFacts DEF BeginWrite, EndWrite, FailWrite, Carried
<1>2. PICK w : Go(m, w) /\ w \in {[task[m] EXCEPT !.stage = "writing"], Idle,
                                  [task[m] EXCEPT !.stage = "fetch"]}
                        /\ (BeginWrite(m) <=> w = [task[m] EXCEPT !.stage = "writing"])
  <2>1. /\ [task[m] EXCEPT !.stage = "writing"].stage = "writing"
        /\ [task[m] EXCEPT !.stage = "fetch"].stage = "fetch" /\ Idle.stage = "idle"
    BY <1>1, IdleTask DEF Task
  <2>2. CASE BeginWrite(m)
    BY <2>2 DEF BeginWrite
  <2>3. CASE ~BeginWrite(m)
    BY <2>1, <2>3 DEF EndWrite, FailWrite
  <2>4. QED
    BY <2>2, <2>3
<1>3. CASE BeginWrite(m)
  <2>1. w.stage = "writing" /\ w.chunk = task[m].chunk
    BY <1>1, <1>2, <1>3 DEF Task
  <2>2. Carried(m)' = Carried(m) /\ \A n \in Machine : n # m => Carried(n)' = Carried(n)
    BY <1>1, <1>2, <2>1, GoCarries
  <2>3. carried' = carried
    BY <2>2 DEF carried
  <2>4. ~EndWrite(m) /\ ~(FailWrite(m) /\ ~BeginWrite(m))
    BY <1>3 DEF BeginWrite, EndWrite
  <2>5. ~FailWrite(m)
    <3>1. task'[m] = w
      BY <1>2, GoCarries
    <3>2. FailWrite(m) => task'[m].stage \in {"idle", "fetch"}
      BY <1>1, IdleTask DEF FailWrite, Go, Inv, Types, Task
    <3>3. QED
      BY <2>1, <3>1, <3>2
  <2>6. QED
    BY <1>1, <1>2, <2>2, <2>3, <2>4, <2>5, GoCarries
<1>4. CASE ~BeginWrite(m)
  <2>1. w.stage \in {"idle", "fetch"}
    BY <1>1, <1>2, <1>4, IdleTask DEF Task
  <2>2. Carried(m)' = {}
    BY <1>2, <2>1, GoCarries
  <2>3. QED
    BY <1>1, <1>2, <1>4, <2>2, GoCarries
<1>5. QED
  BY <1>3, <1>4

LEMMA CrashCarries ==
  ASSUME Inv, NEW m \in Machine, Crash(m)
  PROVE  /\ UNCHANGED <<seeds, files>>
         /\ \A n \in Machine : n # m => Carried(n)' = Carried(n)
         /\ carried' = [carried EXCEPT ![m] = {}]
<1>1. task' = [task EXCEPT ![m] = Idle] /\ UNCHANGED <<seeds, files>>
  BY DEF Crash
<1>2. Carried(m)' = {} /\ \A n \in Machine : n # m => Carried(n)' = Carried(n)
  BY <1>1, IdleTask DEF Carried, Inv, Types
<1>3. QED
  BY <1>1, <1>2 DEF carried

\* Every other step leaves the copies of the machines as they are.
LEMMA OthersCarry ==
  ASSUME Inv, [Next]_vars,
         \A m \in Machine : /\ ~Fetch(m) /\ ~BeginWrite(m) /\ ~EndWrite(m) /\ ~FailWrite(m)
                            /\ ~Crash(m)
  PROVE  /\ files' = files /\ carried' = carried /\ \A m \in Machine : Carried(m)' = Carried(m)
         /\ (seeds' = seeds \/ \E s \in Seed : seeds' = seeds \ {s})
<1>1. ASSUME UNCHANGED <<files, task>>
      PROVE  files' = files /\ carried' = carried /\ \A m \in Machine : Carried(m)' = Carried(m)
  BY <1>1 DEF carried, Carried
<1>2. ASSUME NEW m \in Machine, Query(m)
      PROVE  /\ UNCHANGED <<seeds, files, carried>> /\ \A n \in Machine : Carried(n)' = Carried(n)
  <2>1. PICK t : Go(m, t) /\ t.stage = "fetch"
    BY <1>2 DEF Query
  <2>2. Carried(m) = {} /\ Carried(m)' = {} /\ files' = files /\ seeds' = seeds
    BY <1>2, <2>1, GoCarries DEF Carried, Query
  <2>3. \A n \in Machine : Carried(n)' = Carried(n)
    BY <2>1, <2>2, GoCarries
  <2>4. QED
    BY <2>2, <2>3 DEF carried
<1>3. ASSUME NEW m \in Machine, Exit(m) \/ Restart(m) PROVE UNCHANGED <<seeds, files, task>>
  BY <1>3 DEF Exit, Restart
<1>4. ASSUME NEW i \in Id, Report(i) \/ Expire(i) \/ Evict(i)
      PROVE  UNCHANGED <<seeds, files, task>>
  BY <1>4 DEF Report, Expire, Evict, Forget, processes
<1>5. ASSUME NEW s \in Seed, SeedStop(s) PROVE UNCHANGED <<files, task>> /\ seeds' = seeds \ {s}
  BY <1>5 DEF SeedStop
<1>6. ASSUME UNCHANGED vars PROVE UNCHANGED <<seeds, files, task>>
  BY <1>6 DEF vars, processes
<1>7. QED
  BY <1>1, <1>2, <1>3, <1>4, <1>5, <1>6 DEF Next, Work

\* Every step is one of the abstract specification, or changes no copy.
LEMMA StepRefines ==
  ASSUME Inv, [Next]_vars
  PROVE  D!Next \/ UNCHANGED <<seeds, files, carried>>
<1>1. ASSUME NEW m \in Machine, Fetch(m)
      PROVE  D!Next \/ UNCHANGED <<seeds, files, carried>>
  <2>1. CASE carried' = carried
    BY <1>1, <2>1, FetchCarries
  <2>2. ASSUME NEW i \in Id, Serves(i, task[m].chunk),
               carried' = [carried EXCEPT ![m] = task[m].chunk], carried' # carried
        PROVE  D!Next
    <3>1. carried[m] = {} /\ UNCHANGED <<seeds, files>> /\ task[m] \in Task
      BY <1>1, FetchCarries DEF Inv, Types
    <3>2. task[m].chunk # {}
      BY <2>2, <3>1 DEF carried
    <3>3. PICK c \in Chunk : task[m].chunk = {c}
      BY <3>1, <3>2 DEF Task
    <3>4. D!Copies(c)
      <4>1. Addr(i) \in Seed \/ Addr(i) \in Machine
        BY IdShape DEF Address
      <4>2. QED
        BY <2>2, <3>3, <4>1 DEF Serves, Listens, Runs, D!Copies
    <3>5. D!Take(m, c)
      BY <2>2, <3>1, <3>3, <3>4 DEF D!Take, carried
    <3>6. QED
      BY <3>5 DEF D!Next
  <2>3. QED
    BY <1>1, <2>1, <2>2, FetchCarries
<1>2. ASSUME NEW m \in Machine, BeginWrite(m) PROVE D!Next
  <2>1. /\ files' = [files EXCEPT ![m] = @ \ carried[m]] /\ UNCHANGED <<seeds, carried>>
    BY <1>2, WriteCarries DEF BeginWrite
  <2>2. D!Spoil(m)
    BY <2>1 DEF D!Spoil, carried
  <2>3. QED
    BY <2>2 DEF D!Next
<1>3. ASSUME NEW m \in Machine, EndWrite(m) PROVE D!Next
  <2>1. /\ files' = [files EXCEPT ![m] = @ \cup carried[m]] /\ seeds' = seeds
        /\ carried' = [carried EXCEPT ![m] = {}]
    BY <1>3, WriteCarries DEF EndWrite
  <2>2. D!Put(m)
    BY <2>1 DEF D!Put, carried
  <2>3. QED
    BY <2>2 DEF D!Next
<1>4. ASSUME NEW m \in Machine, FailWrite(m) \/ Crash(m) PROVE D!Next
  <2>1. UNCHANGED <<seeds, files>> /\ carried' = [carried EXCEPT ![m] = {}]
    BY <1>4, WriteCarries, CrashCarries DEF FailWrite
  <2>2. D!Drop(m)
    BY <2>1 DEF D!Drop, carried
  <2>3. QED
    BY <2>2 DEF D!Next
<1>5. ASSUME files' = files, carried' = carried, NEW s \in Seed, seeds' = seeds \ {s}
      PROVE  D!Next
  <2>1. D!Leave(s)
    BY <1>5 DEF D!Leave, carried
  <2>2. QED
    BY <2>1 DEF D!Next
<1>6. QED
  BY <1>1, <1>2, <1>3, <1>4, <1>5, OthersCarry

\* The swarm implements the distribution of verified copies.
THEOREM SwarmImplementsDistribution == Spec => ImplementsDistribution
<1>1. Init => D!Init
  BY DEF Init, D!Init, Carried, Idle
<1>2. Inv /\ [Next]_vars => [D!Next]_D!vars
  BY StepRefines DEF D!vars, carried
<1>3. QED
  BY <1>1, <1>2, Invariance, PTL DEF Spec, ImplementsDistribution, D!Spec

\* A chunk that is nowhere after a step of the nodes was in the memory of one that
\* crashed or could not write it.
LEMMA WhoLoses ==
  ASSUME Inv, [Next]_vars, NEW c \in Chunk, Somewhere(c), ~Somewhere(c)', seeds' = seeds
  PROVE  \E m \in Machine : c \in Carried(m) /\ (Crash(m) \/ FailWrite(m))
<1>1. ASSUME NEW m \in Machine,
             \A n \in Machine : n # m => files'[n] = files[n] /\ Carried(n)' = Carried(n)
      PROVE  c \in files[m] \cup Carried(m) /\ c \notin files'[m] \cup Carried(m)'
  BY <1>1 DEF Somewhere, D!Copies
<1>2. ASSUME NEW m \in Machine, Fetch(m) PROVE FALSE
  <2>1. files' = files /\ Carried(m) = {}
    BY <1>2, FetchCarries
  <2>2. QED
    BY <1>1, <1>2, <2>1, FetchCarries
<1>3. ASSUME NEW m \in Machine, BeginWrite(m) PROVE FALSE
  <2>1. /\ files' = [files EXCEPT ![m] = @ \ task[m].chunk]
        /\ Carried(m) = task[m].chunk /\ Carried(m)' = task[m].chunk
        /\ \A n \in Machine : n # m => Carried(n)' = Carried(n)
    BY <1>3, WriteCarries DEF BeginWrite
  <2>2. /\ files'[m] = files[m] \ task[m].chunk
        /\ \A n \in Machine : n # m => files'[n] = files[n]
    BY <2>1 DEF Inv, Types
  <2>3. QED
    BY <1>1, <2>1, <2>2
<1>4. ASSUME NEW m \in Machine, EndWrite(m) PROVE FALSE
  <2>1. /\ files' = [files EXCEPT ![m] = @ \cup task[m].chunk]
        /\ Carried(m) = task[m].chunk
        /\ \A n \in Machine : n # m => Carried(n)' = Carried(n)
    BY <1>4, WriteCarries DEF EndWrite
  <2>2. /\ files'[m] = files[m] \cup task[m].chunk
        /\ \A n \in Machine : n # m => files'[n] = files[n]
    BY <2>1 DEF Inv, Types
  <2>3. QED
    BY <1>1, <2>1, <2>2
<1>5. ASSUME NEW m \in Machine, Crash(m) \/ FailWrite(m) PROVE c \in Carried(m)
  <2>1. files' = files /\ \A n \in Machine : n # m => Carried(n)' = Carried(n)
    BY <1>5, WriteCarries, CrashCarries DEF FailWrite
  <2>2. QED
    BY <1>1, <2>1
<1>6. ASSUME files' = files, \A m \in Machine : Carried(m)' = Carried(m) PROVE FALSE
  BY <1>6 DEF Somewhere, D!Copies
<1>7. QED
  BY <1>2, <1>3, <1>4, <1>5, <1>6, OthersCarry

\* Only the end of a seed, and a crash or a failed write in the middle of a fetch, lose
\* a chunk.
THEOREM NothingElseLoses == Spec => OnlyCarriersLose
<1>1. Inv /\ [Next]_vars =>
        [\A c \in Chunk : (Somewhere(c) /\ ~Somewhere(c)') =>
           \/ seeds' # seeds
           \/ \E m \in Machine : c \in Carried(m) /\ (Crash(m) \/ FailWrite(m))]_vars
  BY WhoLoses
<1>2. QED
  BY <1>1, Invariance, PTL DEF Spec, OnlyCarriersLose

-----------------------------------------------------------------------------
(* The nodes and the tracker by themselves *)

heard == [m \in Machine |-> bits[Self(m)]]

\* The ids of two processes differ, so a change of one entry is heard of one at most.
LEMMA HeardOfOne ==
  ASSUME Inv, NEW i \in Id, NEW B, bits' = [bits EXCEPT ![i] = B], life' = life
  PROVE  \/ heard' = heard
         \/ \E m \in Machine : i = Self(m) /\ heard' = [heard EXCEPT ![m] = B]
<1>1. \A m \in Machine : Self(m) \in Id /\ Self(m)' = Self(m)
  BY SelfIsId DEF Inv, Self
<1>2. CASE \A m \in Machine : i # Self(m)
  BY <1>1, <1>2 DEF heard
<1>3. ASSUME NEW m \in Machine, i = Self(m) PROVE heard' = [heard EXCEPT ![m] = B]
  <2>1. \A n \in Machine \ {m} : Self(n) # i
    BY <1>3 DEF Self
  <2>2. \A n \in Machine : bits'[Self(n)] = IF n = m THEN B ELSE bits[Self(n)]
    BY <1>1, <1>3, <2>1 DEF Inv, Types
  <2>3. QED
    BY <1>1, <2>2 DEF heard
<1>4. QED
  BY <1>2, <1>3

\* A write over the file of a chunk under way; every chunk under way is one at most.
LEMMA WriteAsNode ==
  ASSUME Inv, NEW m \in Machine, BeginWrite(m) \/ EndWrite(m)
  PROVE  [N!Next]_(N!vars)
<1> DEFINE C == task[m].chunk
<1>1. /\ C \in {{}} \cup {{c} : c \in Chunk} /\ C \cap have[m] = {} /\ phase[m] = "up"
  BY TaskFacts DEF BeginWrite, EndWrite, Task
<1>2. UNCHANGED <<phase, heard>>
  BY DEF BeginWrite, EndWrite, Go, heard, Self, processes, tracker
<1>3. have \in [Machine -> SUBSET Chunk] /\ files \in [Machine -> SUBSET Chunk]
  BY DEF Inv, Types
<1>4. CASE C = {}
  <2>1. UNCHANGED <<files, have>>
    BY <1>3, <1>4 DEF BeginWrite, EndWrite
  <2>2. QED
    BY <1>2, <2>1 DEF N!vars, heard
<1>5. ASSUME NEW c \in Chunk, C = {c} PROVE N!Next
  <2>1. CASE BeginWrite(m)
    <3>1. N!Overwrite(m, c)
      BY <1>1, <1>2, <1>5, <2>1 DEF BeginWrite, N!Overwrite, heard
    <3>2. QED
      BY <3>1 DEF N!Next
  <2>2. CASE EndWrite(m)
    <3>1. N!Receive(m, c)
      BY <1>1, <1>2, <1>5, <2>2 DEF EndWrite, N!Receive, heard
    <3>2. QED
      BY <3>1 DEF N!Next
  <2>3. QED
    BY <2>1, <2>2
<1>6. QED
  BY <1>1, <1>4, <1>5

\* A report or the end of an entry is heard of at most one process.
LEMMA EntryAsNode ==
  ASSUME Inv, NEW i \in Id, Report(i) \/ Evict(i)
  PROVE  [N!Next]_(N!vars)
<1>1. UNCHANGED <<phase, life, have, files>>
  BY DEF Report, Evict, Forget, processes
<1>2. PICK B : /\ bits' = [bits EXCEPT ![i] = B]
               /\ B = {} \/ (Alive(i) /\ B = Got(Addr(i)))
  <2>1. CASE Report(i)
    BY <2>1 DEF Report
  <2>2. CASE Evict(i)
    <3>1. bits' = [bits EXCEPT ![i] = {}]
      BY <2>2 DEF Evict, Forget, Inv, Types
    <3>2. QED
      BY <3>1
  <2>3. QED
    BY <2>1, <2>2
<1>3. CASE heard' = heard
  BY <1>1, <1>3 DEF N!vars, heard
<1>4. ASSUME NEW m \in Machine, i = Self(m), heard' = [heard EXCEPT ![m] = B]
      PROVE  N!Next
  <2>1. Addr(i) = m /\ m \notin Seed /\ have[m] \subseteq Chunk
    BY <1>4, SelfIsId DEF Inv, Types
  <2>2. B \in SUBSET Chunk /\ B \subseteq N!Known(m)
    BY <1>2, <2>1 DEF N!Known, Alive, Runs, Got
  <2>3. N!Hear(m, B)
    BY <1>1, <1>4, <2>2 DEF N!Hear, heard
  <2>4. QED
    BY <2>2, <2>3 DEF N!Next
<1>5. QED
  BY <1>1, <1>2, <1>3, <1>4, HeardOfOne

\* A start gives a machine an id that the tracker has not heard of.
LEMMA RestartAsNode ==
  ASSUME Inv, NEW m \in Machine, Restart(m)
  PROVE  N!Restart(m)
<1>1. /\ life' = [life EXCEPT ![m] = @ + 1] /\ UNCHANGED <<bits, files>>
      /\ phase' = [phase EXCEPT ![m] = "up"] /\ phase[m] # "up"
      /\ have' = [have EXCEPT ![m] = {}]
  BY DEF Restart, tracker
<1>2. Inv'
  BY RestartInv
<1>3. /\ Self(m)' \in Id /\ Addr(Self(m)') = m /\ Self(m)'[2] = life[m] + 1
      /\ life[m] \in Nat
  BY <1>1, <1>2 DEF Self, Addr, Inv, Types, Id
<1>4. bits'[Self(m)'] = {}
  BY <1>1, <1>3 DEF Inv, BitsInv
<1>5. \A n \in Machine : bits'[Self(n)'] = IF n = m THEN {} ELSE bits[Self(n)]
  BY <1>1, <1>4 DEF Self, Inv, Types
<1>6. heard' = [heard EXCEPT ![m] = {}]
  BY <1>5 DEF heard
<1>7. QED
  BY <1>1, <1>6 DEF N!Restart, heard

\* Every node of the swarm is the node that Downloader implements, so what the two
\* modules say of a node is said of the same.
THEOREM SwarmImplementsNodes == Spec => ImplementsNodes
<1>1. Init => N!Init
  <2> SUFFICES ASSUME Init PROVE N!Init
    OBVIOUS
  <2>1. Inv
    BY InitInv
  <2>2. \A m \in Machine : Self(m) \in Id /\ bits[Self(m)] = {}
    BY <2>1, SelfIsId DEF Init, Inv
  <2>3. QED
    BY <2>2 DEF Init, N!Init
<1>2. ASSUME Inv, [Next]_vars PROVE [N!Next]_(N!vars)
  <2>1. ASSUME NEW m \in Machine, Query(m) \/ Fetch(m) \/ FailWrite(m) PROVE UNCHANGED N!vars
    <3>1. UNCHANGED <<processes, tracker, have, files>>
      BY <2>1 DEF Query, Fetch, FailWrite, Go
    <3>2. QED
      BY <3>1 DEF N!vars, Self, processes, tracker
  <2>2. ASSUME NEW m \in Machine, Exit(m) PROVE N!Next
    <3>1. N!Exit(m)
      BY <2>2 DEF Exit, N!Exit, Self, tracker
    <3>2. QED
      BY <3>1 DEF N!Next
  <2>3. ASSUME NEW m \in Machine, Crash(m) PROVE N!Next
    <3>1. N!Crash(m)
      BY <2>3 DEF Crash, N!Crash, Self, tracker
    <3>2. QED
      BY <3>1 DEF N!Next
  <2>4. ASSUME NEW m \in Machine, Restart(m) PROVE N!Next
    BY <1>2, <2>4, RestartAsNode DEF N!Next
  <2>5. ASSUME NEW s \in Seed, SeedStop(s) PROVE UNCHANGED N!vars
    BY <2>5 DEF SeedStop, N!vars, Self, tracker
  <2>6. ASSUME NEW i \in Id, Expire(i) PROVE UNCHANGED N!vars
    BY <2>6 DEF Expire, N!vars, Self, processes
  <2>7. CASE UNCHANGED vars
    BY <2>7 DEF vars, N!vars, Self, processes, tracker
  <2>8. QED
    BY <1>2, <2>1, <2>2, <2>3, <2>4, <2>5, <2>6, <2>7, WriteAsNode, EntryAsNode DEF Next, Work
<1>3. QED
  BY <1>1, <1>2, Invariance, PTL DEF Spec, N!Spec, ImplementsNodes

\* The table of ids in the swarm is the registry that Tracker implements: no start or end
\* of a process touches an entry, and only a silent id loses its own.
THEOREM SwarmActsAsRegistry == Spec => ActsAsRegistry
<1>1. ASSUME Inv, [Next]_vars PROVE [R!Next]_(R!vars)
  <2>1. ASSUME UNCHANGED tracker PROVE UNCHANGED R!vars
    BY <2>1 DEF tracker, R!vars
  <2>2. ASSUME NEW m \in Machine,
               \/ Work(m) \/ FailWrite(m)
               \/ Crash(m) \/ Restart(m)
        PROVE  UNCHANGED tracker
    BY <2>2 DEF Work, Query, Fetch, BeginWrite, EndWrite, FailWrite, Exit, Crash, Restart, Go
  <2>3. ASSUME NEW i \in Id, Report(i) PROVE R!Next
    <3>1. Got(Addr(i)) \in SUBSET Chunk
      <4>1. bits'[i] = Got(Addr(i)) /\ Inv'
        BY <1>1, <2>3, ReportInv DEF Report, Inv, Types
      <4>2. QED
        BY <4>1 DEF Inv, Types
    <3>2. R!Report("job", i, Got(Addr(i)))
      BY <2>3 DEF Report, R!Report
    <3>3. QED
      BY <3>1, <3>2 DEF R!Next
  <2>4. ASSUME NEW i \in Id, Expire(i) PROVE R!Next
    <3>1. R!Expire("job", i)
      BY <2>4 DEF Expire, R!Expire
    <3>2. QED
      BY <3>1 DEF R!Next
  <2>5. ASSUME NEW i \in Id, Evict(i) PROVE R!Next
    <3>1. /\ {i} # {} /\ {i} \subseteq stale /\ nodes' = nodes \ {i} /\ stale' = stale \ {i}
          /\ bits' = [n \in Id |-> IF n \in {i} THEN {} ELSE bits[n]]
      BY <2>5 DEF Evict, Forget
    <3>2. R!Evict("job", {i})
      BY <3>1 DEF R!Evict
    <3>3. QED
      BY <3>2 DEF R!Next
  <2>6. ASSUME NEW s \in Seed, SeedStop(s) PROVE UNCHANGED tracker
    BY <2>6 DEF SeedStop
  <2>7. CASE UNCHANGED vars
    BY <2>1, <2>7 DEF vars
  <2>8. QED
    BY <1>1, <2>1, <2>2, <2>3, <2>4, <2>5, <2>6, <2>7 DEF Next
<1>2. QED
  BY <1>1, Invariance, PTL DEF Spec, ActsAsRegistry
=============================================================================
