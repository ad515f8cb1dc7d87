---------------------------------- MODULE Nodes ----------------------------------
(***************************************************************************)
(* What a node promises the tracker and the other nodes, with no tasks,    *)
(* rounds, lists or messages under way: it overwrites no file of a chunk   *)
(* it has received, a chunk is received with its file, the tracker lists   *)
(* of a process what that process has received, and every start is a fresh *)
(* one.  Downloader.tla is shown to implement this for one machine and     *)
(* Swarm.tla for all of them, so the two mean the same by a node.          *)
(***************************************************************************)
CONSTANTS Machine, Chunk

VARIABLES
  phase,   \* per machine, its process: "up", "done" (by itself) or "down"
  have,    \* the chunks that the process has received
  files,   \* the chunks whose file in data_dir passes verification
  listed   \* what the tracker lists for the process, or for the last one

vars == <<phase, have, files, listed>>

Init ==
  /\ phase = [m \in Machine |-> "up"]
  /\ have = [m \in Machine |-> {}]
  /\ files \in [Machine -> SUBSET Chunk]
  /\ listed = [m \in Machine |-> {}]

-----------------------------------------------------------------------------
\* A write begins, over whatever the file held; a chunk that is received has no other.
Overwrite(m, c) ==
  /\ phase[m] = "up" /\ c \notin have[m]
  /\ files' = [files EXCEPT ![m] = @ \ {c}]
  /\ UNCHANGED <<phase, have, listed>>

Receive(m, c) ==
  /\ phase[m] = "up"
  /\ files' = [files EXCEPT ![m] = @ \cup {c}]
  /\ have' = [have EXCEPT ![m] = @ \cup {c}]
  /\ UNCHANGED <<phase, listed>>

\* What a heartbeat may still say of a process that was killed is on its disk.
Known(m) == IF phase[m] = "down" THEN files[m] ELSE have[m]

\* A heartbeat is handled, soon or late, or the tracker forgets the process.
Hear(m, B) ==
  /\ B \subseteq Known(m)
  /\ listed' = [listed EXCEPT ![m] = B]
  /\ UNCHANGED <<phase, have, files>>

Exit(m) ==
  /\ phase[m] = "up" /\ have[m] = Chunk
  /\ phase' = [phase EXCEPT ![m] = "done"]
  /\ UNCHANGED <<have, files, listed>>

Crash(m) ==
  /\ phase[m] = "up"
  /\ phase' = [phase EXCEPT ![m] = "down"]
  /\ have' = [have EXCEPT ![m] = {}]
  /\ UNCHANGED <<files, listed>>

\* Nobody has heard of the new process yet.
Restart(m) ==
  /\ phase[m] # "up"
  /\ phase' = [phase EXCEPT ![m] = "up"]
  /\ have' = [have EXCEPT ![m] = {}]
  /\ listed' = [listed EXCEPT ![m] = {}]
  /\ UNCHANGED files

Next ==
  \E m \in Machine :
    \/ \E c \in Chunk : Overwrite(m, c) \/ Receive(m, c)
    \/ \E B \in SUBSET Chunk : Hear(m, B)
    \/ Exit(m)
    \/ Crash(m)
    \/ Restart(m)

Spec == Init /\ [][Next]_vars

-----------------------------------------------------------------------------
\* A process that is there, or was there last, is listed with what its machine has on
\* disk only: whoever is sent to it is sent to whole files.
ListedIsWhole == \A m \in Machine : listed[m] \subseteq files[m]

\* A process ends by itself only with the whole file, and no task of it is left to spoil one.
DoneIsWhole == \A m \in Machine : phase[m] = "done" => files[m] = Chunk
=============================================================================
