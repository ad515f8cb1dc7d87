------------------------------ MODULE Distribution ------------------------------
(***************************************************************************)
(* What the whole system promises of the bytes, with no tracker, ids or    *)
(* lists: a verified copy of a chunk only ever comes from a verified copy, *)
(* passes through the memory of the process that takes it, and takes the   *)
(* place of that machine's file.  Swarm.tla is shown to implement this.    *)
(***************************************************************************)
CONSTANTS Machine, Seed, Chunk, SeedHas

VARIABLES
  seeds,   \* the seeds that run
  holds,   \* per machine, the chunks whose file is whole
  carry    \* per machine, the chunks in memory, verified and not yet a whole file

vars == <<seeds, holds, carry>>

Copies(c) == \/ \E s \in seeds : c \in SeedHas[s]
             \/ \E m \in Machine : c \in holds[m]

Init ==
  /\ seeds = Seed
  /\ holds \in [Machine -> SUBSET Chunk]
  /\ carry = [m \in Machine |-> {}]

\* Only what somebody holds can be taken.
Take(m, c) ==
  /\ carry[m] = {} /\ Copies(c)
  /\ carry' = [carry EXCEPT ![m] = {c}]
  /\ UNCHANGED <<seeds, holds>>

\* The file that is about to be written is no copy meanwhile.
Spoil(m) ==
  /\ holds' = [holds EXCEPT ![m] = @ \ carry[m]]
  /\ UNCHANGED <<seeds, carry>>

Put(m) ==
  /\ holds' = [holds EXCEPT ![m] = @ \cup carry[m]]
  /\ carry' = [carry EXCEPT ![m] = {}]
  /\ UNCHANGED seeds

\* A process ends with what it has in memory, or cannot write it.
Drop(m) ==
  /\ carry' = [carry EXCEPT ![m] = {}]
  /\ UNCHANGED <<seeds, holds>>

Leave(s) ==
  /\ seeds' = seeds \ {s}
  /\ UNCHANGED <<holds, carry>>

Next ==
  \/ \E m \in Machine : \/ \E c \in Chunk : Take(m, c)
                        \/ Spoil(m)
                        \/ Put(m)
                        \/ Drop(m)
  \/ \E s \in Seed : Leave(s)

Spec == Init /\ [][Next]_vars
=============================================================================
