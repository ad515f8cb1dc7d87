------------------------------- MODULE NodesProofs -------------------------------
(* Theorems of Nodes, and so of every module that implements it. *)
EXTENDS Nodes, TLAPS

\* What has been received stays whole, and nothing else is heard of.
Inv ==
  /\ phase \in [Machine -> {"up", "done", "down"}]
  /\ have \in [Machine -> SUBSET Chunk]
  /\ files \in [Machine -> SUBSET Chunk]
  /\ listed \in [Machine -> SUBSET Chunk]
  /\ \A m \in Machine : /\ have[m] \subseteq files[m]
                        /\ listed[m] \subseteq Known(m)
                        /\ phase[m] = "done" => have[m] = Chunk

LEMMA StepInv ==
  ASSUME Inv, [Next]_vars
  PROVE  Inv'
<1>1. ASSUME NEW m \in Machine, NEW c \in Chunk, Overwrite(m, c) PROVE Inv'
  BY <1>1 DEF Inv, Overwrite, Known
<1>2. ASSUME NEW m \in Machine, NEW c \in Chunk, Receive(m, c) PROVE Inv'
  BY <1>2 DEF Inv, Receive, Known
<1>3. ASSUME NEW m \in Machine, NEW B \in SUBSET Chunk, Hear(m, B) PROVE Inv'
  BY <1>3 DEF Inv, Hear, Known
<1>4. ASSUME NEW m \in Machine, Exit(m) PROVE Inv'
  BY <1>4 DEF Inv, Exit, Known
<1>5. ASSUME NEW m \in Machine, Crash(m) PROVE Inv'
  BY <1>5 DEF Inv, Crash, Known
<1>6. ASSUME NEW m \in Machine, Restart(m) PROVE Inv'
  BY <1>6 DEF Inv, Restart, Known
<1>7. CASE UNCHANGED vars
  BY <1>7 DEF vars, Inv, Known
<1> QED BY <1>1, <1>2, <1>3, <1>4, <1>5, <1>6, <1>7 DEF Next

\* Whatever implements Nodes is listed with whole files only: each node by itself as
\* Downloader has it, and all of them over crashes and restarts as Swarm has them.
THEOREM ListedFilesAreWhole == Spec => []ListedIsWhole
<1>1. Init => Inv
  BY DEF Init, Inv, Known
<1>2. Inv => ListedIsWhole
  BY DEF Inv, Known, ListedIsWhole
<1> QED BY <1>1, <1>2, StepInv, PTL DEF Spec

\* The end of any process of Downloader and of Swarm: the file is there, and stays.
THEOREM DoneFilesAreWhole == Spec => []DoneIsWhole
<1>1. Init => Inv
  BY DEF Init, Inv, Known
<1>2. Inv => DoneIsWhole
  <2> SUFFICES ASSUME Inv, NEW m \in Machine, phase[m] = "done" PROVE files[m] = Chunk
    BY DEF DoneIsWhole
  <2>1. Chunk \subseteq files[m] /\ files[m] \in SUBSET Chunk
    BY DEF Inv
  <2> QED BY <2>1
<1> QED BY <1>1, <1>2, StepInv, PTL DEF Spec
=============================================================================
