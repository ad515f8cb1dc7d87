------------------------------ MODULE MCDownloader ------------------------------
(* Instances of Downloader for TLC. *)
EXTENDS Downloader, TLC

CONSTANTS k1, k2, p1, p2

\* An environment that answers anything: no peer, one or two, and every peer may fail
\* in every way or send the chunk, but one, which is silent for ever when asked for chunk 2.
AnyAnswers == [c \in Chunk |-> {<<>>, <<p1>>, <<p1, p2>>}]
AnyServes ==
  [p \in Peer |-> [c \in Chunk |->
     IF p = p2 /\ c = 2 THEN {} ELSE {"refused", "other", "good"}]]

Symmetry == Permutations(Permit)

\* Chunk 1 is held by nobody; the first candidate of the others sends garbage
\* or nothing, the second one serves them.
SteadyAnswers == [c \in Chunk |-> IF c = 1 THEN {<<>>} ELSE {<<p1, p2>>}]
SteadyServes ==
  p1 :> [c \in Chunk |-> {"refused", "absent", "torn", "other"}] @@
  p2 :> [c \in Chunk |-> {"good"}]

\* Everything is there for the asking.
GoodAnswers == [c \in Chunk |-> {<<p2>>}]

\* The first candidate takes the connection and never answers.
SilentAnswers == [c \in Chunk |-> {<<p1, p2>>}]
SilentServes == p1 :> [c \in Chunk |-> {}] @@ p2 :> [c \in Chunk |-> {"good"}]
=============================================================================
