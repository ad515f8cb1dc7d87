-------------------------------- MODULE MCSwarm --------------------------------
(* An instance of Swarm for TLC. *)
EXTENDS Swarm, TLC

CONSTANTS m1, m2, s

MCSeedHas == s :> {0, 1}

\* The first node has a chunk of an earlier job, and may crash or be started again once.
MCFound == m1 :> {{0}} @@ m2 :> {{}}
MCMaxLives == m1 :> 2 @@ m2 :> 1

\* The completion checks meet m2 first, and its own wedges at once.
MCShard == [i \in Id |-> IF Addr(i) = m2 THEN 0 ELSE 1]

\* The nodes share a rack, and so rank before the seed.
MCRack == [a \in Address |-> IF a = s THEN "far" ELSE "near"]
MCBandwidth == [a \in Address |-> 8000]

MCMayBeSilent == {<<m1, 1>>}
=============================================================================
