------------------------------- MODULE Eviction -------------------------------
(***************************************************************************)
(* Who is listed when: the heartbeats of a process (src/src/peer/mod.rs),  *)
(* what the tracker remembers of them (NodeState) and its eviction passes  *)
(* (src/src/tracker/server.rs), in time.  The clock advances in fractions  *)
(* of a second, as a node's age is cut to seconds before it is compared.   *)
(* What is due is done before the clock advances.  The loop sends one      *)
(* heartbeat at a time and waits for its answer without a timeout, so one  *)
(* that hangs holds up the next; the ticks missed meanwhile are made up    *)
(* for at once (tokio's interval).  A heartbeat may take any time up to    *)
(* MaxDelay, also when its sender has ended meanwhile.                     *)
(***************************************************************************)
EXTENDS Integers

CONSTANTS
  Id,         \* node ids; every start of a process has a fresh one
  Res,        \* clock steps in a second
  Beat,       \* seconds between heartbeats, 5 in the code
  Tick,       \* seconds between eviction passes, 30
  Timeout,    \* seconds until a node is stale, 60
  MaxDelay,   \* clock steps until a heartbeat is handled or has failed, at most
  Behind,     \* bound: clock steps a loop is behind its ticks, as far as they are counted
  Prompt,     \* clock steps after which LiveStays calls a heartbeat slow
  MaxLost     \* failures in a row that LiveStays forgives

Period == Beat * Res
Pause == Tick * Res

ASSUME TimeAssumption ==
  /\ Res \in Nat \ {0} /\ Beat \in Nat \ {0} /\ Tick \in Nat \ {0}
  /\ Timeout \in Nat /\ MaxDelay \in Nat /\ Behind \in Nat
  /\ Prompt \in Nat /\ MaxLost \in Nat

VARIABLES
  proc,     \* per id, its process: "new", "up" or "dead"
  beat,     \* until the next tick of the heartbeat interval; below 0 it is overdue
  flight,   \* since the heartbeat under way was sent, -1 without one
  lost,     \* heartbeats that failed since the last that was handled, to MaxLost + 1
  slow,     \* a heartbeat since then took longer than Prompt (read by a property only)
  listed,   \* the ids in Job::nodes
  age,      \* of a listed id: last_seen.elapsed(), in clock steps
  gone,     \* since the process ended, as long as the tracker may hear or know of it
  sweep     \* until the next eviction pass

vars == <<proc, beat, flight, lost, slow, listed, age, gone, sweep>>

\* Types: no timer runs past its interval, and no heartbeat past its delay.
TypeOK ==
  /\ proc \in [Id -> {"new", "up", "dead"}]
  /\ beat \in [Id -> -Behind .. Period]
  /\ flight \in [Id -> -1 .. MaxDelay]
  /\ lost \in [Id -> 0 .. MaxLost + 1]
  /\ slow \in [Id -> BOOLEAN]
  /\ listed \subseteq Id
  /\ age \in [Id -> Nat]
  /\ gone \in [Id -> Nat]
  /\ sweep \in 0 .. Pause

\* The first tick of an interval is immediate.
Init ==
  /\ proc = [i \in Id |-> "new"]
  /\ beat = [i \in Id |-> 0]
  /\ flight = [i \in Id |-> -1]
  /\ lost = [i \in Id |-> 0]
  /\ slow = [i \in Id |-> FALSE]
  /\ listed = {}
  /\ age = [i \in Id |-> 0]
  /\ gone = [i \in Id |-> 0]
  /\ sweep = 0

-----------------------------------------------------------------------------
(* The process *)

Start(i) ==
  /\ proc[i] = "new"
  /\ proc' = [proc EXCEPT ![i] = "up"]
  /\ UNCHANGED <<beat, flight, lost, slow, listed, age, gone, sweep>>

\* Mutant: the interval is a step too long.
SendLate(i) ==
  /\ proc[i] = "up" /\ beat[i] <= 0 /\ flight[i] = -1
  /\ flight' = [flight EXCEPT ![i] = 0]
  /\ beat' = [beat EXCEPT ![i] = @ + Period + 1]
  /\ UNCHANGED <<proc, lost, slow, listed, age, gone, sweep>>

\* A tick, when it is due or long overdue; the ticks after it keep their times.
Send(i) ==
  /\ proc[i] = "up" /\ beat[i] <= 0 /\ flight[i] = -1
  /\ flight' = [flight EXCEPT ![i] = 0]
  /\ beat' = [beat EXCEPT ![i] = @ + Period]
  /\ UNCHANGED <<proc, lost, slow, listed, age, gone, sweep>>

\* The connection fails, at once or late; the loop waits for the next tick.
Fail(i) ==
  /\ flight[i] >= 0
  /\ flight' = [flight EXCEPT ![i] = -1]
  /\ lost' = [lost EXCEPT ![i] = IF @ <= MaxLost THEN @ + 1 ELSE @]
  /\ UNCHANGED <<proc, beat, slow, listed, age, gone, sweep>>

\* The download is complete, or the process crashed.
End(i) ==
  /\ proc[i] = "up"
  /\ proc' = [proc EXCEPT ![i] = "dead"]
  /\ UNCHANGED <<beat, flight, lost, slow, listed, age, gone, sweep>>

-----------------------------------------------------------------------------
(* The tracker *)

\* update_node inserts the id, known before or not, and touches it.
Handle(i) ==
  /\ flight[i] >= 0
  /\ listed' = listed \cup {i}
  /\ age' = [age EXCEPT ![i] = 0]
  /\ lost' = [lost EXCEPT ![i] = 0]
  /\ slow' = [slow EXCEPT ![i] = FALSE]
  /\ flight' = [flight EXCEPT ![i] = -1]
  /\ UNCHANGED <<proc, beat, gone, sweep>>

\* Mutant: stale at the timeout already.
IsStaleAt(i) == age[i] \div Res >= Timeout

IsStale(i) == age[i] \div Res > Timeout

\* Mutant: a pass ends with the first entry it removes.
SweepOne ==
  /\ sweep = 0
  /\ sweep' = Pause
  /\ IF \A i \in listed : ~IsStale(i) THEN UNCHANGED <<listed, age>>
     ELSE \E i \in listed : /\ IsStale(i)
                            /\ listed' = listed \ {i}
                            /\ age' = [age EXCEPT ![i] = 0]
  /\ UNCHANGED <<proc, beat, flight, lost, slow, gone>>

\* evict_stale_nodes.
Sweep ==
  /\ sweep = 0
  /\ sweep' = Pause
  /\ listed' = {i \in listed : ~IsStale(i)}
  /\ age' = [i \in Id |-> IF i \in listed' THEN age[i] ELSE 0]
  /\ UNCHANGED <<proc, beat, flight, lost, slow, gone>>

-----------------------------------------------------------------------------
\* What is due is done first.
Pass ==
  /\ sweep > 0
  /\ \A i \in Id : /\ (proc[i] = "up" /\ flight[i] = -1) => beat[i] > 0
                   /\ flight[i] < MaxDelay
  /\ sweep' = sweep - 1
  /\ beat' = [i \in Id |-> IF proc[i] = "up" /\ beat[i] > -Behind THEN beat[i] - 1 ELSE beat[i]]
  /\ flight' = [i \in Id |-> IF flight[i] >= 0 THEN flight[i] + 1 ELSE -1]
  /\ slow' = [i \in Id |-> slow[i] \/ flight[i] >= Prompt]
  /\ age' = [i \in Id |-> IF i \in listed THEN age[i] + 1 ELSE age[i]]
  /\ gone' = [i \in Id |-> IF proc[i] = "dead" /\ (i \in listed \/ flight[i] >= 0)
                             THEN gone[i] + 1 ELSE gone[i]]
  /\ UNCHANGED <<proc, lost, listed>>

Next ==
  \/ \E i \in Id : Start(i) \/ Send(i) \/ Fail(i) \/ End(i) \/ Handle(i)
  \/ Sweep
  \/ Pass

Spec == Init /\ [][Next]_vars

-----------------------------------------------------------------------------
(* Properties *)

\* The tracker hears of a live process before it takes it for dead: at 5 and 60 seconds,
\* after 10 failures in a row and with heartbeats that take less than 5 seconds each.
Reaches == Prompt <= Period /\ MaxLost * Period + Period + Prompt < (Timeout + 1) * Res

\* An eviction takes a live process off the list only if more than MaxLost heartbeats in
\* a row have failed, or one was slow (nothing in the loop ends a heartbeat that hangs):
\* however losses, delays, made-up ticks and passes fall together, nothing else does.
LiveStays ==
  [][Reaches => \A i \in listed \ listed' :
       proc[i] = "up" => slow[i] \/ lost[i] > MaxLost]_vars

\* A process that ended is offered to nobody for longer than a delay, the timeout, the
\* second that is cut off and a round of the timer; its last heartbeat may come after
\* an eviction and list it once more.
DeadLeaves ==
  \A i \in listed : gone[i] < MaxDelay + (Timeout + 1) * Res + Pause
=============================================================================
