----------------------------- MODULE EvictionProofs -----------------------------
(***************************************************************************)
(* Theorems of Eviction: what it takes to evict a live process, and that   *)
(* none that ended is listed beyond a bound, for every interval, timeout   *)
(* and delay, also delays beyond the timeout.                              *)
(***************************************************************************)
EXTENDS Eviction, TLAPS

\* The products of the constants are numbers.
LEMMA Products ==
  /\ Period \in Nat /\ Pause \in Nat /\ Period > 0 /\ Pause > 0
  /\ (Timeout + 1) * Res \in Nat /\ MaxLost * Period \in Nat
<1>1. \A a, b \in Nat \ {0} : a * b \in Nat /\ a * b > 0
  OBVIOUS
<1>2. \A a, b \in Nat : a * b \in Nat
  OBVIOUS
<1>3. Period \in Nat /\ Pause \in Nat /\ Period > 0 /\ Pause > 0
  BY <1>1, TimeAssumption DEF Period, Pause
<1>4. (Timeout + 1) * Res \in Nat /\ MaxLost * Period \in Nat
  BY <1>2, <1>3, TimeAssumption
<1>5. QED
  BY <1>3, <1>4

\* An age whose seconds, cut off, are within the timeout is less than a second above it.
LEMMA FreshAge ==
  ASSUME NEW a \in Nat
  PROVE  a \div Res > Timeout <=> a >= (Timeout + 1) * Res
<1> DEFINE q == a \div Res
           r == a % Res
           p == q * Res
           t == (Timeout + 1) * Res
<1>1. q \in Nat /\ r \in 0 .. Res - 1 /\ a = Res * q + r /\ Res * q = p /\ p \in Nat
  <2>1. q \in Nat /\ r \in 0 .. Res - 1 /\ a = Res * q + r
    BY TimeAssumption
  <2> HIDE DEF q, r
  <2>2. QED
    BY <2>1, TimeAssumption
<1>2. q > Timeout => p >= t
  <2> HIDE DEF q
  <2>1. \A x, y, d \in Nat : x >= y => x * d >= y * d
    OBVIOUS
  <2>2. QED
    BY <1>1, <2>1, TimeAssumption
<1>3. ~ (q > Timeout) => p <= Timeout * Res
  <2> HIDE DEF q
  <2>1. \A x, y, d \in Nat : x <= y => x * d <= y * d
    OBVIOUS
  <2>2. QED
    BY <1>1, <2>1, TimeAssumption
<1>4. Timeout * Res \in Nat /\ t = Timeout * Res + Res
  BY TimeAssumption
<1> DEFINE u == Timeout * Res
<1> HIDE DEF q, r, p, t, u
<1>5. q > Timeout <=> a >= t
  BY <1>1, <1>2, <1>3, <1>4, TimeAssumption DEF u
<1>6. QED
  BY <1>5 DEF q, t

\* A heartbeat under way was sent at the last tick of the interval or later, unless it
\* has been under way for longer than an interval.
FlightInv ==
  \A i \in Id :
    /\ proc[i] = "new" => flight[i] = -1 /\ i \notin listed /\ beat[i] = 0
    /\ (proc[i] = "up" /\ flight[i] \in 0 .. Period) => beat[i] <= Period - flight[i]
    /\ flight[i] > Prompt => slow[i]

\* The time since the last report that its losses do not explain; an overdue tick
\* explains a whole interval.
Rest(i) == IF flight[i] >= 0 THEN Period + flight[i]
           ELSE IF beat[i] > 0 THEN Period - beat[i] ELSE Period

\* No entry is older than the losses since its last report explain, if none was slow.
FreshInv ==
  Prompt <= Period =>
    \A i \in listed :
      (proc[i] = "up" /\ ~slow[i] /\ lost[i] <= MaxLost) => age[i] <= lost[i] * Period + Rest(i)

\* No entry outlives the pass that finds it stale.
AgeInv ==
  \A i \in listed : age[i] + sweep < (Timeout + 1) * Res + Pause

\* What the tracker has of a process is at most a delay older than its end.
GoneInv ==
  \A i \in Id :
    /\ proc[i] # "dead" => gone[i] = 0
    /\ flight[i] >= 0 => gone[i] <= flight[i]
    /\ i \in listed => gone[i] <= MaxDelay + age[i]

Inv == TypeOK /\ FlightInv /\ FreshInv /\ AgeInv /\ GoneInv

LEMMA InitInv == Init => Inv
  BY Products, TimeAssumption DEF Init, Inv, TypeOK, FlightInv, FreshInv, AgeInv, GoneInv, Rest

\* One more loss is one more interval.
LEMMA OneMoreLoss ==
  ASSUME NEW l \in Nat
  PROVE  (l + 1) * Period = l * Period + Period /\ l * Period \in Nat
<1>1. \A a, b \in Nat : (a + 1) * b = a * b + b /\ a * b \in Nat
  OBVIOUS
<1>2. QED
  BY <1>1, Products

LEMMA StepInv == Inv /\ [Next]_vars => Inv'
<1> SUFFICES ASSUME Inv, [Next]_vars PROVE Inv'
  OBVIOUS
<1> USE Products, TimeAssumption DEF Inv, TypeOK, FlightInv, FreshInv, AgeInv, GoneInv, Rest
<1>1. ASSUME NEW i \in Id, Start(i) PROVE Inv'
  BY <1>1 DEF Start
<1>2. ASSUME NEW i \in Id, Send(i) PROVE Inv'
  BY <1>2 DEF Send
<1>3. ASSUME NEW i \in Id, Fail(i) PROVE Inv'
  <2>1. (lost[i] + 1) * Period = lost[i] * Period + Period /\ lost[i] * Period \in Nat
    BY OneMoreLoss
  <2>2. TypeOK'
    BY <1>3 DEF Fail
  <2>3. FlightInv' /\ AgeInv' /\ GoneInv'
    BY <1>3 DEF Fail
  <2>4. FreshInv'
    BY <1>3, <2>1 DEF Fail
  <2>5. QED
    BY <2>2, <2>3, <2>4
<1>4. ASSUME NEW i \in Id, End(i) PROVE Inv'
  BY <1>4 DEF End
<1>5. ASSUME NEW i \in Id, Handle(i) PROVE Inv'
  BY <1>5 DEF Handle
<1>6. CASE Sweep
  BY <1>6, FreshAge DEF Sweep, IsStale
<1>7. CASE Pass
  <2>1. slow' \in [Id -> BOOLEAN] /\ \A i \in Id : slow'[i] <=> (slow[i] \/ flight[i] >= Prompt)
    BY <1>7, Zenon DEF Pass
  <2>2. \A i \in Id : /\ proc'[i] = proc[i] /\ lost'[i] = lost[i]
                      /\ beat'[i] = IF proc[i] = "up" /\ beat[i] > -Behind THEN beat[i] - 1 ELSE beat[i]
                      /\ flight'[i] = IF flight[i] >= 0 THEN flight[i] + 1 ELSE -1
                      /\ age'[i] = IF i \in listed THEN age[i] + 1 ELSE age[i]
                      /\ (proc[i] = "up" /\ flight[i] = -1) => beat[i] > 0
                      /\ flight[i] < MaxDelay
    BY <1>7 DEF Pass
  <2>3. TypeOK'
    BY <1>7, <2>1 DEF Pass
  <2>4. FlightInv'
    <3> SUFFICES ASSUME NEW i \in Id
                 PROVE  /\ proc'[i] = "new" => flight'[i] = -1 /\ i \notin listed /\ beat'[i] = 0
                        /\ (proc'[i] = "up" /\ flight'[i] \in 0 .. Period)
                             => beat'[i] <= Period - flight'[i]
                        /\ flight'[i] > Prompt => slow'[i]
      BY <1>7 DEF Pass
    <3>1. /\ beat[i] \in Int /\ flight[i] \in Int /\ Behind \in Nat
      OBVIOUS
    <3>2. (proc[i] = "up" /\ flight[i] \in 0 .. Period) => beat[i] <= Period - flight[i]
      OBVIOUS
    <3>3. (proc'[i] = "up" /\ flight'[i] \in 0 .. Period) => beat'[i] <= Period - flight'[i]
      BY <2>2, <3>1, <3>2
    <3>4. flight'[i] > Prompt => slow'[i]
      BY <2>1, <2>2, <3>1
    <3>5. proc'[i] = "new" => flight'[i] = -1 /\ i \notin listed /\ beat'[i] = 0
      BY <2>2
    <3> QED BY <3>3, <3>4, <3>5
  <2>5. FreshInv'
    <3> SUFFICES ASSUME Prompt <= Period, NEW i \in listed, proc'[i] = "up", ~slow'[i],
                        lost'[i] <= MaxLost
                 PROVE  age'[i] <= lost'[i] * Period + Rest(i)'
      BY <1>7 DEF Pass
    <3>1. i \in Id /\ ~slow[i] /\ lost[i] * Period \in Nat /\ age[i] \in Nat
          /\ beat[i] \in Int /\ flight[i] \in Int
      BY <2>1, OneMoreLoss
    <3>2. age[i] <= lost[i] * Period + Rest(i)
      BY <2>2, <3>1
    <3> DEFINE x == lost[i] * Period
    <3>3. x \in Nat /\ age[i] <= x + Rest(i) /\ x = lost'[i] * Period
      BY <2>2, <3>1, <3>2
    <3> HIDE DEF x
    <3>4. age'[i] <= x + Rest(i)'
      BY <2>2, <3>1, <3>3
    <3> QED BY <3>3, <3>4
  <2>6. AgeInv' /\ GoneInv'
    BY <1>7 DEF Pass
  <2> QED BY <2>3, <2>4, <2>5, <2>6
<1>8. CASE UNCHANGED vars
  BY <1>8 DEF vars
<1>9. QED
  BY <1>1, <1>2, <1>3, <1>4, <1>5, <1>6, <1>7, <1>8 DEF Next

LEMMA Invariance == Spec => []Inv
<1>1. QED
  BY InitInv, StepInv, PTL DEF Spec

\* The types of the timers: no interval is overrun, no delay exceeded.
THEOREM EvictionTypeCorrect == Spec => []TypeOK
<1>1. Inv => TypeOK
  BY DEF Inv
<1>2. QED
  BY <1>1, Invariance, PTL

\* An ended process is off the list after a delay, the timeout and a round of the timer.
THEOREM DeadAreDropped == Spec => []DeadLeaves
<1>1. Inv => DeadLeaves
  <2> SUFFICES ASSUME Inv, NEW i \in listed
               PROVE  gone[i] < MaxDelay + (Timeout + 1) * Res + Pause
    BY DEF DeadLeaves
  <2> DEFINE t == (Timeout + 1) * Res
  <2>1. /\ i \in Id /\ age[i] \in Nat /\ gone[i] \in Nat /\ sweep \in Nat
        /\ t \in Nat /\ Pause \in Nat /\ MaxDelay \in Nat
    BY Products, TimeAssumption DEF Inv, TypeOK
  <2>2. age[i] + sweep < t + Pause
    BY DEF Inv, AgeInv
  <2>3. gone[i] <= MaxDelay + age[i]
    BY <2>1 DEF Inv, GoneInv
  <2> HIDE DEF t
  <2>4. gone[i] < MaxDelay + t + Pause
    BY <2>1, <2>2, <2>3
  <2>5. QED
    BY <2>4 DEF t
<1>2. QED
  BY <1>1, Invariance, PTL

\* Whoever is evicted alive has failed too often, or hung.
THEOREM LiveAreKept == Spec => LiveStays
<1>1. Inv /\ [Next]_vars =>
        (Reaches => \A i \in listed \ listed' : proc[i] = "up" => slow[i] \/ lost[i] > MaxLost)
  <2> SUFFICES ASSUME Inv, [Next]_vars, Reaches, NEW i \in listed, proc[i] = "up",
                      ~slow[i], ~(lost[i] > MaxLost)
               PROVE  i \in listed'
    OBVIOUS
  <2>1. CASE Sweep
    <3>1. /\ age[i] \in Nat /\ lost[i] \in 0 .. MaxLost /\ flight[i] \in -1 .. MaxDelay
          /\ beat[i] \in Int /\ i \in Id
      BY TimeAssumption DEF Inv, TypeOK
    <3>2. lost[i] * Period <= MaxLost * Period /\ lost[i] * Period \in Nat
      <4>1. \A x, y, d \in Nat : x <= y => x * d <= y * d /\ x * d \in Nat
        OBVIOUS
      <4>2. QED
        BY <3>1, <4>1, Products, TimeAssumption
    <3>3. age[i] <= lost[i] * Period + Rest(i) /\ flight[i] <= Prompt
      BY <3>1, TimeAssumption DEF Inv, FreshInv, FlightInv, Reaches
    <3> DEFINE x == lost[i] * Period
               y == MaxLost * Period
               t == (Timeout + 1) * Res
    <3>4. x \in Nat /\ y \in Nat /\ t \in Nat /\ y + Period + Prompt < t /\ x <= y
      BY <3>2, Products DEF Reaches
    <3> HIDE DEF x, y, t
    <3>5. age[i] < t
      BY <3>1, <3>3, <3>4, Products, TimeAssumption DEF x, Rest
    <3>6. ~IsStale(i)
      <4>1. age[i] \div Res > Timeout <=> age[i] >= t
        BY <3>1, FreshAge DEF t
      <4>2. ~(age[i] >= t)
        BY <3>1, <3>4, <3>5
      <4>3. QED
        BY <4>1, <4>2 DEF IsStale
    <3>7. QED
      BY <2>1, <3>6 DEF Sweep
  <2>2. CASE ~Sweep
    BY <2>2 DEF Next, Start, Send, Fail, End, Handle, Pass, vars
  <2>3. QED
    BY <2>1, <2>2
<1>2. QED
  BY <1>1, Invariance, PTL DEF Spec, LiveStays
=============================================================================
