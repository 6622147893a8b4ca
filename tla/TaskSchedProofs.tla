--------------------------- MODULE TaskSchedProofs --------------------------
(***************************************************************************)
(* The scheduler, for all tasks, priorities, event lists, delays and calls.*)
(* First the time arithmetic of tasks.c; then lemmas about the operators of*)
(* TaskSched: what they make of the members of the lists, and which        *)
(* conditions on the kernel's globals the C functions keep.  From the      *)
(* inductive invariant on, the proofs only use which task is in which list.*)
(* IInv is that invariant: the place of every task, the choice of the      *)
(* running one and the times of the delayed ones depend on each other, so  *)
(* that none of them is inductive alone.                                   *)
(* Then the same step of the scheduler while some tasks are in a call of   *)
(* RtosQueue and wait for its events, and who wakes how late.              *)
(***************************************************************************)
EXTENDS TaskSched, DataLemmas, SequencesExt

-----------------------------------------------------------------------------
(* Time: below, time that does not wrap is written as a number of ticks    *)
(* and compared with what the code computes.                               *)

\* Sums and differences are those of time, up to the wraps.
LEMMA WrappedSum ==
    \A x, y \in portTickType :
        /\ Plus(x, y) \in portTickType /\ Minus(x, y) \in portTickType
        /\ Plus(x, y) = x + y \/ Plus(x, y) = x + y - TickMod
        /\ Minus(Plus(x, y), x) = y
BY TickModAssumption, SMT DEF Plus, Minus, portTickType

\* A task that asks for n ticks goes to the overflow list exactly if the tick
\* count wraps before they have passed: this is why exchanging the lists at
\* the wrap is right.
THEOREM OverflowListIsExact ==
    \A now, n \in portTickType : WakeOverflowed(Plus(now, n), now) <=> now + n >= TickMod
BY TickModAssumption, SMT DEF WakeOverflowed, Plus, portTickType

\* vTaskDelayUntil of a task that is late by less than one round of the tick
\* count delays the task exactly if its next period is still to begin.
THEOREM DelayUntilIsExact ==
    \A previous, increment, late \in portTickType :
        xShouldDelay(previous, increment, Plus(previous, late)) <=> late < increment
BY TickModAssumption, SMT DEF xShouldDelay, Plus, portTickType

\* However late the task is, it sleeps for at least one tick and at most for
\* the period.
THEOREM DelayUntilNeverLong ==
    \A previous, increment, now \in portTickType :
        xShouldDelay(previous, increment, now) =>
            Minus(Plus(previous, increment), now) \in 1..increment
BY TickModAssumption, SMT DEF xShouldDelay, Plus, Minus, portTickType

-----------------------------------------------------------------------------
(* A call noted its time out state at tick entered; now it is tick now, and *)
(* rounds wraps of the count lie between them.                              *)

Elapsed(entered, now, rounds) == rounds * TickMod + now - entered

\* A round has at least as many ticks as portTickType has values.
LEMMA RoundIsLong == \A rounds \in Nat \ {0} : rounds * TickMod >= TickMod
BY TickModAssumption, SMT

\* The elapsed time, by the number of wraps.
LEMMA ElapsedInOneRound ==
    ASSUME NEW entered \in portTickType, NEW now \in portTickType, NEW rounds \in Nat
    PROVE  /\ Elapsed(entered, now, rounds) \in Int
           /\ rounds = 0 => Elapsed(entered, now, rounds) = now - entered
           /\ rounds = 1 => Elapsed(entered, now, rounds) = TickMod + now - entered
           /\ rounds # 0 => Elapsed(entered, now, rounds) >= TickMod + now - entered
<1>1. rounds # 0 => rounds * TickMod >= TickMod
    BY RoundIsLong
<1>2. rounds * TickMod \in Int
    BY TickModAssumption
<1> QED BY <1>1, <1>2, TickModAssumption, SMT DEF Elapsed, portTickType

\* xTaskCheckForTimeOut never lets a call give up before its block time: it
\* may see fewer wraps than there were, because xNumOfOverflows wraps as well,
\* but it never sees one that did not happen.
THEOREM NoEarlyTimeOutCheck ==
    ASSUME NEW entered \in portTickType, NEW now \in portTickType, NEW wait \in portTickType,
           NEW rounds \in Nat, Elapsed(entered, now, rounds) >= 0,
           NEW before, NEW after, after # before => rounds # 0,
           TimedOut(after, now, [overflows |-> before, entered |-> entered], wait)
    PROVE  Elapsed(entered, now, rounds) >= wait
<1> DEFINE e == Elapsed(entered, now, rounds)
<1>1. /\ e \in Int
      /\ rounds = 0 => e = now - entered
      /\ rounds # 0 => e >= TickMod + now - entered
    BY ElapsedInOneRound
<1>2. e >= 0
    OBVIOUS
<1>3. \/ rounds # 0 /\ now >= entered
      \/ Minus(now, entered) >= wait
    BY DEF TimedOut
<1> HIDE DEF e
<1>4. e >= wait
    BY <1>1, <1>2, <1>3, TickModAssumption, SMT DEF Minus, portTickType
<1> QED BY <1>4 DEF e

\* The check is exact while less than one round of the tick count has passed
\* since the call last looked.
THEOREM TimeOutCheckIsExact ==
    ASSUME NEW entered \in portTickType, NEW now \in portTickType,
           NEW wait \in portTickType \ {portMAX_DELAY},
           NEW rounds \in {0, 1}, Elapsed(entered, now, rounds) \in 0..TickMod-1,
           NEW before, NEW after, after # before <=> rounds # 0
    PROVE  TimedOut(after, now, [overflows |-> before, entered |-> entered], wait)
              <=> Elapsed(entered, now, rounds) >= wait
<1> DEFINE e == Elapsed(entered, now, rounds)
<1>1. /\ rounds = 0 => e = now - entered
      /\ rounds = 1 => e = TickMod + now - entered
    BY ElapsedInOneRound
<1>2. e \in 0..TickMod-1
    OBVIOUS
<1>3. TimedOut(after, now, [overflows |-> before, entered |-> entered], wait)
         <=> (rounds # 0 /\ now >= entered) \/ Minus(now, entered) >= wait
    BY DEF TimedOut
<1> HIDE DEF e
<1>4. Minus(now, entered) = e /\ ~(rounds # 0 /\ now >= entered)
    BY <1>1, <1>2, TickModAssumption, SMT DEF Minus, portTickType
<1> QED BY <1>3, <1>4 DEF e

-----------------------------------------------------------------------------
(* Lists.                                                                  *)

\* Whatever is earlier in s is in the relation R to whatever is later.
Ordered(s, R) == \A i, j \in DOMAIN s : i < j => <<s[i], s[j]>> \in R

\* Select keeps the members of s that are in S, in their order, in a list
\* without new ones and without new repetitions.
LEMMA SelectFacts ==
  ASSUME NEW T, NEW s \in Seq(T), NEW S
  PROVE  /\ Select(s, S) \in Seq(T)
         /\ ToSet(Select(s, S)) = ToSet(s) \cap S
         /\ NoDup(s) => NoDup(Select(s, S))
         /\ \A R : Ordered(s, R) => Ordered(Select(s, S), R)
<1> DEFINE chosen[n \in 0..Len(s)] ==
              IF n = 0 THEN <<>>
              ELSE IF s[n] \in S THEN Append(chosen[n-1], s[n]) ELSE chosen[n-1]
           m == Len(s)
           X == Seq(T)
           step(n, r) == IF s[n] \in S THEN Append(r, s[n]) ELSE r
           G == [n \in 1..m |-> [r \in X |-> step(n, r)]]
<1>0. m \in Nat /\ DOMAIN s = 1..m /\ \A n \in 1..m : s[n] \in T
  OBVIOUS
<1>1. Select(s, S) = chosen[m]
  BY DEF Select
<1>2. \E f : f = [n \in 0..Len(s) |-> IF n = 0 THEN <<>> ELSE IF s[n] \in S THEN Append(f[n-1], s[n]) ELSE f[n-1]]
  <2>1. <<>> \in X
    OBVIOUS
  <2>2. G \in [1..m -> [X -> X]]
    BY <1>0
  <2>3. \A n \in 1..m, r \in X : G[n][r] = step(n, r)
    OBVIOUS
  <2> HIDE DEF G, X, chosen, m
  <2>4. \E f \in [0..m -> X] : f[0] = <<>> /\ \A n \in 1..m : f[n] = G[n][f[n-1]]
    <3>1. \A n \in Nat : \A H \in [1..n -> [X -> X]] : \A y \in X :
             \E h \in [0..n -> X] : h[0] = y /\ \A i \in 1..n : h[i] = H[i][h[i-1]]
      BY Recursion
    <3>2. m \in Nat
      BY <1>0
    <3>3. QED
      BY <2>1, <2>2, <3>1, <3>2, Zenon
  <2>5. PICK f \in [0..m -> X] : f[0] = <<>> /\ \A n \in 1..m : f[n] = G[n][f[n-1]]
    BY <2>4, Zenon
  <2>6. \A n \in 1..m : f[n] = step(n, f[n-1])
    BY <2>3, <2>5, <1>0
  <2>7. ASSUME NEW n \in 0..m
        PROVE  f[n] = IF n = 0 THEN <<>> ELSE IF s[n] \in S THEN Append(f[n-1], s[n]) ELSE f[n-1]
    <3>1. n = 0 \/ n \in 1..m
      BY <1>0
    <3>2. QED
      BY <2>5, <2>6, <3>1, Zenon
  <2>8. f = [n \in 0..m |-> IF n = 0 THEN <<>> ELSE IF s[n] \in S THEN Append(f[n-1], s[n]) ELSE f[n-1]]
    BY <2>5, <2>7
  <2>9. QED
    BY <2>8, Zenon DEF m
<1>3. chosen = [n \in 0..Len(s) |-> IF n = 0 THEN <<>> ELSE IF s[n] \in S THEN Append(chosen[n-1], s[n]) ELSE chosen[n-1]]
  BY <1>2, Zenon
<1> HIDE DEF chosen, G
<1>4. chosen[0] = <<>> /\ \A n \in 1..m : chosen[n] = step(n, chosen[n-1])
  <2>1. 0 \in 0..m /\ \A n \in 1..m : n \in 0..m /\ n # 0
    BY <1>0
  <2>2. QED
    BY <1>3, <2>1, Zenon
<1> DEFINE I(n) == /\ chosen[n] \in Seq(T)
                   /\ \A i \in DOMAIN chosen[n] : \E j \in 1..n : chosen[n][i] = s[j] /\ s[j] \in S
                   /\ \A j \in 1..n : s[j] \in S => \E i \in DOMAIN chosen[n] : chosen[n][i] = s[j]
                   /\ NoDup(s) => NoDup(chosen[n])
                   /\ \A R : Ordered(s, R) => Ordered(chosen[n], R)
           P == {n \in 0..m : I(n)}
<1>5. 0 \in P
  <2>1. chosen[0] = <<>> /\ 0 \in 0..m
    BY <1>0, <1>4
  <2>2. I(0)
    BY <2>1 DEF NoDup, Ordered
  <2> HIDE DEF I, m
  <2>3. QED
    BY <2>1, <2>2
<1>6. ASSUME NEW n \in 1..m, n - 1 \in P PROVE n \in P
  <2> DEFINE r == chosen[n-1]
  <2>1. I(n-1) /\ n \in Nat /\ n - 1 \in Nat /\ n \in 0..m
    BY <1>0, <1>6
  <2> HIDE DEF P, m
  <2>2. CASE s[n] \notin S
    <3>1. chosen[n] = r
      BY <1>4, <2>2
    <3>2. I(n)
      BY <2>1, <2>2, <3>1
    <3>3. QED
      BY <3>2, <2>1 DEF P
  <2>3. CASE s[n] \in S
    <3>1. s[n] \in T /\ chosen[n] = Append(r, s[n])
      BY <1>0, <1>4, <2>3, Zenon
    <3>2. /\ chosen[n] \in Seq(T) /\ DOMAIN chosen[n] = 1..Len(r)+1 /\ DOMAIN r = 1..Len(r) /\ Len(r) \in Nat
          /\ chosen[n][Len(r)+1] = s[n] /\ \A i \in 1..Len(r) : chosen[n][i] = r[i]
      BY <2>1, <3>1
    <3>3. \A i \in DOMAIN chosen[n] : \E j \in 1..n : chosen[n][i] = s[j] /\ s[j] \in S
      <4> SUFFICES ASSUME NEW i \in 1..Len(r)+1 PROVE \E j \in 1..n : chosen[n][i] = s[j] /\ s[j] \in S
        BY <3>2, Zenon
      <4>1. CASE i = Len(r) + 1
        BY <4>1, <3>2, <2>1, <2>3
      <4>2. CASE i # Len(r) + 1
        <5>1. i \in DOMAIN r /\ chosen[n][i] = r[i]
          BY <4>2, <3>2
        <5>2. PICK j \in 1..n-1 : r[i] = s[j] /\ s[j] \in S
          BY <5>1, <2>1
        <5>3. QED
          BY <5>1, <5>2, <2>1
      <4>3. QED
        BY <4>1, <4>2
    <3>4. \A j \in 1..n : s[j] \in S => \E i \in DOMAIN chosen[n] : chosen[n][i] = s[j]
      <4> SUFFICES ASSUME NEW j \in 1..n, s[j] \in S PROVE \E i \in 1..Len(r)+1 : chosen[n][i] = s[j]
        BY <3>2, Zenon
      <4>1. CASE j = n
        BY <4>1, <3>2
      <4>2. CASE j # n
        <5>1. j \in 1..n-1
          BY <4>2, <2>1
        <5>2. PICK i \in DOMAIN r : r[i] = s[j]
          BY <5>1, <2>1
        <5>3. QED
          BY <5>2, <3>2
      <4>3. QED
        BY <4>1, <4>2
    <3>5. ASSUME NoDup(s) PROVE NoDup(chosen[n])
      <4>1. ASSUME NEW i \in 1..Len(r) PROVE r[i] # s[n]
        <5>1. PICK j \in 1..n-1 : r[i] = s[j]
          BY <2>1, <3>2, Zenon
        <5>2. j \in DOMAIN s /\ n \in DOMAIN s /\ j # n
          BY <1>0, <2>1
        <5>3. QED
          BY <3>5, <5>1, <5>2 DEF NoDup
      <4>2. NoDup(r)
        BY <2>1, <3>5
      <4>3. ASSUME NEW i \in DOMAIN chosen[n], NEW j \in DOMAIN chosen[n], chosen[n][i] = chosen[n][j]
            PROVE  i = j
        <5>1. i \in 1..Len(r)+1 /\ j \in 1..Len(r)+1
          BY <3>2
        <5>2. i \in 1..Len(r) \/ i = Len(r) + 1
          BY <3>2, <5>1
        <5>3. j \in 1..Len(r) \/ j = Len(r) + 1
          BY <3>2, <5>1
        <5>4. QED
          BY <3>2, <4>1, <4>2, <4>3, <5>2, <5>3, Zenon DEF NoDup
      <4>4. QED
        BY <4>3 DEF NoDup
    <3>6. ASSUME NEW R, Ordered(s, R) PROVE Ordered(chosen[n], R)
      <4>1. ASSUME NEW i \in 1..Len(r) PROVE <<r[i], s[n]>> \in R
        <5>1. PICK j \in 1..n-1 : r[i] = s[j]
          BY <2>1, <3>2, Zenon
        <5>2. j \in DOMAIN s /\ n \in DOMAIN s /\ j < n
          BY <1>0, <2>1
        <5>3. QED
          BY <3>6, <5>1, <5>2 DEF Ordered
      <4>2. Ordered(r, R)
        BY <2>1, <3>6
      <4>3. ASSUME NEW i \in DOMAIN chosen[n], NEW j \in DOMAIN chosen[n], i < j
            PROVE  <<chosen[n][i], chosen[n][j]>> \in R
        <5>1. i \in 1..Len(r) /\ (j \in 1..Len(r) \/ j = Len(r) + 1)
          BY <3>2, <4>3
        <5>2. QED
          BY <3>2, <4>1, <4>2, <4>3, <5>1, Zenon DEF Ordered
      <4>4. QED
        BY <4>3 DEF Ordered
    <3>7. QED
      BY <3>2, <3>3, <3>4, <3>5, <3>6, <2>1, Zenon DEF P
  <2>4. QED
    BY <2>2, <2>3
<1>7. I(m)
  <2> HIDE DEF I, m
  <2>1. m \in P
    <3> HIDE DEF P
    <3>1. m \in 0..m
      BY <1>0
    <3>2. QED
      BY <1>0, <1>5, <1>6, <3>1, UpTo, Zenon
  <2>2. QED
    BY <2>1
<1> DEFINE r == chosen[m]
<1>8. r \in Seq(T) /\ (NoDup(s) => NoDup(r)) /\ \A R : Ordered(s, R) => Ordered(r, R)
  BY <1>7
<1>9. ASSUME NEW x PROVE x \in ToSet(r) <=> x \in ToSet(s) /\ x \in S
  <2>1. ASSUME NEW i \in DOMAIN r, x = r[i] PROVE x \in ToSet(s) /\ x \in S
    BY <1>0, <1>7, <2>1, Zenon DEF ToSet
  <2>2. ASSUME NEW j \in DOMAIN s, x = s[j], x \in S PROVE x \in ToSet(r)
    BY <1>0, <1>7, <2>2 DEF ToSet
  <2>3. QED
    BY <2>1, <2>2 DEF ToSet
<1>10. QED
  BY <1>1, <1>8, <1>9

\* vListRemove of the items in S leaves the other ones.
LEMMA WithoutFacts ==
  ASSUME NEW T, NEW s \in Seq(T), NEW S
  PROVE  /\ Without(s, S) \in Seq(T)
         /\ ToSet(Without(s, S)) = ToSet(s) \ S
         /\ NoDup(s) => NoDup(Without(s, S))
         /\ \A R : Ordered(s, R) => Ordered(Without(s, S), R)
  BY SelectFacts DEF Without

\* vListInsert adds one member wherever its value puts it, and no repetition if
\* it was not there.
LEMMA InsertFacts ==
  ASSUME NEW T, NEW s \in Seq(T), NEW t \in T, NEW value
  PROVE  /\ vListInsert(s, t, value) \in Seq(T)
         /\ ToSet(vListInsert(s, t, value)) = ToSet(s) \cup {t}
         /\ NoDup(s) /\ t \notin ToSet(s) => NoDup(vListInsert(s, t, value))
<1> DEFINE N == {i \in DOMAIN s : \A j \in 1..i : value[s[j]] <= value[t]}
           n == Cardinality(N)
           a == SubSeq(s, 1, n)
           b == SubSeq(s, n + 1, Len(s))
<1>1. n \in 0..Len(s)
  <2>1. Len(s) \in Nat /\ N \subseteq 1..Len(s)
    OBVIOUS
  <2>2. \A m \in Int : IsFiniteSet(1..m) /\ Cardinality(1..m) = IF 1 > m THEN 0 ELSE m-1+1
    BY FS_Interval
  <2> HIDE DEF n, N
  <2>3. IsFiniteSet(1..Len(s)) /\ Cardinality(1..Len(s)) = Len(s)
    BY <2>1, <2>2
  <2>4. IsFiniteSet(N) /\ Cardinality(N) <= Cardinality(1..Len(s)) /\ Cardinality(N) \in Nat
    BY <2>1, <2>3, FS_Subset, FS_CardinalityType, Zenon
  <2>5. QED
    BY <2>1, <2>3, <2>4 DEF n
<1>2. vListInsert(s, t, value) = a \o <<t>> \o b
  BY DEF vListInsert
<1> HIDE DEF n
<1>3. /\ a \in Seq(T) /\ b \in Seq(T) /\ ToSet(a) \cup ToSet(b) = ToSet(s)
      /\ NoDup(s) => NoDup(a) /\ NoDup(b) /\ ToSet(a) \cap ToSet(b) = {}
  BY <1>1, SplitFacts
<1> DEFINE u == <<t>>
           c == a \o u
<1>4. u \in Seq(T) /\ ToSet(u) = {t} /\ NoDup(u)
  BY DEF ToSet, NoDup
<1>5. vListInsert(s, t, value) = c \o b
  BY <1>2
<1> HIDE DEF a, b, u
<1>6. /\ c \in Seq(T) /\ ToSet(c) = ToSet(a) \cup {t}
      /\ NoDup(a) /\ t \notin ToSet(a) => NoDup(c)
  BY <1>3, <1>4, ConcatFacts
<1> HIDE DEF c
<1>7. /\ c \o b \in Seq(T)
      /\ ToSet(c \o b) = ToSet(c) \cup ToSet(b)
      /\ NoDup(c) /\ NoDup(b) /\ ToSet(c) \cap ToSet(b) = {} => NoDup(c \o b)
  BY <1>3, <1>6, ConcatFacts
<1>8. QED
  BY <1>3, <1>5, <1>6, <1>7

-----------------------------------------------------------------------------
(* The place of each task.                                                 *)

\* In a ready list.
IsReady(j, t) == \E p \in Priority : t \in ToSet(j.ready[p])

\* The generic item of task t is in one list, or t is free.
OnePlace(j, t) ==
    /\ \/ IsReady(j, t) \/ t \in ToSet(j.delayed) \/ t \in ToSet(j.overflowed)
       \/ t \in ToSet(j.terminating) \/ t \in j.suspended \/ t \in j.free
    /\ IsReady(j, t) => t \notin ToSet(j.delayed) \cup ToSet(j.overflowed)
                                 \cup ToSet(j.terminating) \cup j.suspended \cup j.free
    /\ t \in ToSet(j.delayed) => t \notin ToSet(j.overflowed) \cup ToSet(j.terminating) \cup j.suspended \cup j.free
    /\ t \in ToSet(j.overflowed) => t \notin ToSet(j.terminating) \cup j.suspended \cup j.free
    /\ t \in ToSet(j.terminating) => t \notin j.suspended \cup j.free
    /\ t \in j.suspended => t \notin j.free

\* No list of the kernel holds a task twice.
NoDups(j) ==
    /\ \A p \in Priority : NoDup(j.ready[p])
    /\ NoDup(j.delayed) /\ NoDup(j.overflowed) /\ NoDup(j.terminating) /\ NoDup(j.pending)

\* Each task outside S is in one place, a ready one in the list of its priority.
Placed(j, S) ==
    /\ NoDups(j)
    /\ \A t \in Task \ S : OnePlace(j, t) /\ \A p \in Priority : t \in ToSet(j.ready[p]) => j.prio[t] = p

\* What vListRemove of the generic items leaves in each global.
LEMMA RemoveGenericFields ==
  ASSUME NEW j \in Kernel, NEW S
  PROVE  LET r == RemoveGeneric(j, S)
         IN /\ r.ready = [p \in Priority |-> Without(j.ready[p], S)]
            /\ r.delayed = Without(j.delayed, S)
            /\ r.overflowed = Without(j.overflowed, S)
            /\ r.terminating = Without(j.terminating, S)
            /\ r.suspended = j.suspended \ S
            /\ r.wake = [t \in Task |-> IF t \in S THEN 0 ELSE j.wake[t]]
            /\ r.current = j.current /\ r.prio = j.prio /\ r.base = j.base /\ r.item = j.item
            /\ r.pending = j.pending /\ r.deleted = j.deleted /\ r.free = j.free /\ r.event = j.event
            /\ r.tick = j.tick /\ r.overflows = j.overflows /\ r.missed = j.missed
            /\ r.missedYield = j.missedYield /\ r.susp = j.susp /\ r.top = j.top
  BY DEF RemoveGeneric, RemoveReady, Kernel

\* vListRemove of the generic items keeps the types of the globals.
LEMMA RemoveGenericType ==
  ASSUME NEW j \in Kernel, NEW S
  PROVE  RemoveGeneric(j, S) \in Kernel
<1> USE TickModAssumption
<1>1. /\ \A p \in Priority : Without(j.ready[p], S) \in Seq(Task)
      /\ Without(j.delayed, S) \in Seq(Task) /\ Without(j.overflowed, S) \in Seq(Task)
      /\ Without(j.terminating, S) \in Seq(Task)
  BY WithoutFacts, Zenon DEF Kernel
<1>2. \A t \in Task : j.wake[t] \in portTickType
  BY DEF Kernel
<1>3. 0 \in portTickType
  BY DEF portTickType
<1>4. QED
  BY <1>1, <1>2, <1>3, Zenon DEF RemoveGeneric, RemoveReady, Kernel

\* Without the tasks in S every list is what it was, and the other tasks are
\* where they were.
LEMMA RemoveGenericFacts ==
  ASSUME NEW j \in Kernel, NEW S, Placed(j, S)
  PROVE  LET g == RemoveGeneric(j, S)
         IN /\ g \in Kernel /\ Placed(g, S)
            /\ \A p \in Priority : ToSet(g.ready[p]) = ToSet(j.ready[p]) \ S
            /\ ToSet(g.delayed) = ToSet(j.delayed) \ S
            /\ ToSet(g.overflowed) = ToSet(j.overflowed) \ S
            /\ ToSet(g.terminating) = ToSet(j.terminating) \ S
            /\ g.suspended = j.suspended \ S
<1> DEFINE g == RemoveGeneric(j, S)
<1>1. g \in Kernel
  BY RemoveGenericType
<1>2. /\ g.ready = [p \in Priority |-> Without(j.ready[p], S)]
      /\ g.delayed = Without(j.delayed, S)
      /\ g.overflowed = Without(j.overflowed, S)
      /\ g.terminating = Without(j.terminating, S)
      /\ g.suspended = j.suspended \ S
      /\ g.wake = [t \in Task |-> IF t \in S THEN 0 ELSE j.wake[t]]
      /\ g.current = j.current /\ g.prio = j.prio /\ g.base = j.base /\ g.item = j.item
      /\ g.pending = j.pending /\ g.deleted = j.deleted /\ g.free = j.free /\ g.event = j.event
      /\ g.tick = j.tick /\ g.overflows = j.overflows /\ g.missed = j.missed
      /\ g.missedYield = j.missedYield /\ g.susp = j.susp /\ g.top = j.top
  BY RemoveGenericFields
<1> HIDE DEF g
<1>3. /\ \A p \in Priority : j.ready[p] \in Seq(Task)
      /\ j.delayed \in Seq(Task) /\ j.overflowed \in Seq(Task) /\ j.terminating \in Seq(Task)
  BY DEF Kernel
<1>4. /\ \A p \in Priority : ToSet(g.ready[p]) = ToSet(j.ready[p]) \ S
      /\ ToSet(g.delayed) = ToSet(j.delayed) \ S
      /\ ToSet(g.overflowed) = ToSet(j.overflowed) \ S
      /\ ToSet(g.terminating) = ToSet(j.terminating) \ S
  BY <1>2, <1>3, WithoutFacts
<1>5. NoDups(g)
  BY <1>2, <1>3, WithoutFacts DEF Placed, NoDups
<1>6. \A t : IsReady(g, t) <=> IsReady(j, t) /\ t \notin S
  BY <1>4 DEF IsReady
<1>7. ASSUME NEW t \in Task \ S
      PROVE  OnePlace(g, t) /\ \A p \in Priority : t \in ToSet(g.ready[p]) => g.prio[t] = p
  <2>1. OnePlace(j, t) /\ \A p \in Priority : t \in ToSet(j.ready[p]) => j.prio[t] = p
    BY DEF Placed
  <2>2. OnePlace(g, t)
    BY <1>2, <1>4, <1>6, <2>1 DEF OnePlace
  <2>3. QED
    BY <1>2, <1>4, <2>1, <2>2
<1>8. QED
  BY <1>1, <1>2, <1>4, <1>5, <1>7 DEF Placed, g

\* vListRemove of the event items touches the event lists and
\* xPendingReadyList alone.
LEMMA RemoveEventFields ==
  ASSUME NEW j \in Kernel, NEW S
  PROVE  LET r == RemoveEvent(j, S)
         IN /\ r \in Kernel
            /\ r.pending = Without(j.pending, S)
            /\ r.event = [l \in EventList |-> Without(j.event[l], S)]
            /\ r.current = j.current /\ r.prio = j.prio /\ r.base = j.base /\ r.item = j.item
            /\ r.ready = j.ready /\ r.delayed = j.delayed /\ r.overflowed = j.overflowed
            /\ r.suspended = j.suspended /\ r.terminating = j.terminating
            /\ r.deleted = j.deleted /\ r.free = j.free /\ r.wake = j.wake
            /\ r.tick = j.tick /\ r.overflows = j.overflows /\ r.missed = j.missed
            /\ r.missedYield = j.missedYield /\ r.susp = j.susp /\ r.top = j.top
<1>1. /\ \A l \in EventList : Without(j.event[l], S) \in Seq(Task)
      /\ Without(j.pending, S) \in Seq(Task)
  BY WithoutFacts, Zenon DEF Kernel
<1>2. QED
  BY <1>1, Zenon DEF RemoveEvent, RemovePending, Kernel

\* The event items do not decide where a task is.
LEMMA RemoveEventFacts ==
  ASSUME NEW j \in Kernel, NEW S, NEW D, Placed(j, D)
  PROVE  /\ RemoveEvent(j, S) \in Kernel /\ Placed(RemoveEvent(j, S), D)
         /\ ToSet(RemoveEvent(j, S).pending) = ToSet(j.pending) \ S
<1> DEFINE r == RemoveEvent(j, S)
<1>1. /\ r \in Kernel /\ r.pending = Without(j.pending, S)
      /\ r.ready = j.ready /\ r.delayed = j.delayed /\ r.overflowed = j.overflowed
      /\ r.suspended = j.suspended /\ r.terminating = j.terminating /\ r.free = j.free /\ r.prio = j.prio
  BY ZenonT(60), RemoveEventFields
<1> HIDE DEF r
<1>2. j.pending \in Seq(Task)
  BY DEF Kernel
<1>3. ToSet(r.pending) = ToSet(j.pending) \ S /\ (NoDup(j.pending) => NoDup(r.pending))
  BY <1>1, <1>2, WithoutFacts
<1>4. Placed(r, D)
  BY <1>1, <1>3 DEF Placed, NoDups, OnePlace, IsReady
<1>5. QED
  BY <1>1, <1>3, <1>4 DEF r

\* The greatest priority of a set of priorities that is not empty, as the search
\* from uxTopReadyPriority downwards finds it.
LEMMA Greatest ==
  ASSUME NEW n \in Nat, NEW P \in SUBSET (0..n), P # {}
  PROVE  LET top == CHOOSE p \in P : \A q \in P : q <= p
         IN top \in P /\ \A q \in P : q <= top
<1> DEFINE D == {n - p : p \in P}
<1>1. D \in SUBSET Nat /\ D # {}
  <2>1. \A p \in P : p \in 0..n
    OBVIOUS
  <2>2. \A p \in P : n - p \in Nat
    BY <2>1
  <2>3. QED
    BY <2>2, Zenon
<1>2. PICK d \in D : \A e \in D : d <= e
  <2> HIDE DEF D
  <2>1. QED
    BY <1>1, Least
<1>3. PICK p \in P : d = n - p
  OBVIOUS
<1>4. \A q \in P : q <= p
  BY <1>2, <1>3
<1>5. QED
  BY <1>4, Zenon

\* uxTopReadyPriority is not below a ready list that has a task.
TopCovers(j) == \A p \in Priority : j.ready[p] # <<>> => p <= j.top

\* What prvAddTaskToReadyQueue of the tasks of s makes of each global.
LEMMA MakeReadyFields ==
  ASSUME NEW j \in Kernel, NEW s \in Seq(Task)
  PROVE  LET r == MakeReady(j, s)
         IN /\ r \in Kernel
            /\ r.ready = [p \in Priority |-> Without(j.ready[p], ToSet(s)) \o Select(s, {t \in ToSet(s) : j.prio[t] = p})]
            /\ r.delayed = Without(j.delayed, ToSet(s))
            /\ r.overflowed = Without(j.overflowed, ToSet(s))
            /\ r.terminating = Without(j.terminating, ToSet(s))
            /\ r.pending = Without(j.pending, ToSet(s))
            /\ r.event = [l \in EventList |-> Without(j.event[l], ToSet(s))]
            /\ r.suspended = j.suspended \ ToSet(s)
            /\ r.wake = [t \in Task |-> IF t \in ToSet(s) THEN 0 ELSE j.wake[t]]
            /\ r.current = j.current /\ r.prio = j.prio /\ r.base = j.base /\ r.item = j.item
            /\ r.deleted = j.deleted /\ r.free = j.free
            /\ r.tick = j.tick /\ r.overflows = j.overflows /\ r.missed = j.missed
            /\ r.missedYield = j.missedYield /\ r.susp = j.susp
            /\ r.top \in {j.prio[t] : t \in ToSet(s)} \cup {j.top}
            /\ r.top >= j.top /\ \A t \in ToSet(s) : j.prio[t] <= r.top
<1> DEFINE S == ToSet(s)
           g == RemoveGeneric(j, S)
           u == RemoveEvent(g, S)
           P == {j.prio[t] : t \in S} \cup {j.top}
           top == CHOOSE p \in P : \A q \in P : q <= p
           new == [p \in Priority |-> u.ready[p] \o Select(s, {t \in S : j.prio[t] = p})]
           r == MakeReady(j, s)
<1>1. g \in Kernel
  BY RemoveGenericType
<1>2. u \in Kernel
  <2> HIDE DEF g
  <2>1. QED
    BY <1>1, RemoveEventFields, Zenon
<1>3. r = [u EXCEPT !.ready = new, !.top = top]
  BY DEF MakeReady
<1>4. /\ u.ready = [p \in Priority |-> Without(j.ready[p], S)]
      /\ u.delayed = Without(j.delayed, S)
      /\ u.overflowed = Without(j.overflowed, S)
      /\ u.terminating = Without(j.terminating, S)
      /\ u.pending = Without(j.pending, S)
      /\ u.event = [l \in EventList |-> Without(j.event[l], S)]
      /\ u.suspended = j.suspended \ S
      /\ u.wake = [t \in Task |-> IF t \in S THEN 0 ELSE j.wake[t]]
      /\ u.current = j.current /\ u.prio = j.prio /\ u.base = j.base /\ u.item = j.item
      /\ u.deleted = j.deleted /\ u.free = j.free
      /\ u.tick = j.tick /\ u.overflows = j.overflows /\ u.missed = j.missed
      /\ u.missedYield = j.missedYield /\ u.susp = j.susp /\ u.top = j.top
  <2>1. /\ g.ready = [p \in Priority |-> Without(j.ready[p], S)]
        /\ g.delayed = Without(j.delayed, S)
        /\ g.overflowed = Without(j.overflowed, S)
        /\ g.terminating = Without(j.terminating, S)
        /\ g.suspended = j.suspended \ S
        /\ g.wake = [t \in Task |-> IF t \in S THEN 0 ELSE j.wake[t]]
        /\ g.current = j.current /\ g.prio = j.prio /\ g.base = j.base /\ g.item = j.item
        /\ g.pending = j.pending /\ g.deleted = j.deleted /\ g.free = j.free /\ g.event = j.event
        /\ g.tick = j.tick /\ g.overflows = j.overflows /\ g.missed = j.missed
        /\ g.missedYield = j.missedYield /\ g.susp = j.susp /\ g.top = j.top
    BY RemoveGenericFields
  <2> HIDE DEF g, S
  <2>2. QED
    BY <1>1, <2>1, RemoveEventFields
<1> HIDE DEF r, u, g
<1>5. MaxPriorities - 1 \in Nat /\ Priority = 0..MaxPriorities-1
  BY SchedAssumption DEF Priority
<1>6. P \in SUBSET Priority /\ P # {}
  <2>1. j.top \in Priority /\ \A t \in Task : j.prio[t] \in Priority
    BY DEF Kernel
  <2>2. S \subseteq Task
    BY DEF ToSet
  <2>3. QED
    BY <2>1, <2>2
<1>7. top \in P /\ \A q \in P : q <= top
  <2> HIDE DEF P
  <2>1. QED
    BY <1>5, <1>6, Greatest, Zenon
<1>8. \A p \in Priority : Select(s, {t \in S : j.prio[t] = p}) \in Seq(Task)
  BY SelectFacts
<1>9. new \in [Priority -> Seq(Task)]
  <2> HIDE DEF S
  <2>1. ASSUME NEW p \in Priority PROVE new[p] \in Seq(Task)
    <3>1. u.ready[p] \in Seq(Task)
      BY <1>2 DEF Kernel
    <3>2. QED
      BY <1>8, <3>1
  <2>2. QED
    BY <2>1
<1>10. top \in Priority
  BY <1>6, <1>7, Zenon
<1> HIDE DEF top, new, P, S
<1>11. r \in Kernel
  <2>1. [u EXCEPT !.ready = new] \in Kernel
    BY <1>2, <1>9, Zenon DEF Kernel
  <2>2. r = [[u EXCEPT !.ready = new] EXCEPT !.top = top]
    BY <1>2, <1>3 DEF Kernel
  <2>3. QED
    BY <2>1, <2>2, <1>10, Zenon DEF Kernel
<1>12. /\ r.ready = new /\ r.top = top
       /\ r.delayed = u.delayed /\ r.overflowed = u.overflowed /\ r.terminating = u.terminating
       /\ r.pending = u.pending /\ r.event = u.event /\ r.suspended = u.suspended /\ r.wake = u.wake
       /\ r.current = u.current /\ r.prio = u.prio /\ r.base = u.base /\ r.item = u.item
       /\ r.deleted = u.deleted /\ r.free = u.free
       /\ r.tick = u.tick /\ r.overflows = u.overflows /\ r.missed = u.missed
       /\ r.missedYield = u.missedYield /\ r.susp = u.susp
  BY <1>2, <1>3 DEF Kernel
<1>13. new = [p \in Priority |-> Without(j.ready[p], S) \o Select(s, {t \in S : j.prio[t] = p})]
  BY <1>4 DEF new
<1>14. r.top \in {j.prio[t] : t \in S} \cup {j.top} /\ r.top >= j.top /\ \A t \in S : j.prio[t] <= r.top
  BY <1>5, <1>7, <1>10, <1>12, Zenon DEF P, Kernel
<1>15. QED
  BY <1>4, <1>11, <1>12, <1>13, <1>14 DEF S, r

\* The lists are in order.
Sound(j) == j \in Kernel /\ Placed(j, {}) /\ TopCovers(j)

\* A task that is made ready is in the ready list of its priority and in no
\* other list; the other tasks stay where they are.
LEMMA MakeReadyMembers ==
  ASSUME NEW j \in Kernel, NEW s \in Seq(Task)
  PROVE  LET r == MakeReady(j, s)
             S == ToSet(s)
         IN /\ \A p \in Priority : ToSet(r.ready[p]) = (ToSet(j.ready[p]) \ S) \cup {t \in S : j.prio[t] = p}
            /\ ToSet(r.delayed) = ToSet(j.delayed) \ S
            /\ ToSet(r.overflowed) = ToSet(j.overflowed) \ S
            /\ ToSet(r.terminating) = ToSet(j.terminating) \ S
            /\ ToSet(r.pending) = ToSet(j.pending) \ S
            /\ r.suspended = j.suspended \ S
            /\ NoDups(j) /\ NoDup(s) => NoDups(r)
<1> DEFINE r == MakeReady(j, s)
           S == ToSet(s)
<1>1. /\ r.ready = [p \in Priority |-> Without(j.ready[p], S) \o Select(s, {t \in S : j.prio[t] = p})]
      /\ r.delayed = Without(j.delayed, S)
      /\ r.overflowed = Without(j.overflowed, S)
      /\ r.terminating = Without(j.terminating, S)
      /\ r.pending = Without(j.pending, S)
      /\ r.suspended = j.suspended \ S
  BY MakeReadyFields, Zenon
<1> HIDE DEF r
<1>2. /\ \A p \in Priority : j.ready[p] \in Seq(Task)
      /\ j.delayed \in Seq(Task) /\ j.overflowed \in Seq(Task) /\ j.terminating \in Seq(Task)
      /\ j.pending \in Seq(Task)
  BY DEF Kernel
<1>3. /\ ToSet(r.delayed) = ToSet(j.delayed) \ S /\ (NoDup(j.delayed) => NoDup(r.delayed))
      /\ ToSet(r.overflowed) = ToSet(j.overflowed) \ S /\ (NoDup(j.overflowed) => NoDup(r.overflowed))
      /\ ToSet(r.terminating) = ToSet(j.terminating) \ S /\ (NoDup(j.terminating) => NoDup(r.terminating))
      /\ ToSet(r.pending) = ToSet(j.pending) \ S /\ (NoDup(j.pending) => NoDup(r.pending))
  BY <1>1, <1>2, WithoutFacts
<1>4. ASSUME NEW p \in Priority
      PROVE  /\ ToSet(r.ready[p]) = (ToSet(j.ready[p]) \ S) \cup {t \in S : j.prio[t] = p}
             /\ NoDup(j.ready[p]) /\ NoDup(s) => NoDup(r.ready[p])
  <2> DEFINE a == Without(j.ready[p], S)
             X == {t \in S : j.prio[t] = p}
             b == Select(s, X)
  <2>1. r.ready[p] = a \o b
    BY <1>1
  <2>2. a \in Seq(Task) /\ ToSet(a) = ToSet(j.ready[p]) \ S /\ (NoDup(j.ready[p]) => NoDup(a))
    BY <1>2, WithoutFacts
  <2>3. b \in Seq(Task) /\ ToSet(b) = S \cap X /\ (NoDup(s) => NoDup(b))
    <3> HIDE DEF X
    <3>1. QED
      BY SelectFacts
  <2>4. S \cap X = X /\ X \subseteq S
    OBVIOUS
  <2> HIDE DEF a, b, X, S
  <2>5. ToSet(a \o b) = ToSet(a) \cup ToSet(b)
    BY <2>2, <2>3, ConcatFacts
  <2>6. ToSet(a) \cap ToSet(b) = {}
    BY <2>2, <2>3, <2>4
  <2>7. NoDup(a) /\ NoDup(b) => NoDup(a \o b)
    BY <2>2, <2>3, <2>6, ConcatFacts
  <2>8. QED
    BY <2>1, <2>2, <2>3, <2>4, <2>5, <2>7 DEF X
<1>5. NoDups(j) /\ NoDup(s) => NoDups(r)
  BY <1>3, <1>4 DEF NoDups
<1>6. QED
  BY <1>1, <1>3, <1>4, <1>5 DEF r

\* Made ready, tasks that were in any list or in none are in one list each, and
\* uxTopReadyPriority covers them.
LEMMA MakeReadyFacts ==
  ASSUME NEW j \in Kernel, NEW s \in Seq(Task), NoDup(s), Placed(j, ToSet(s)), TopCovers(j),
         ToSet(s) \cap j.free = {}
  PROVE  Sound(MakeReady(j, s))
<1> DEFINE r == MakeReady(j, s)
           S == ToSet(s)
<1>1. /\ \A p \in Priority : ToSet(r.ready[p]) = (ToSet(j.ready[p]) \ S) \cup {t \in S : j.prio[t] = p}
      /\ ToSet(r.delayed) = ToSet(j.delayed) \ S
      /\ ToSet(r.overflowed) = ToSet(j.overflowed) \ S
      /\ ToSet(r.terminating) = ToSet(j.terminating) \ S
      /\ ToSet(r.pending) = ToSet(j.pending) \ S
      /\ r.suspended = j.suspended \ S
      /\ NoDups(j) /\ NoDup(s) => NoDups(r)
  BY MakeReadyMembers, Zenon
<1>2. /\ r \in Kernel /\ r.prio = j.prio /\ r.free = j.free
      /\ r.top \in {j.prio[t] : t \in S} \cup {j.top}
      /\ r.top >= j.top /\ \A t \in S : j.prio[t] <= r.top
  BY MakeReadyFields, Zenon
<1>3. \A t \in S : t \in Task /\ j.prio[t] \in Priority
  BY DEF Kernel, ToSet
<1> HIDE DEF r, S
<1>4. ASSUME NEW t \in Task
      PROVE  OnePlace(r, t) /\ \A p \in Priority : t \in ToSet(r.ready[p]) => r.prio[t] = p
  <2>1. CASE t \in S
    <3>1. IsReady(r, t)
      BY <1>1, <1>3, <2>1 DEF IsReady
    <3>2. t \notin j.free
      BY <2>1 DEF S
    <3>3. OnePlace(r, t)
      BY <1>1, <1>2, <2>1, <3>1, <3>2 DEF OnePlace
    <3>4. QED
      BY <1>1, <1>2, <2>1, <3>3
  <2>2. CASE t \notin S
    <3>1. OnePlace(j, t) /\ \A p \in Priority : t \in ToSet(j.ready[p]) => j.prio[t] = p
      BY <2>2 DEF Placed, S
    <3>2. IsReady(r, t) <=> IsReady(j, t)
      BY <1>1, <2>2 DEF IsReady
    <3>3. OnePlace(r, t)
      BY <1>1, <1>2, <2>2, <3>1, <3>2 DEF OnePlace
    <3>4. QED
      BY <1>1, <1>2, <2>2, <3>1, <3>3
  <2>3. QED
    BY <2>1, <2>2
<1>5. NoDups(r)
  BY <1>1 DEF Placed
<1>6. TopCovers(r)
  <2> SUFFICES ASSUME NEW p \in Priority, r.ready[p] # <<>> PROVE p <= r.top
    BY DEF TopCovers
  <2>1. r.ready[p] \in Seq(Task) /\ j.ready[p] \in Seq(Task)
    BY <1>2 DEF Kernel
  <2>2. PICK t : t \in ToSet(r.ready[p])
    BY <2>1, NotEmpty
  <2>3. CASE t \in ToSet(j.ready[p])
    <3>1. p <= j.top
      BY <2>1, <2>3, NotEmpty DEF TopCovers
    <3>2. p \in Int /\ j.top \in Int /\ r.top \in Int
      BY <1>2, SchedAssumption DEF Kernel, Priority
    <3>3. QED
      BY <1>2, <3>1, <3>2
  <2>4. CASE t \in S /\ j.prio[t] = p
    BY <1>2, <2>4
  <2>5. QED
    BY <1>1, <2>2, <2>3, <2>4
<1>7. QED
  BY <1>2, <1>4, <1>5, <1>6 DEF Sound, Placed, r

\* vTaskSwitchContext takes a task from the highest ready list that has one, and
\* no list gets other members.
LEMMA SwitchFields ==
  ASSUME NEW j \in Kernel, j.susp = 0, \E p \in Priority : p <= j.top /\ j.ready[p] # <<>>
  PROVE  LET r == vTaskSwitchContext(j)
         IN /\ r \in Kernel
            /\ r = [[[j EXCEPT !.top = r.top] EXCEPT !.current = r.current] EXCEPT !.ready = r.ready]
            /\ r.top <= j.top /\ j.ready[r.top] # <<>>
            /\ \A p \in Priority : p <= j.top /\ j.ready[p] # <<>> => p <= r.top
            /\ r.current \in ToSet(j.ready[r.top])
            /\ \A p \in Priority : ToSet(r.ready[p]) = ToSet(j.ready[p]) /\ (NoDup(j.ready[p]) => NoDup(r.ready[p]))
<1> DEFINE P == {p \in Priority : p <= j.top /\ j.ready[p] # <<>>}
           top == CHOOSE p \in P : \A q \in P : q <= p
           s == j.ready[top]
           turn == listGET_OWNER_OF_NEXT_ENTRY(s)
           r == vTaskSwitchContext(j)
<1>1. r = [j EXCEPT !.top = top, !.current = Last(turn), !.ready[top] = turn]
  BY DEF vTaskSwitchContext
<1>2. MaxPriorities - 1 \in Nat /\ Priority = 0..MaxPriorities-1
  BY SchedAssumption DEF Priority
<1>3. P \in SUBSET Priority /\ P # {}
  OBVIOUS
<1>4. top \in P /\ \A q \in P : q <= top
  <2> HIDE DEF P
  <2>1. QED
    BY <1>2, <1>3, Greatest, Zenon
<1>5. top \in Priority /\ s \in Seq(Task) /\ s # <<>> /\ top <= j.top
  BY <1>4 DEF Kernel
<1> HIDE DEF top
<1>6. turn = Append(Tail(s), Head(s)) /\ Head(s) \in ToSet(s)
  BY <1>5 DEF listGET_OWNER_OF_NEXT_ENTRY, ToSet
<1> HIDE DEF s
<1>7. /\ Tail(s) \in Seq(Task) /\ Head(s) \in Task /\ ToSet(s) = ToSet(Tail(s)) \cup {Head(s)}
      /\ NoDup(s) => NoDup(Tail(s)) /\ Head(s) \notin ToSet(Tail(s))
  <2>1. Head(s) \in Task
    BY <1>5
  <2>2. ToSet(s) # {}
    BY <1>5, NotEmpty
  <2>3. QED
    BY <1>5, <2>1, <2>2, TailFacts
<1>8. turn \in Seq(Task) /\ ToSet(turn) = ToSet(s) /\ (NoDup(s) => NoDup(turn)) /\ Last(turn) = Head(s)
  <2>1. /\ Append(Tail(s), Head(s)) \in Seq(Task)
        /\ ToSet(Append(Tail(s), Head(s))) = ToSet(Tail(s)) \cup {Head(s)}
        /\ NoDup(Tail(s)) /\ Head(s) \notin ToSet(Tail(s)) => NoDup(Append(Tail(s), Head(s)))
    BY <1>7, AppendFacts, Zenon
  <2>2. Last(Append(Tail(s), Head(s))) = Head(s)
    BY <1>7 DEF Last
  <2>3. QED
    BY <1>6, <1>7, <2>1, <2>2
<1> HIDE DEF turn, P
<1>9. Last(turn) \in Task
  BY <1>7, <1>8
<1>10. [j.ready EXCEPT ![top] = turn] \in [Priority -> Seq(Task)]
  BY <1>5, <1>8 DEF Kernel
<1>11. r = [[[j EXCEPT !.top = top] EXCEPT !.current = Last(turn)] EXCEPT !.ready = [j.ready EXCEPT ![top] = turn]]
  BY <1>1 DEF Kernel
<1> HIDE DEF r
<1>12. r \in Kernel
  <2>1. [j EXCEPT !.top = top] \in Kernel
    BY ZenonT(60), <1>5 DEF Kernel
  <2>2. [[j EXCEPT !.top = top] EXCEPT !.current = Last(turn)] \in Kernel
    BY ZenonT(60), <1>9, <2>1 DEF Kernel
  <2>3. QED
    BY ZenonT(60), <1>10, <1>11, <2>2 DEF Kernel
<1>13. r.top = top /\ r.current = Last(turn) /\ r.ready = [j.ready EXCEPT ![top] = turn]
  BY <1>11 DEF Kernel
<1>14. r.current \in ToSet(j.ready[r.top])
  BY <1>6, <1>8, <1>13 DEF s
<1>15. \A p \in Priority : ToSet(r.ready[p]) = ToSet(j.ready[p]) /\ (NoDup(j.ready[p]) => NoDup(r.ready[p]))
  BY <1>5, <1>8, <1>13, Zenon DEF s, Kernel
<1>16. QED
  BY <1>4, <1>5, <1>11, <1>12, <1>13, <1>14, <1>15 DEF r, P, s

-----------------------------------------------------------------------------
(* The functions of tasks.c.                                               *)

\* The lists are in order but for the tasks in S, the idle task is ready, and
\* uxTasksDeleted counts the tasks that wait for their termination.
Fit(j, S) ==
    /\ j \in Kernel /\ Placed(j, S) /\ TopCovers(j)
    /\ Idle \in ToSet(j.ready[0])
    /\ j.deleted = Len(j.terminating)

\* The running task is a ready task of the highest priority that has one.
Chosen(j) == /\ j.current \in ToSet(j.ready[j.prio[j.current]])
             /\ \A p \in Priority : p > j.prio[j.current] => j.ready[p] = <<>>

\* No delayed task is overdue, each is in the list of the round that d says, and
\* each delay that is left is within one of those asked for.
OnTime(j, d) ==
    /\ \A t \in ToSet(j.delayed) :
          /\ j.wake[t] > j.tick
          /\ d[t] = (j.overflows % 2) * TickMod + j.wake[t]
          /\ \E n \in Delays : j.wake[t] - j.tick <= n
    /\ \A t \in ToSet(j.overflowed) :
          /\ j.wake[t] < j.tick
          /\ d[t] = ((j.overflows + 1) % 2) * TickMod + j.wake[t]
          /\ \E n \in Delays : j.wake[t] + TickMod - j.tick <= n

\* Delayed tasks that leave their list cannot be overdue.
LEMMA OnTimeShrinks ==
  ASSUME NEW j, NEW r, NEW d, NEW e, OnTime(j, d),
         r.tick = j.tick, r.overflows = j.overflows,
         ToSet(r.delayed) \subseteq ToSet(j.delayed), ToSet(r.overflowed) \subseteq ToSet(j.overflowed),
         \A t \in ToSet(r.delayed) \cup ToSet(r.overflowed) : r.wake[t] = j.wake[t] /\ e[t] = d[t]
  PROVE  OnTime(r, e)
<1>1. ASSUME NEW t \in ToSet(r.delayed)
      PROVE  /\ r.wake[t] > r.tick /\ e[t] = (r.overflows % 2) * TickMod + r.wake[t]
             /\ \E n \in Delays : r.wake[t] - r.tick <= n
  <2>1. t \in ToSet(j.delayed) /\ r.wake[t] = j.wake[t] /\ e[t] = d[t]
    OBVIOUS
  <2>2. /\ j.wake[t] > j.tick /\ d[t] = (j.overflows % 2) * TickMod + j.wake[t]
        /\ \E n \in Delays : j.wake[t] - j.tick <= n
    BY <2>1, Zenon DEF OnTime
  <2>3. QED
    BY <2>1, <2>2, Zenon
<1>2. ASSUME NEW t \in ToSet(r.overflowed)
      PROVE  /\ r.wake[t] < r.tick /\ e[t] = ((r.overflows + 1) % 2) * TickMod + r.wake[t]
             /\ \E n \in Delays : r.wake[t] + TickMod - r.tick <= n
  <2>1. t \in ToSet(j.overflowed) /\ r.wake[t] = j.wake[t] /\ e[t] = d[t]
    OBVIOUS
  <2>2. /\ j.wake[t] < j.tick /\ d[t] = ((j.overflows + 1) % 2) * TickMod + j.wake[t]
        /\ \E n \in Delays : j.wake[t] + TickMod - j.tick <= n
    BY <2>1, Zenon DEF OnTime
  <2>3. QED
    BY <2>1, <2>2, Zenon
<1>3. QED
  BY <1>1, <1>2, Zenon DEF OnTime

\* Priorities are the numbers below configMAX_PRIORITIES.
LEMMA PriorityFacts == MaxPriorities - 1 \in Nat /\ Priority = 0..MaxPriorities-1 /\ 0 \in Priority
  BY SchedAssumption DEF Priority

\* xTaskCreate and vTaskPrioritySet clip a priority to the configured ones.
LEMMA ClipFacts == \A p \in Nat : Clip(p) \in Priority /\ Clip(p) <= p
<1>1. MaxPriorities \in Nat \ {0}
  BY SchedAssumption
<1>2. QED
  BY <1>1 DEF Clip, Priority

\* The idle task is one of the created tasks.
LEMMA IdleIsTask == Idle \in Task
<1>1. Created \in Seq(Task) /\ Created # <<>>
  BY SchedAssumption
<1>2. Len(Created) \in DOMAIN Created /\ Idle = Created[Len(Created)]
  BY <1>1 DEF Idle, Last
<1>3. QED
  BY <1>1, <1>2

\* After vTaskSwitchContext a ready task of the highest priority is the current
\* one, and nothing else has changed.
LEMMA SwitchFacts ==
  ASSUME NEW j, Fit(j, {}), j.susp = 0
  PROVE  LET r == vTaskSwitchContext(j)
         IN /\ Fit(r, {}) /\ Chosen(r)
            /\ r.terminating = j.terminating /\ r.pending = j.pending /\ r.susp = 0
            /\ r.tick = j.tick /\ r.overflows = j.overflows /\ r.wake = j.wake
            /\ r.delayed = j.delayed /\ r.overflowed = j.overflowed
<1> DEFINE r == vTaskSwitchContext(j)
<1>1. j \in Kernel /\ Placed(j, {}) /\ TopCovers(j) /\ Idle \in ToSet(j.ready[0]) /\ j.deleted = Len(j.terminating)
  BY DEF Fit
<1>2. \A p \in Priority : j.ready[p] \in Seq(Task) /\ (j.ready[p] # <<>> <=> ToSet(j.ready[p]) # {})
  BY <1>1, NotEmpty, Zenon DEF Kernel
<1>3. \E p \in Priority : p <= j.top /\ j.ready[p] # <<>>
  BY <1>1, <1>2, PriorityFacts, Zenon DEF TopCovers
<1>4. /\ r \in Kernel
      /\ r = [[[j EXCEPT !.top = r.top] EXCEPT !.current = r.current] EXCEPT !.ready = r.ready]
      /\ r.top <= j.top /\ j.ready[r.top] # <<>>
      /\ \A p \in Priority : p <= j.top /\ j.ready[p] # <<>> => p <= r.top
      /\ r.current \in ToSet(j.ready[r.top])
      /\ \A p \in Priority : ToSet(r.ready[p]) = ToSet(j.ready[p]) /\ (NoDup(j.ready[p]) => NoDup(r.ready[p]))
  BY <1>1, <1>3, SwitchFields, Zenon
<1> HIDE DEF r
<1>5. /\ r.prio = j.prio /\ r.delayed = j.delayed /\ r.overflowed = j.overflowed /\ r.pending = j.pending
      /\ r.suspended = j.suspended /\ r.terminating = j.terminating /\ r.deleted = j.deleted /\ r.free = j.free
      /\ r.wake = j.wake /\ r.tick = j.tick /\ r.overflows = j.overflows /\ r.susp = j.susp
  <2> DEFINE c == r.current
             y == r.ready
             z == r.top
  <2>1. r = [[[j EXCEPT !.top = z] EXCEPT !.current = c] EXCEPT !.ready = y]
    BY <1>4
  <2> HIDE DEF c, y, z
  <2>2. QED
    BY <1>1, <2>1 DEF Kernel
<1>6. \A t : IsReady(r, t) <=> IsReady(j, t)
  BY <1>4 DEF IsReady
<1>7. Placed(r, {})
  <2>1. NoDups(r)
    BY <1>1, <1>4, <1>5 DEF Placed, NoDups
  <2>2. ASSUME NEW t \in Task PROVE OnePlace(r, t) /\ \A p \in Priority : t \in ToSet(r.ready[p]) => r.prio[t] = p
    <3>1. OnePlace(j, t) /\ \A p \in Priority : t \in ToSet(j.ready[p]) => j.prio[t] = p
      BY <1>1 DEF Placed
    <3>2. QED
      BY <1>4, <1>5, <1>6, <3>1 DEF OnePlace
  <2>3. QED
    BY <2>1, <2>2 DEF Placed
<1>8. \A p \in Priority : r.ready[p] # <<>> <=> j.ready[p] # <<>>
  <2>1. \A p \in Priority : r.ready[p] # <<>> <=> ToSet(r.ready[p]) # {}
    BY <1>4, NotEmpty DEF Kernel
  <2>2. QED
    BY <1>2, <1>4, <2>1, Zenon
<1>9. \A p \in Priority : r.ready[p] # <<>> => p <= r.top
  BY <1>1, <1>4, <1>8 DEF TopCovers
<1>10. Chosen(r)
  <2>1. r.current \in Task /\ r.top \in Priority
    BY <1>4 DEF Kernel
  <2>2. r.prio[r.current] = r.top
    BY <1>1, <1>4, <1>5, <2>1 DEF Placed
  <2>3. \A p \in Priority : p > r.top => ~(p <= r.top)
    BY <2>1, PriorityFacts
  <2>4. QED
    BY <1>4, <1>9, <2>1, <2>2, <2>3 DEF Chosen
<1>11. Fit(r, {})
  BY <1>1, <1>4, <1>5, <1>7, <1>9, PriorityFacts DEF Fit, TopCovers
<1>12. QED
  BY <1>5, <1>10, <1>11 DEF r

\* A switch that has to wait is only noted.
LEMMA SwitchLater ==
  ASSUME NEW j, Fit(j, {}), j.susp # 0
  PROVE  LET r == vTaskSwitchContext(j)
         IN /\ Fit(r, {}) /\ r.susp = j.susp /\ r.current = j.current /\ r.prio = j.prio /\ r.ready = j.ready
            /\ r.terminating = j.terminating /\ r.pending = j.pending
            /\ r.tick = j.tick /\ r.overflows = j.overflows /\ r.wake = j.wake
            /\ r.delayed = j.delayed /\ r.overflowed = j.overflowed
<1> DEFINE r == vTaskSwitchContext(j)
<1>1. j \in Kernel
  BY DEF Fit
<1>2. j.susp > 0
  BY <1>1 DEF Kernel
<1>3. r = [j EXCEPT !.missedYield = TRUE]
  BY <1>2 DEF vTaskSwitchContext
<1> HIDE DEF r
<1>4. /\ r \in Kernel /\ r.susp = j.susp /\ r.current = j.current /\ r.ready = j.ready
      /\ r.prio = j.prio /\ r.delayed = j.delayed /\ r.overflowed = j.overflowed /\ r.pending = j.pending
      /\ r.suspended = j.suspended /\ r.terminating = j.terminating /\ r.deleted = j.deleted /\ r.free = j.free
      /\ r.wake = j.wake /\ r.tick = j.tick /\ r.overflows = j.overflows /\ r.top = j.top
  BY <1>1, <1>3, Zenon DEF Kernel
<1>5. Fit(r, {})
  BY <1>4 DEF Fit, Placed, NoDups, OnePlace, IsReady, TopCovers
<1>6. QED
  BY <1>4, <1>5 DEF r

\* A list nothing is taken from is the same list.
LEMMA WithoutNone ==
  ASSUME NEW s, NEW S, ToSet(s) \cap S = {}
  PROVE  Without(s, S) = s
  BY DEF Without

\* Tasks that are made ready leave the delayed lists, so that nobody becomes
\* overdue, and no task that waits for its termination is among them.
LEMMA MakeReadyFit ==
  ASSUME NEW j, NEW s \in Seq(Task), NoDup(s), Fit(j, ToSet(s)), Idle \notin ToSet(s),
         ToSet(s) \cap j.free = {}, ToSet(s) \cap ToSet(j.terminating) = {}
  PROVE  LET r == MakeReady(j, s)
         IN /\ Fit(r, {}) /\ r.terminating = j.terminating
            /\ ToSet(r.pending) = ToSet(j.pending) \ ToSet(s)
            /\ \A d : OnTime(j, d) => OnTime(r, d)
<1> DEFINE r == MakeReady(j, s)
           S == ToSet(s)
<1>1. j \in Kernel /\ Placed(j, S) /\ TopCovers(j) /\ Idle \in ToSet(j.ready[0]) /\ j.deleted = Len(j.terminating)
  BY DEF Fit
<1>2. r \in Kernel /\ Placed(r, {}) /\ TopCovers(r)
  BY <1>1, MakeReadyFacts DEF Sound
<1>3. /\ \A p \in Priority : ToSet(r.ready[p]) = (ToSet(j.ready[p]) \ S) \cup {t \in S : j.prio[t] = p}
      /\ ToSet(r.delayed) = ToSet(j.delayed) \ S
      /\ ToSet(r.overflowed) = ToSet(j.overflowed) \ S
      /\ ToSet(r.pending) = ToSet(j.pending) \ S
  BY <1>1, MakeReadyMembers
<1>4. /\ r.terminating = Without(j.terminating, S)
      /\ r.wake = [t \in Task |-> IF t \in S THEN 0 ELSE j.wake[t]]
      /\ r.deleted = j.deleted /\ r.tick = j.tick /\ r.overflows = j.overflows
  BY <1>1, MakeReadyFields, Zenon
<1>5. r.terminating = j.terminating
  BY <1>4, WithoutNone
<1>6. \A t \in ToSet(j.delayed) \cup ToSet(j.overflowed) : t \in Task
  BY <1>1 DEF Kernel, ToSet
<1> HIDE DEF r, S
<1>7. Idle \in ToSet(r.ready[0])
  BY <1>1, <1>3, PriorityFacts DEF S
<1>8. Fit(r, {})
  BY <1>1, <1>2, <1>4, <1>5, <1>7 DEF Fit
<1>9. ASSUME NEW d, OnTime(j, d) PROVE OnTime(r, d)
  <2>1. \A t \in ToSet(r.delayed) \cup ToSet(r.overflowed) : r.wake[t] = j.wake[t] /\ d[t] = d[t]
    BY <1>3, <1>4, <1>6
  <2>2. ToSet(r.delayed) \subseteq ToSet(j.delayed) /\ ToSet(r.overflowed) \subseteq ToSet(j.overflowed)
    BY <1>3
  <2>3. QED
    BY <1>4, <1>9, <2>1, <2>2, OnTimeShrinks, Zenon
<1>10. QED
  BY <1>3, <1>5, <1>8, <1>9 DEF r, S

\* Task x, which is not the idle task, leaves all its lists.
LEMMA RemoveFit ==
  ASSUME NEW j, NEW x \in Task, x # Idle, Fit(j, {}), x \notin ToSet(j.terminating)
  PROVE  LET r == RemoveEvent(RemoveGeneric(j, {x}), {x})
         IN /\ Fit(r, {x}) /\ r.terminating = j.terminating
            /\ \A p \in Priority : ToSet(r.ready[p]) = ToSet(j.ready[p]) \ {x}
            /\ ToSet(r.delayed) = ToSet(j.delayed) \ {x}
            /\ ToSet(r.overflowed) = ToSet(j.overflowed) \ {x}
            /\ ToSet(r.pending) = ToSet(j.pending) \ {x}
            /\ r.suspended = j.suspended \ {x} /\ r.free = j.free
            /\ r.susp = j.susp /\ r.current = j.current /\ r.prio = j.prio
            /\ \A d : OnTime(j, d) => OnTime(r, d)
<1> DEFINE S == {x}
           g == RemoveGeneric(j, S)
           r == RemoveEvent(g, S)
<1>1. j \in Kernel /\ Placed(j, S) /\ TopCovers(j) /\ Idle \in ToSet(j.ready[0]) /\ j.deleted = Len(j.terminating)
  BY DEF Fit, Placed
<1>2. x \in S /\ \A t : t \in S <=> t = x
  OBVIOUS
<1> HIDE DEF S
<1>3. /\ g \in Kernel /\ Placed(g, S)
      /\ \A p \in Priority : ToSet(g.ready[p]) = ToSet(j.ready[p]) \ S
      /\ ToSet(g.delayed) = ToSet(j.delayed) \ S
      /\ ToSet(g.overflowed) = ToSet(j.overflowed) \ S
      /\ ToSet(g.terminating) = ToSet(j.terminating) \ S
      /\ g.suspended = j.suspended \ S
  BY <1>1, RemoveGenericFacts, Zenon
<1>4. /\ g.ready = [p \in Priority |-> Without(j.ready[p], S)]
      /\ g.delayed = Without(j.delayed, S)
      /\ g.overflowed = Without(j.overflowed, S)
      /\ g.terminating = Without(j.terminating, S)
      /\ g.suspended = j.suspended \ S
      /\ g.wake = [t \in Task |-> IF t \in S THEN 0 ELSE j.wake[t]]
      /\ g.current = j.current /\ g.prio = j.prio /\ g.base = j.base /\ g.item = j.item
      /\ g.pending = j.pending /\ g.deleted = j.deleted /\ g.free = j.free /\ g.event = j.event
      /\ g.tick = j.tick /\ g.overflows = j.overflows /\ g.missed = j.missed
      /\ g.missedYield = j.missedYield /\ g.susp = j.susp /\ g.top = j.top
  BY <1>1, RemoveGenericFields
<1> HIDE DEF g
<1>5. r \in Kernel /\ Placed(r, S) /\ ToSet(r.pending) = ToSet(g.pending) \ S
  BY <1>3, RemoveEventFacts
<1>6. /\ r \in Kernel
      /\ r.pending = Without(g.pending, S)
      /\ r.event = [l \in EventList |-> Without(g.event[l], S)]
      /\ r.current = g.current /\ r.prio = g.prio /\ r.base = g.base /\ r.item = g.item
      /\ r.ready = g.ready /\ r.delayed = g.delayed /\ r.overflowed = g.overflowed
      /\ r.suspended = g.suspended /\ r.terminating = g.terminating
      /\ r.deleted = g.deleted /\ r.free = g.free /\ r.wake = g.wake
      /\ r.tick = g.tick /\ r.overflows = g.overflows /\ r.missed = g.missed
      /\ r.missedYield = g.missedYield /\ r.susp = g.susp /\ r.top = g.top
  BY <1>3, RemoveEventFields
<1> HIDE DEF r
<1>7. r.terminating = j.terminating
  BY <1>2, <1>4, <1>6, WithoutNone
<1>8. Idle \in ToSet(r.ready[0])
  BY <1>1, <1>2, <1>3, <1>6, PriorityFacts, Zenon
<1>9. TopCovers(r)
  <2> SUFFICES ASSUME NEW p \in Priority, r.ready[p] # <<>> PROVE p <= r.top
    BY DEF TopCovers
  <2>1. r.ready[p] \in Seq(Task) /\ j.ready[p] \in Seq(Task)
    BY <1>1, <1>5 DEF Kernel
  <2>2. ToSet(r.ready[p]) # {}
    BY <2>1, NotEmpty
  <2>3. j.ready[p] # <<>>
    BY <1>3, <1>6, <2>1, <2>2, NotEmpty, Zenon
  <2>4. QED
    BY <1>1, <1>4, <1>6, <2>3 DEF TopCovers
<1>10. Fit(r, S)
  BY <1>1, <1>4, <1>5, <1>6, <1>7, <1>8, <1>9 DEF Fit
<1>11. \A t \in ToSet(j.delayed) \cup ToSet(j.overflowed) : t \in Task
  BY <1>1 DEF Kernel, ToSet
<1>12. ASSUME NEW d, OnTime(j, d) PROVE OnTime(r, d)
  <2>1. \A t \in ToSet(r.delayed) \cup ToSet(r.overflowed) : r.wake[t] = j.wake[t] /\ d[t] = d[t]
    BY <1>3, <1>4, <1>6, <1>11
  <2>2. ToSet(r.delayed) \subseteq ToSet(j.delayed) /\ ToSet(r.overflowed) \subseteq ToSet(j.overflowed)
    BY <1>3, <1>6
  <2>3. QED
    BY <1>4, <1>6, <1>12, <2>1, <2>2, OnTimeShrinks
<1>13. QED
  BY <1>3, <1>4, <1>5, <1>6, <1>7, <1>10, <1>12, Zenon DEF r, g, S

\* A wake time that is not now lies in the round of the tick count whose list
\* vTaskDelay and vTaskDelayUntil choose, so the absolute time it stands for is
\* told by the list.
LEMMA ClockFacts ==
  ASSUME NEW o \in Nat, NEW tick \in portTickType, NEW wake \in portTickType, wake # tick
  PROVE  ((o % 2) * TickMod + tick + Minus(wake, tick)) % (2 * TickMod)
            = IF WakeOverflowed(wake, tick) THEN ((o + 1) % 2) * TickMod + wake ELSE (o % 2) * TickMod + wake
<1> DEFINE b == o % 2
           c == (o + 1) % 2
           m == 2 * TickMod
<1>1. TickMod \in Nat /\ TickMod >= 3
  BY TickModAssumption
<1>2. b \in {0, 1} /\ c = 1 - b
  BY Mod2
<1>3. wake \in Nat /\ tick \in Nat /\ wake < TickMod /\ tick < TickMod /\ m \in Nat /\ m = TickMod + TickMod
  BY <1>1 DEF portTickType
<1> HIDE DEF b, c, m
<1>4. CASE wake > tick
  <2>1. Minus(wake, tick) = wake - tick /\ ~WakeOverflowed(wake, tick)
    BY <1>3, <1>4 DEF Minus, WakeOverflowed
  <2>2. b * TickMod + tick + (wake - tick) = b * TickMod + wake
    BY <1>1, <1>2, <1>3
  <2>3. b * TickMod + wake \in Nat /\ b * TickMod + wake < m
    BY <1>1, <1>2, <1>3
  <2>4. (b * TickMod + wake) % m = b * TickMod + wake
    BY <1>3, <2>3, ModSmall
  <2>5. QED
    BY <2>1, <2>2, <2>4 DEF b, c, m
<1>5. CASE wake < tick
  <2>1. Minus(wake, tick) = wake + TickMod - tick /\ WakeOverflowed(wake, tick)
    BY <1>3, <1>5 DEF Minus, WakeOverflowed
  <2>2. b * TickMod + tick + (wake + TickMod - tick) = b * TickMod + TickMod + wake
    BY <1>1, <1>2, <1>3
  <2>3. CASE b = 0
    <3>1. b * TickMod + TickMod + wake = TickMod + wake /\ TickMod + wake \in Nat /\ TickMod + wake < m
      BY <1>1, <1>3, <2>3
    <3>2. (TickMod + wake) % m = TickMod + wake
      BY <1>3, <3>1, ModSmall
    <3>3. c * TickMod + wake = TickMod + wake
      BY <1>1, <1>2, <1>3, <2>3
    <3>4. QED
      BY <2>1, <2>2, <3>1, <3>2, <3>3 DEF b, c, m
  <2>4. CASE b = 1
    <3>1. b * TickMod + TickMod + wake = m + wake /\ m + wake \in Nat /\ m <= m + wake /\ m + wake < 2 * m
      BY <1>1, <1>3, <2>4
    <3>2. (m + wake) % m = wake
      BY <1>3, <3>1, ModOnce
    <3>3. c * TickMod + wake = wake
      BY <1>1, <1>2, <1>3, <2>4
    <3>4. QED
      BY <2>1, <2>2, <3>1, <3>2, <3>3 DEF b, c, m
  <2>5. QED
    BY <1>2, <2>3, <2>4
<1>6. QED
  BY <1>3, <1>4, <1>5

\* Task t leaves its ready list for the delayed list that is right for wake.
LEMMA DelayTaskMembers ==
  ASSUME NEW j \in Kernel, NEW t \in Task, NEW wake \in portTickType
  PROVE  LET r == DelayTask(j, t, wake)
             g == RemoveGeneric(j, {t})
             late == WakeOverflowed(wake, j.tick)
         IN /\ r \in Kernel
            /\ r.ready = g.ready /\ r.prio = j.prio /\ r.pending = j.pending /\ r.suspended = g.suspended
            /\ r.terminating = g.terminating /\ r.deleted = j.deleted /\ r.free = j.free /\ r.top = j.top
            /\ r.current = j.current /\ r.tick = j.tick /\ r.overflows = j.overflows /\ r.susp = j.susp
            /\ r.base = j.base /\ r.item = j.item /\ r.event = j.event /\ r.missed = j.missed
            /\ r.wake = [g.wake EXCEPT ![t] = wake]
            /\ ToSet(r.delayed) = ToSet(g.delayed) \cup (IF late THEN {} ELSE {t})
            /\ ToSet(r.overflowed) = ToSet(g.overflowed) \cup (IF late THEN {t} ELSE {})
            /\ NoDup(g.delayed) /\ t \notin ToSet(g.delayed) => NoDup(r.delayed)
            /\ NoDup(g.overflowed) /\ t \notin ToSet(g.overflowed) => NoDup(r.overflowed)
<1> DEFINE r == DelayTask(j, t, wake)
           S == {t}
           g == RemoveGeneric(j, S)
           u == [g EXCEPT !.wake[t] = wake]
           w == u.wake
           late == WakeOverflowed(wake, j.tick)
           a == vListInsert(u.delayed, t, w)
           b == vListInsert(u.overflowed, t, w)
<1>1. g \in Kernel
  BY RemoveGenericType
<1>2. r = IF late THEN [u EXCEPT !.overflowed = b] ELSE [u EXCEPT !.delayed = a]
  BY DEF DelayTask
<1>3. /\ g.ready = [p \in Priority |-> Without(j.ready[p], S)]
      /\ g.delayed = Without(j.delayed, S)
      /\ g.overflowed = Without(j.overflowed, S)
      /\ g.terminating = Without(j.terminating, S)
      /\ g.suspended = j.suspended \ S
      /\ g.wake = [x \in Task |-> IF x \in S THEN 0 ELSE j.wake[x]]
      /\ g.current = j.current /\ g.prio = j.prio /\ g.base = j.base /\ g.item = j.item
      /\ g.pending = j.pending /\ g.deleted = j.deleted /\ g.free = j.free /\ g.event = j.event
      /\ g.tick = j.tick /\ g.overflows = j.overflows /\ g.missed = j.missed
      /\ g.missedYield = j.missedYield /\ g.susp = j.susp /\ g.top = j.top
  BY RemoveGenericFields, Zenon
<1> HIDE DEF g, late
<1>4. /\ u \in Kernel /\ u.wake = [g.wake EXCEPT ![t] = wake]
      /\ u.ready = g.ready /\ u.delayed = g.delayed /\ u.overflowed = g.overflowed /\ u.terminating = g.terminating
      /\ u.suspended = g.suspended /\ u.current = g.current /\ u.prio = g.prio /\ u.pending = g.pending
      /\ u.deleted = g.deleted /\ u.free = g.free /\ u.tick = g.tick /\ u.overflows = g.overflows
      /\ u.susp = g.susp /\ u.top = g.top
      /\ u.base = g.base /\ u.item = g.item /\ u.event = g.event /\ u.missed = g.missed
  BY <1>1, Zenon DEF Kernel
<1> HIDE DEF u, w
<1>5. /\ a \in Seq(Task) /\ ToSet(a) = ToSet(u.delayed) \cup {t}
      /\ NoDup(u.delayed) /\ t \notin ToSet(u.delayed) => NoDup(a)
  <2>1. u.delayed \in Seq(Task)
    BY <1>4, Zenon DEF Kernel
  <2>2. QED
    BY <2>1, InsertFacts
<1>6. /\ b \in Seq(Task) /\ ToSet(b) = ToSet(u.overflowed) \cup {t}
      /\ NoDup(u.overflowed) /\ t \notin ToSet(u.overflowed) => NoDup(b)
  <2>1. u.overflowed \in Seq(Task)
    BY <1>4, Zenon DEF Kernel
  <2>2. QED
    BY <2>1, InsertFacts
<1> HIDE DEF a, b, r
<1>7. CASE late
  <2>1. r = [u EXCEPT !.overflowed = b]
    BY <1>2, <1>7
  <2>2. /\ r \in Kernel /\ r.overflowed = b /\ r.delayed = u.delayed
        /\ r.ready = u.ready /\ r.prio = u.prio /\ r.pending = u.pending /\ r.suspended = u.suspended
        /\ r.terminating = u.terminating /\ r.deleted = u.deleted /\ r.free = u.free /\ r.top = u.top
        /\ r.current = u.current /\ r.tick = u.tick /\ r.overflows = u.overflows /\ r.susp = u.susp
        /\ r.wake = u.wake /\ r.base = u.base /\ r.item = u.item /\ r.event = u.event /\ r.missed = u.missed
    BY <1>4, <1>6, <2>1, Zenon DEF Kernel
  <2>3. QED
    BY <1>3, <1>4, <1>6, <1>7, <2>2, Zenon DEF r, g, S, late
<1>8. CASE ~late
  <2>1. r = [u EXCEPT !.delayed = a]
    BY <1>2, <1>8
  <2>2. /\ r \in Kernel /\ r.delayed = a /\ r.overflowed = u.overflowed
        /\ r.ready = u.ready /\ r.prio = u.prio /\ r.pending = u.pending /\ r.suspended = u.suspended
        /\ r.terminating = u.terminating /\ r.deleted = u.deleted /\ r.free = u.free /\ r.top = u.top
        /\ r.current = u.current /\ r.tick = u.tick /\ r.overflows = u.overflows /\ r.susp = u.susp
        /\ r.wake = u.wake /\ r.base = u.base /\ r.item = u.item /\ r.event = u.event /\ r.missed = u.missed
    BY <1>4, <1>5, <2>1, Zenon DEF Kernel
  <2>3. QED
    BY <1>3, <1>4, <1>5, <1>8, <2>2, Zenon DEF r, g, S, late
<1>9. QED
  BY <1>7, <1>8, Zenon

\* Task t has left its ready list in j for the delayed list that is right for
\* wake.
Blocked(j, r, t, wake) ==
    LET late == WakeOverflowed(wake, j.tick)
    IN /\ Fit(r, {}) /\ r.terminating = j.terminating /\ r.pending = j.pending
       /\ r.current = j.current /\ r.susp = j.susp /\ r.tick = j.tick /\ r.overflows = j.overflows
       /\ r.prio = j.prio /\ r.base = j.base /\ r.item = j.item /\ r.event = j.event
       /\ r.free = j.free /\ r.missed = j.missed
       /\ \A x \in Task : r.wake[x] = IF x = t THEN wake ELSE j.wake[x]
       /\ \A p \in Priority : ToSet(r.ready[p]) = ToSet(j.ready[p]) \ {t}
       /\ ToSet(r.delayed) = (ToSet(j.delayed) \ {t}) \cup (IF late THEN {} ELSE {t})
       /\ ToSet(r.overflowed) = (ToSet(j.overflowed) \ {t}) \cup (IF late THEN {t} ELSE {})
       /\ r.suspended = j.suspended \ {t}

\* A task that blocks for a time is in the delayed list that is right for its
\* wake time, and all other tasks stay where they are.
LEMMA DelayTaskPlace ==
  ASSUME NEW j, NEW t \in Task, t # Idle, NEW wake \in portTickType,
         Fit(j, {}), t \notin j.free \cup ToSet(j.terminating)
  PROVE  Blocked(j, DelayTask(j, t, wake), t, wake)
<1> DEFINE S == {t}
           r == DelayTask(j, t, wake)
           g == RemoveGeneric(j, S)
           late == WakeOverflowed(wake, j.tick)
           A == IF late THEN {} ELSE {t}
           B == IF late THEN {t} ELSE {}
<1>1. j \in Kernel /\ Placed(j, S) /\ TopCovers(j) /\ Idle \in ToSet(j.ready[0]) /\ j.deleted = Len(j.terminating)
  BY DEF Fit, Placed
<1>2. /\ r \in Kernel
      /\ r.ready = g.ready /\ r.prio = j.prio /\ r.pending = j.pending /\ r.suspended = g.suspended
      /\ r.terminating = g.terminating /\ r.deleted = j.deleted /\ r.free = j.free /\ r.top = j.top
      /\ r.current = j.current /\ r.tick = j.tick /\ r.overflows = j.overflows /\ r.susp = j.susp
      /\ r.base = j.base /\ r.item = j.item /\ r.event = j.event /\ r.missed = j.missed
      /\ r.wake = [g.wake EXCEPT ![t] = wake]
      /\ ToSet(r.delayed) = ToSet(g.delayed) \cup A
      /\ ToSet(r.overflowed) = ToSet(g.overflowed) \cup B
      /\ NoDup(g.delayed) /\ t \notin ToSet(g.delayed) => NoDup(r.delayed)
      /\ NoDup(g.overflowed) /\ t \notin ToSet(g.overflowed) => NoDup(r.overflowed)
  BY <1>1, DelayTaskMembers, Zenon
<1> HIDE DEF r
<1>3. /\ g.ready = [p \in Priority |-> Without(j.ready[p], S)]
      /\ g.delayed = Without(j.delayed, S)
      /\ g.overflowed = Without(j.overflowed, S)
      /\ g.terminating = Without(j.terminating, S)
      /\ g.suspended = j.suspended \ S
      /\ g.wake = [x \in Task |-> IF x \in S THEN 0 ELSE j.wake[x]]
      /\ g.current = j.current /\ g.prio = j.prio /\ g.base = j.base /\ g.item = j.item
      /\ g.pending = j.pending /\ g.deleted = j.deleted /\ g.free = j.free /\ g.event = j.event
      /\ g.tick = j.tick /\ g.overflows = j.overflows /\ g.missed = j.missed
      /\ g.missedYield = j.missedYield /\ g.susp = j.susp /\ g.top = j.top
  BY <1>1, RemoveGenericFields, Zenon
<1>4. /\ g \in Kernel /\ Placed(g, S)
      /\ \A p \in Priority : ToSet(g.ready[p]) = ToSet(j.ready[p]) \ S
      /\ ToSet(g.delayed) = ToSet(j.delayed) \ S
      /\ ToSet(g.overflowed) = ToSet(j.overflowed) \ S
      /\ ToSet(g.terminating) = ToSet(j.terminating) \ S
      /\ g.suspended = j.suspended \ S
  <2> HIDE DEF S
  <2>1. QED
    BY <1>1, RemoveGenericFacts, Zenon
<1> HIDE DEF g, late, A, B
<1>5. t \in S /\ \A x : x \in S <=> x = t
  OBVIOUS
<1> HIDE DEF S
<1>6. r.terminating = j.terminating
  BY <1>2, <1>3, <1>5, WithoutNone
<1>7. A \cup B = {t} /\ A \cap B = {} /\ A = (IF late THEN {} ELSE {t}) /\ B = (IF late THEN {t} ELSE {})
  BY DEF A, B
<1>8. /\ \A p \in Priority : ToSet(r.ready[p]) = ToSet(j.ready[p]) \ S
      /\ ToSet(r.delayed) = (ToSet(j.delayed) \ S) \cup A
      /\ ToSet(r.overflowed) = (ToSet(j.overflowed) \ S) \cup B
      /\ r.suspended = j.suspended \ S
  BY <1>2, <1>4
<1>9. NoDups(r)
  <2>1. /\ \A p \in Priority : NoDup(g.ready[p])
        /\ NoDup(g.delayed) /\ NoDup(g.overflowed) /\ NoDup(g.terminating) /\ NoDup(g.pending)
    BY <1>4 DEF Placed, NoDups
  <2>2. t \notin ToSet(g.delayed) /\ t \notin ToSet(g.overflowed)
    BY <1>4, <1>5
  <2>3. NoDup(r.delayed) /\ NoDup(r.overflowed)
    BY <1>2, <2>1, <2>2
  <2>4. r.ready = g.ready /\ r.terminating = g.terminating /\ r.pending = g.pending
    BY <1>2, <1>3
  <2>5. QED
    BY <2>1, <2>3, <2>4 DEF NoDups
<1>10. \A x : IsReady(r, x) <=> IsReady(j, x) /\ x \notin S
  BY <1>8 DEF IsReady
<1>11. ASSUME NEW x \in Task
       PROVE  OnePlace(r, x) /\ \A p \in Priority : x \in ToSet(r.ready[p]) => r.prio[x] = p
  <2>1. CASE x = t
    BY <1>2, <1>5, <1>6, <1>7, <1>8, <1>10, <2>1 DEF OnePlace
  <2>2. CASE x # t
    <3>1. x \notin S /\ x \notin A /\ x \notin B
      BY <1>5, <1>7, <2>2
    <3>2. OnePlace(j, x) /\ \A p \in Priority : x \in ToSet(j.ready[p]) => j.prio[x] = p
      BY <1>1, <3>1 DEF Placed
    <3>3. OnePlace(r, x)
      BY <1>2, <1>6, <1>8, <1>10, <3>1, <3>2 DEF OnePlace
    <3>4. QED
      BY <1>2, <1>8, <3>2, <3>3
  <2>3. QED
    BY <2>1, <2>2
<1>12. TopCovers(r)
  <2> SUFFICES ASSUME NEW p \in Priority, r.ready[p] # <<>> PROVE p <= r.top
    BY DEF TopCovers
  <2>1. r.ready[p] \in Seq(Task) /\ j.ready[p] \in Seq(Task)
    BY <1>1, <1>2, Zenon DEF Kernel
  <2>2. j.ready[p] # <<>>
    BY <1>8, <2>1, NotEmpty, Zenon
  <2>3. QED
    BY <1>1, <1>2, <2>2 DEF TopCovers
<1>13. Idle \in ToSet(r.ready[0])
  BY <1>1, <1>5, <1>8, PriorityFacts
<1>14. Fit(r, {})
  BY <1>1, <1>2, <1>6, <1>9, <1>11, <1>12, <1>13 DEF Fit, Placed
<1>15. \A x \in Task : r.wake[x] = IF x = t THEN wake ELSE j.wake[x]
  BY <1>2, <1>3, <1>5
<1>16. S = {t}
  BY <1>5
<1>17. QED
  BY <1>2, <1>6, <1>7, <1>8, <1>14, <1>15, <1>16 DEF r, late, Blocked

\* A task that blocks for a time has its wake time in the right list, so that
\* it is on time.
LEMMA DelayTaskFit ==
  ASSUME NEW j, NEW t \in Task, t # Idle, NEW wake \in portTickType, NEW d, NEW n \in Delays,
         Fit(j, {}), OnTime(j, d), d \in [Task -> 0..2*TickMod-1],
         t \notin j.free \cup ToSet(j.terminating), wake # j.tick, Minus(wake, j.tick) <= n
  PROVE  LET r == DelayTask(j, t, wake)
         IN /\ Fit(r, {}) /\ r.terminating = j.terminating /\ r.pending = j.pending
            /\ r.current = j.current /\ r.susp = j.susp
            /\ OnTime(r, [d EXCEPT ![t] = Later(Clock(j), Minus(wake, j.tick))])
<1> DEFINE r == DelayTask(j, t, wake)
           late == WakeOverflowed(wake, j.tick)
           e == [d EXCEPT ![t] = Later(Clock(j), Minus(wake, j.tick))]
<1>1. j \in Kernel
  BY DEF Fit
<1>0. Blocked(j, r, t, wake)
  BY DelayTaskPlace
<1> HIDE DEF r
<1>2. /\ Fit(r, {}) /\ r.terminating = j.terminating /\ r.pending = j.pending
      /\ r.current = j.current /\ r.susp = j.susp /\ r.tick = j.tick /\ r.overflows = j.overflows
      /\ r.prio = j.prio /\ r.base = j.base /\ r.item = j.item /\ r.event = j.event
      /\ r.free = j.free /\ r.missed = j.missed
      /\ \A x \in Task : r.wake[x] = IF x = t THEN wake ELSE j.wake[x]
      /\ \A p \in Priority : ToSet(r.ready[p]) = ToSet(j.ready[p]) \ {t}
      /\ ToSet(r.delayed) = (ToSet(j.delayed) \ {t}) \cup (IF late THEN {} ELSE {t})
      /\ ToSet(r.overflowed) = (ToSet(j.overflowed) \ {t}) \cup (IF late THEN {t} ELSE {})
      /\ r.suspended = j.suspended \ {t}
  BY <1>0 DEF Blocked
<1> HIDE DEF late
<1>3. /\ j.tick \in portTickType /\ j.overflows \in Nat /\ j.wake \in [Task -> portTickType]
       /\ TickMod \in Nat /\ TickMod >= 3 /\ n \in Nat
  <2>1. OverflowMod \in Nat \ {0} /\ Delays \subseteq portTickType
    BY SchedAssumption
  <2>2. QED
    BY <1>1, <2>1, TickModAssumption DEF Kernel, portTickType
<1>4. e[t] = IF late THEN ((j.overflows + 1) % 2) * TickMod + wake ELSE (j.overflows % 2) * TickMod + wake
  <2>1. e[t] = ((j.overflows % 2) * TickMod + j.tick + Minus(wake, j.tick)) % (2 * TickMod)
    BY DEF Later, Clock
  <2>2. QED
    BY <1>3, <2>1, ClockFacts DEF late
<1> HIDE DEF e
<1>5. \A x \in Task \ {t} : e[x] = d[x]
  BY DEF e
<1>6. ASSUME NEW x \in ToSet(r.delayed)
       PROVE  /\ r.wake[x] > r.tick /\ e[x] = (r.overflows % 2) * TickMod + r.wake[x]
              /\ \E i \in Delays : r.wake[x] - r.tick <= i
  <2>1. CASE x = t
    <3>1. ~late /\ r.wake[x] = wake
      BY <1>2, <2>1
    <3>2. wake > j.tick /\ wake - j.tick = Minus(wake, j.tick)
      BY <1>3, <3>1 DEF late, WakeOverflowed, Minus, portTickType
    <3>3. e[x] = (j.overflows % 2) * TickMod + wake
      BY <1>4, <2>1, <3>1
    <3>4. QED
      BY <1>2, <3>1, <3>2, <3>3
  <2>2. CASE x # t
    <3>1. x \in ToSet(j.delayed) /\ x \in Task
      <4>1. x \in ToSet(j.delayed)
        BY <1>2, <2>2
      <4>2. j.delayed \in Seq(Task)
        BY <1>1 DEF Kernel
      <4>3. QED
        BY <4>1, <4>2 DEF ToSet
    <3>2. r.wake[x] = j.wake[x] /\ e[x] = d[x]
      BY <1>2, <1>5, <2>2, <3>1
    <3>3. /\ j.wake[x] > j.tick /\ d[x] = (j.overflows % 2) * TickMod + j.wake[x]
          /\ \E i \in Delays : j.wake[x] - j.tick <= i
      BY <3>1, Zenon DEF OnTime
    <3>4. QED
      BY <1>2, <3>2, <3>3
  <2>3. QED
    BY <2>1, <2>2
<1>7. ASSUME NEW x \in ToSet(r.overflowed)
       PROVE  /\ r.wake[x] < r.tick /\ e[x] = ((r.overflows + 1) % 2) * TickMod + r.wake[x]
              /\ \E i \in Delays : r.wake[x] + TickMod - r.tick <= i
  <2>1. CASE x = t
    <3>1. late /\ r.wake[x] = wake
      BY <1>2, <2>1
    <3>2. wake < j.tick /\ wake + TickMod - j.tick = Minus(wake, j.tick)
      BY <1>3, <3>1 DEF late, WakeOverflowed, Minus, portTickType
    <3>3. e[x] = ((j.overflows + 1) % 2) * TickMod + wake
      BY <1>4, <2>1, <3>1
    <3>4. QED
      BY <1>2, <3>1, <3>2, <3>3
  <2>2. CASE x # t
    <3>1. x \in ToSet(j.overflowed) /\ x \in Task
      <4>1. x \in ToSet(j.overflowed)
        BY <1>2, <2>2
      <4>2. j.overflowed \in Seq(Task)
        BY <1>1 DEF Kernel
      <4>3. QED
        BY <4>1, <4>2 DEF ToSet
    <3>2. r.wake[x] = j.wake[x] /\ e[x] = d[x]
      BY <1>2, <1>5, <2>2, <3>1
    <3>3. /\ j.wake[x] < j.tick /\ d[x] = ((j.overflows + 1) % 2) * TickMod + j.wake[x]
          /\ \E i \in Delays : j.wake[x] + TickMod - j.tick <= i
      BY <3>1, Zenon DEF OnTime
    <3>4. QED
      BY <1>2, <3>2, <3>3
  <2>3. QED
    BY <2>1, <2>2
<1>8. OnTime(r, e)
  BY <1>6, <1>7, Zenon DEF OnTime
<1>9. QED
  BY <1>2, <1>8 DEF r, e

\* The tasks that are ready once those of s are, which were neither ready nor
\* deleted.
Wakeable(j, s) ==
    /\ s \in Seq(Task) /\ NoDup(s) /\ Fit(j, ToSet(s)) /\ Idle \notin ToSet(s)
    /\ ToSet(s) \cap j.free = {} /\ ToSet(s) \cap ToSet(j.terminating) = {}

\* prvCheckDelayedTasks makes the tasks ready whose time has come.
LEMMA CheckIs ==
  ASSUME NEW j, Fit(j, {})
  PROVE  \E s : /\ Wakeable(j, s) /\ prvCheckDelayedTasks(j) = MakeReady(j, s)
               /\ ToSet(s) = {t \in ToSet(j.delayed) : j.wake[t] <= j.tick}
<1> DEFINE D == {t \in ToSet(j.delayed) : j.wake[t] <= j.tick}
           s == Select(j.delayed, D)
<1>1. j \in Kernel /\ Placed(j, {}) /\ j.delayed \in Seq(Task) /\ NoDup(j.delayed) /\ Idle \in ToSet(j.ready[0])
  BY Zenon DEF Fit, Kernel, Placed, NoDups
<1>2. prvCheckDelayedTasks(j) = MakeReady(j, s)
  BY DEF prvCheckDelayedTasks
<1>3. D \subseteq ToSet(j.delayed)
  OBVIOUS
<1> HIDE DEF D
<1>4. s \in Seq(Task) /\ ToSet(s) = D /\ NoDup(s)
  <2>1. s \in Seq(Task) /\ ToSet(s) = ToSet(j.delayed) \cap D /\ (NoDup(j.delayed) => NoDup(s))
    BY <1>1, SelectFacts
  <2>2. QED
    BY <1>1, <1>3, <2>1
<1> HIDE DEF s
<1>5. \A t \in D : t \in Task /\ t \notin j.free \cup ToSet(j.terminating) /\ ~IsReady(j, t)
  <2> SUFFICES ASSUME NEW t \in D PROVE t \in Task /\ t \notin j.free \cup ToSet(j.terminating) /\ ~IsReady(j, t)
    OBVIOUS
  <2>1. t \in Task /\ t \in ToSet(j.delayed)
    BY <1>1, <1>3 DEF ToSet
  <2>2. OnePlace(j, t)
    BY <1>1, <2>1 DEF Placed
  <2>3. QED
    BY <2>1, <2>2 DEF OnePlace
<1>6. Idle \notin D
  BY <1>1, <1>5, PriorityFacts DEF IsReady
<1>7. Fit(j, ToSet(s))
  BY DEF Fit, Placed
<1>8. ToSet(s) \cap j.free = {} /\ ToSet(s) \cap ToSet(j.terminating) = {}
  BY <1>4, <1>5
<1>9. Wakeable(j, s)
  BY <1>4, <1>6, <1>7, <1>8 DEF Wakeable
<1>10. QED
  BY <1>2, <1>4, <1>9 DEF D

\* What that makes of the lists.
LEMMA CheckFacts ==
  ASSUME NEW j, Fit(j, {})
  PROVE  LET r == prvCheckDelayedTasks(j)
         IN /\ Fit(r, {}) /\ r.terminating = j.terminating /\ r.susp = j.susp /\ r.current = j.current
            /\ r.tick = j.tick /\ r.overflows = j.overflows
            /\ ToSet(r.pending) \subseteq ToSet(j.pending)
            /\ ToSet(r.delayed) = {t \in ToSet(j.delayed) : ~(j.wake[t] <= j.tick)}
            /\ ToSet(r.overflowed) \subseteq ToSet(j.overflowed)
            /\ \A t \in ToSet(r.delayed) \cup ToSet(r.overflowed) : r.wake[t] = j.wake[t]
<1> DEFINE D == {t \in ToSet(j.delayed) : j.wake[t] <= j.tick}
           r == prvCheckDelayedTasks(j)
<1>1. j \in Kernel
  BY DEF Fit
<1>2. PICK s : Wakeable(j, s) /\ r = MakeReady(j, s) /\ ToSet(s) = D
  BY CheckIs
<1> HIDE DEF r, D
<1>3. /\ s \in Seq(Task) /\ NoDup(s) /\ Fit(j, ToSet(s)) /\ Idle \notin ToSet(s)
      /\ ToSet(s) \cap j.free = {} /\ ToSet(s) \cap ToSet(j.terminating) = {}
  BY <1>2 DEF Wakeable
<1>4. /\ Fit(r, {}) /\ r.terminating = j.terminating
      /\ ToSet(r.pending) = ToSet(j.pending) \ ToSet(s)
  BY <1>2, <1>3, MakeReadyFit
<1>5. /\ r.wake = [t \in Task |-> IF t \in ToSet(s) THEN 0 ELSE j.wake[t]]
      /\ r.current = j.current /\ r.tick = j.tick /\ r.overflows = j.overflows /\ r.susp = j.susp
  BY <1>1, <1>2, <1>3, MakeReadyFields, Zenon
<1>6. ToSet(r.delayed) = ToSet(j.delayed) \ D /\ ToSet(r.overflowed) = ToSet(j.overflowed) \ D
  BY <1>1, <1>2, <1>3, MakeReadyMembers, Zenon
<1>7. \A t \in ToSet(j.delayed) \cup ToSet(j.overflowed) : t \in Task
  BY <1>1 DEF Kernel, ToSet
<1>8. \A t \in ToSet(r.delayed) \cup ToSet(r.overflowed) : r.wake[t] = j.wake[t]
  BY <1>2, <1>5, <1>6, <1>7
<1>9. ToSet(j.delayed) \ D = {t \in ToSet(j.delayed) : ~(j.wake[t] <= j.tick)}
  BY DEF D
<1>10. QED
  BY <1>4, <1>5, <1>6, <1>8, <1>9 DEF r

\* The tick count has gone on by one, and if it has wrapped the delayed lists
\* are exchanged.
Ticked(j, u) ==
    /\ Fit(u, {}) /\ u.tick = Plus(j.tick, 1)
    /\ IF u.tick # 0
       THEN u.delayed = j.delayed /\ u.overflowed = j.overflowed /\ u.overflows = j.overflows
       ELSE /\ u.delayed = j.overflowed /\ u.overflowed = j.delayed
            /\ u.overflows = (j.overflows + 1) % OverflowMod
    /\ u.current = j.current /\ u.prio = j.prio /\ u.base = j.base /\ u.item = j.item
    /\ u.ready = j.ready /\ u.pending = j.pending /\ u.suspended = j.suspended
    /\ u.terminating = j.terminating /\ u.free = j.free /\ u.event = j.event
    /\ u.wake = j.wake /\ u.susp = j.susp /\ u.missed = j.missed

\* The tick interrupt while the scheduler is not suspended looks at the delayed
\* tasks after that.
LEMMA IncrementIs ==
  ASSUME NEW j, Fit(j, {}), j.susp = 0
  PROVE  \E u : Ticked(j, u) /\ vTaskIncrementTick(j) = prvCheckDelayedTasks(u)
<1> DEFINE next == Plus(j.tick, 1)
           o == (j.overflows + 1) % OverflowMod
           n == [j EXCEPT !.tick = Plus(@, 1)]
           w == [j EXCEPT !.tick = 0, !.delayed = j.overflowed, !.overflowed = j.delayed,
                          !.overflows = (@ + 1) % OverflowMod]
<1>1. vTaskIncrementTick(j) = prvCheckDelayedTasks(IF next # 0 THEN n ELSE w)
  BY DEF vTaskIncrementTick
<1>2. j \in Kernel
  BY DEF Fit
<1>3. 0 \in portTickType /\ next \in portTickType
  <2>1. 0 \in portTickType /\ 1 \in portTickType
    BY TickModAssumption DEF portTickType
  <2>2. j.tick \in portTickType
    BY <1>2 DEF Kernel
  <2>3. QED
    BY <2>1, <2>2, WrappedSum
<1>4. CASE next # 0
  <2>1. n = [j EXCEPT !.tick = next]
    BY <1>2 DEF Kernel
  <2> HIDE DEF n, next
  <2>2. /\ n \in Kernel /\ n.tick = next /\ n.current = j.current /\ n.base = j.base /\ n.item = j.item
        /\ n.prio = j.prio /\ n.ready = j.ready /\ n.delayed = j.delayed /\ n.overflowed = j.overflowed
        /\ n.pending = j.pending /\ n.suspended = j.suspended /\ n.terminating = j.terminating
        /\ n.deleted = j.deleted /\ n.free = j.free /\ n.wake = j.wake /\ n.overflows = j.overflows
        /\ n.susp = j.susp /\ n.top = j.top /\ n.event = j.event /\ n.missed = j.missed
    BY ZenonT(60), <1>2, <1>3, <2>1 DEF Kernel
  <2>3. Fit(n, {})
    BY <2>2 DEF Fit, Placed, NoDups, OnePlace, IsReady, TopCovers
  <2>4. Ticked(j, n)
    BY <1>4, <2>2, <2>3 DEF Ticked, next
  <2>5. QED
    BY <1>1, <1>4, <2>4
<1>5. CASE next = 0
  <2>1. o \in 0..OverflowMod-1
    <3>1. OverflowMod \in Nat /\ OverflowMod % 2 = 0 /\ j.overflows \in 0..OverflowMod-1
      BY <1>2, SchedAssumption DEF Kernel
    <3>2. QED
      BY <3>1, Par, Zenon
  <2>2. w = [[[[j EXCEPT !.tick = 0] EXCEPT !.delayed = j.overflowed] EXCEPT !.overflowed = j.delayed]
                EXCEPT !.overflows = o]
    BY <1>2 DEF Kernel
  <2> HIDE DEF w, o
  <2>3. /\ w \in Kernel /\ w.tick = 0 /\ w.delayed = j.overflowed /\ w.overflowed = j.delayed /\ w.overflows = o
        /\ w.prio = j.prio /\ w.ready = j.ready /\ w.current = j.current /\ w.base = j.base /\ w.item = j.item
        /\ w.pending = j.pending /\ w.suspended = j.suspended /\ w.terminating = j.terminating
        /\ w.deleted = j.deleted /\ w.free = j.free /\ w.wake = j.wake
        /\ w.susp = j.susp /\ w.top = j.top /\ w.event = j.event /\ w.missed = j.missed
    BY ZenonT(60), <1>2, <1>3, <2>1, <2>2 DEF Kernel
  <2>4. Fit(w, {})
    <3>1. \A t \in Task : OnePlace(j, t) => OnePlace(w, t)
      BY <2>3 DEF OnePlace, IsReady
    <3>2. QED
      BY <2>3, <3>1 DEF Fit, Placed, NoDups, TopCovers
  <2>5. Ticked(j, w)
    BY <1>5, <2>3, <2>4 DEF Ticked, o
  <2>6. QED
    BY <1>1, <1>5, <2>5
<1>6. QED
  BY <1>4, <1>5

\* It keeps the tasks on time.
LEMMA IncrementFacts ==
  ASSUME NEW j, NEW d, Fit(j, {}), OnTime(j, d), j.susp = 0
  PROVE  LET r == vTaskIncrementTick(j)
         IN /\ Fit(r, {}) /\ OnTime(r, d) /\ r.susp = 0 /\ r.terminating = j.terminating
            /\ ToSet(r.pending) \subseteq ToSet(j.pending)
<1> DEFINE r == vTaskIncrementTick(j)
           next == Plus(j.tick, 1)
           o == (j.overflows + 1) % OverflowMod
<1>1. PICK u : Ticked(j, u) /\ r = prvCheckDelayedTasks(u)
  BY IncrementIs
<1>2. j \in Kernel
  BY DEF Fit
<1>3. /\ TickMod \in Nat /\ TickMod >= 3 /\ portTickType = 0..TickMod-1 /\ j.tick \in portTickType
      /\ \A t \in Task : j.wake[t] \in portTickType
  BY <1>2, TickModAssumption DEF portTickType, Kernel
<1>4. \A t \in ToSet(j.delayed) \cup ToSet(j.overflowed) : t \in Task
  BY <1>2 DEF Kernel, ToSet
<1>5. \A x \in Delays : x \in Nat
  BY <1>3, SchedAssumption
<1>6. /\ \A t \in ToSet(j.delayed) :
            /\ j.wake[t] > j.tick /\ d[t] = (j.overflows % 2) * TickMod + j.wake[t]
            /\ \E x \in Delays : j.wake[t] - j.tick <= x
      /\ \A t \in ToSet(j.overflowed) :
            /\ j.wake[t] < j.tick /\ d[t] = ((j.overflows + 1) % 2) * TickMod + j.wake[t]
            /\ \E x \in Delays : j.wake[t] + TickMod - j.tick <= x
  BY Zenon DEF OnTime
<1> HIDE DEF r
<1>7. /\ Fit(r, {}) /\ r.terminating = u.terminating /\ r.susp = u.susp /\ r.current = u.current
      /\ r.tick = u.tick /\ r.overflows = u.overflows
      /\ ToSet(r.pending) \subseteq ToSet(u.pending)
      /\ ToSet(r.delayed) = {t \in ToSet(u.delayed) : ~(u.wake[t] <= u.tick)}
      /\ ToSet(r.overflowed) \subseteq ToSet(u.overflowed)
      /\ \A t \in ToSet(r.delayed) \cup ToSet(r.overflowed) : r.wake[t] = u.wake[t]
  BY <1>1, CheckFacts DEF Ticked
<1>8. CASE next # 0
  <2>1. next = j.tick + 1 /\ next \in portTickType
    BY <1>3, <1>8 DEF Plus
  <2> HIDE DEF next
  <2>2. /\ u.tick = next /\ u.delayed = j.delayed /\ u.overflowed = j.overflowed /\ u.overflows = j.overflows
        /\ u.wake = j.wake
    BY <1>1, <1>8 DEF Ticked, next
  <2>3. ASSUME NEW t \in ToSet(r.delayed)
        PROVE  /\ r.wake[t] > r.tick /\ d[t] = (r.overflows % 2) * TickMod + r.wake[t]
               /\ \E x \in Delays : r.wake[t] - r.tick <= x
    <3>1. t \in ToSet(j.delayed) /\ r.wake[t] = j.wake[t] /\ ~(j.wake[t] <= next)
      BY <1>7, <2>2
    <3>2. d[t] = (r.overflows % 2) * TickMod + r.wake[t]
      BY <1>6, <1>7, <2>2, <3>1
    <3>3. j.wake[t] \in Nat /\ r.tick = next /\ j.tick \in Nat
      BY <1>3, <1>4, <1>7, <2>2, <3>1
    <3>4. PICK x \in Delays : j.wake[t] - j.tick <= x
      BY <1>6, <3>1
    <3>5. r.wake[t] > r.tick /\ r.wake[t] - r.tick <= x
      BY <1>5, <2>1, <3>1, <3>3, <3>4
    <3>6. QED
      BY <3>2, <3>5
  <2>4. ASSUME NEW t \in ToSet(r.overflowed)
        PROVE  /\ r.wake[t] < r.tick /\ d[t] = ((r.overflows + 1) % 2) * TickMod + r.wake[t]
               /\ \E x \in Delays : r.wake[t] + TickMod - r.tick <= x
    <3>1. t \in ToSet(j.overflowed) /\ r.wake[t] = j.wake[t]
      BY <1>7, <2>2
    <3>2. d[t] = ((r.overflows + 1) % 2) * TickMod + r.wake[t]
      BY <1>6, <1>7, <2>2, <3>1
    <3>3. j.wake[t] \in Nat /\ r.tick = next /\ j.tick \in Nat
      BY <1>3, <1>4, <1>7, <2>2, <3>1
    <3>4. j.wake[t] < j.tick /\ \E x \in Delays : j.wake[t] + TickMod - j.tick <= x
      BY <1>6, <3>1
    <3>5. PICK x \in Delays : j.wake[t] + TickMod - j.tick <= x
      BY <3>4
    <3>6. r.wake[t] < r.tick /\ r.wake[t] + TickMod - r.tick <= x
      BY <1>3, <1>5, <2>1, <3>1, <3>3, <3>4, <3>5
    <3>7. QED
      BY <3>2, <3>6
  <2>5. OnTime(r, d)
    BY <2>3, <2>4, Zenon DEF OnTime
  <2>6. QED
    BY <1>1, <1>7, <2>5 DEF r, Ticked
<1>9. CASE next = 0
  <2>1. j.tick + 1 = TickMod
    BY <1>3, <1>9 DEF Plus
  <2>2. o \in 0..OverflowMod-1 /\ o \in Nat /\ o % 2 = (j.overflows + 1) % 2
    <3>1. OverflowMod \in Nat /\ OverflowMod % 2 = 0 /\ j.overflows \in 0..OverflowMod-1
      BY <1>2, SchedAssumption DEF Kernel
    <3>2. o \in 0..OverflowMod-1 /\ o % 2 = 1 - (j.overflows % 2)
      BY <3>1, Par, Zenon
    <3>3. j.overflows \in Nat
      BY <3>1
    <3>4. (j.overflows + 1) % 2 = 1 - (j.overflows % 2)
      BY <3>3, Mod2
    <3>5. QED
      BY <3>1, <3>2, <3>4
  <2> HIDE DEF o
  <2>3. /\ u.tick = 0 /\ u.delayed = j.overflowed /\ u.overflowed = j.delayed /\ u.overflows = o
        /\ u.wake = j.wake
    BY <1>1, <1>9 DEF Ticked, o
  <2>4. ToSet(j.delayed) = {}
    <3> SUFFICES ASSUME NEW t \in ToSet(j.delayed) PROVE FALSE
      OBVIOUS
    <3>1. j.wake[t] > j.tick /\ j.wake[t] \in 0..TickMod-1
      BY <1>3, <1>4, <1>6
    <3>2. QED
      BY <1>3, <2>1, <3>1
  <2>5. ASSUME NEW t \in ToSet(r.delayed)
        PROVE  /\ r.wake[t] > r.tick /\ d[t] = (r.overflows % 2) * TickMod + r.wake[t]
               /\ \E x \in Delays : r.wake[t] - r.tick <= x
    <3>1. t \in ToSet(j.overflowed) /\ r.wake[t] = j.wake[t] /\ ~(j.wake[t] <= 0) /\ r.tick = 0
      BY <1>7, <2>3
    <3>2. d[t] = (r.overflows % 2) * TickMod + r.wake[t]
      BY <1>6, <1>7, <2>2, <2>3, <3>1
    <3>3. j.wake[t] \in Nat
      BY <1>3, <1>4, <3>1
    <3>4. PICK x \in Delays : j.wake[t] + TickMod - j.tick <= x
      BY <1>6, <3>1
    <3>5. x \in Nat /\ j.tick \in Nat /\ TickMod \in Nat
      BY <1>3, <1>5
    <3>6. j.wake[t] > 0 /\ j.wake[t] <= x
      BY <2>1, <3>1, <3>3, <3>4, <3>5
    <3>7. r.wake[t] > r.tick /\ r.wake[t] - r.tick <= x
      BY <3>1, <3>3, <3>5, <3>6
    <3>8. QED
      BY <3>2, <3>7
  <2>6. ToSet(r.overflowed) = {}
    BY <1>7, <2>3, <2>4
  <2>7. OnTime(r, d)
    BY <2>5, <2>6, Zenon DEF OnTime
  <2>8. QED
    BY <1>1, <1>7, <2>7 DEF r, Ticked
<1>10. QED
  BY <1>8, <1>9

\* The ticks missed while the scheduler was suspended are made up for one by one,
\* within any set of states that the tick interrupt does not leave.
LEMMA CatchUp ==
  ASSUME NEW X, NEW moved \in X, \A j \in X : vTaskIncrementTick(j) \in X, NEW m \in Nat
  PROVE  LET caught[n \in 0..m] == IF n = 0 THEN moved ELSE vTaskIncrementTick(caught[n-1])
         IN /\ caught[0] = moved
            /\ \A n \in 1..m : caught[n] = vTaskIncrementTick(caught[n-1])
            /\ \A n \in 0..m : caught[n] \in X
<1> DEFINE caught[n \in 0..m] == IF n = 0 THEN moved ELSE vTaskIncrementTick(caught[n-1])
           G == [n \in 1..m |-> [j \in X |-> vTaskIncrementTick(j)]]
<1>1. G \in [1..m -> [X -> X]] /\ \A n \in 1..m, j \in X : G[n][j] = vTaskIncrementTick(j)
  OBVIOUS
<1> HIDE DEF G, caught
<1>2. \E f \in [0..m -> X] : f[0] = moved /\ \A n \in 1..m : f[n] = G[n][f[n-1]]
  BY SMTT(30), <1>1, Recursion
<1>3. PICK f \in [0..m -> X] : f[0] = moved /\ \A n \in 1..m : f[n] = G[n][f[n-1]]
  BY <1>2
<1>4. ASSUME NEW n \in 0..m PROVE f[n] = IF n = 0 THEN moved ELSE vTaskIncrementTick(f[n-1])
  <2>1. n = 0 \/ (n \in 1..m /\ n # 0 /\ n - 1 \in 0..m)
    OBVIOUS
  <2>2. QED
    BY <1>1, <1>3, <2>1
<1>5. f = [n \in 0..m |-> IF n = 0 THEN moved ELSE vTaskIncrementTick(f[n-1])]
  BY <1>3, <1>4
<1>6. \E c : c = [n \in 0..m |-> IF n = 0 THEN moved ELSE vTaskIncrementTick(c[n-1])]
  BY <1>5, Zenon
<1>7. caught = [n \in 0..m |-> IF n = 0 THEN moved ELSE vTaskIncrementTick(caught[n-1])]
  BY <1>6, Zenon DEF caught
<1>8. caught[0] = moved /\ \A n \in 1..m : caught[n] = vTaskIncrementTick(caught[n-1])
  <2>1. 0 \in 0..m /\ \A n \in 1..m : n \in 0..m /\ n # 0
    OBVIOUS
  <2>2. QED
    BY <1>7, <2>1
<1>9. ASSUME NEW i \in 0..m PROVE caught[i] \in X
  <2> DEFINE P == {n \in 0..m : caught[n] \in X}
  <2>1. 0 \in P
    BY <1>8
  <2>2. ASSUME NEW n \in 1..m, n - 1 \in P PROVE n \in P
    BY <1>8, <2>2
  <2> HIDE DEF P
  <2>3. \A n \in 1..i : n \in 1..m
    OBVIOUS
  <2>4. i \in Nat /\ \A n \in 1..i : n - 1 \in P => n \in P
    BY <2>2, <2>3
  <2>5. \A n \in 0..i : n \in P
    BY <2>1, <2>4, UpTo, Zenon
  <2>6. QED
    BY <2>4, <2>5 DEF P
<1>10. QED
  BY <1>8, <1>9 DEF caught

\* Made up for, they leave the tasks on time.
LEMMA CaughtUp ==
  ASSUME NEW moved, NEW d, Fit(moved, {}), OnTime(moved, d), moved.susp = 0, ToSet(moved.pending) = {}, NEW m \in Nat
  PROVE  LET caught[n \in 0..m] == IF n = 0 THEN moved ELSE vTaskIncrementTick(caught[n-1])
             r == caught[m]
         IN /\ Fit(r, {}) /\ OnTime(r, d) /\ r.susp = 0 /\ r.terminating = moved.terminating /\ ToSet(r.pending) = {}
            /\ m = 0 => r = moved
<1> DEFINE caught[n \in 0..m] == IF n = 0 THEN moved ELSE vTaskIncrementTick(caught[n-1])
           Z == moved.terminating
           Good(j) == Fit(j, {}) /\ OnTime(j, d) /\ j.susp = 0 /\ j.terminating = Z /\ ToSet(j.pending) = {}
           X == {j \in Kernel : Good(j)}
<1> HIDE DEF Z
<1>1. moved \in X
  BY DEF Fit, Z
<1>2. ASSUME NEW j \in X PROVE vTaskIncrementTick(j) \in X
  <2> DEFINE r == vTaskIncrementTick(j)
  <2>1. /\ Fit(r, {}) /\ OnTime(r, d) /\ r.susp = 0 /\ r.terminating = j.terminating
        /\ ToSet(r.pending) \subseteq ToSet(j.pending)
    BY IncrementFacts, Zenon
  <2> HIDE DEF r
  <2>2. r \in Kernel
    BY <2>1 DEF Fit
  <2>3. Good(r)
    BY <2>1
  <2>4. QED
    BY <2>2, <2>3 DEF r
<1> HIDE DEF X
<1>3. /\ caught[0] = moved
      /\ \A n \in 1..m : caught[n] = vTaskIncrementTick(caught[n-1])
      /\ \A n \in 0..m : caught[n] \in X
  BY <1>1, <1>2, CatchUp
<1> HIDE DEF caught
<1>4. Good(caught[m]) /\ (m = 0 => caught[m] = moved)
  BY <1>3 DEF X
<1>5. QED
  BY <1>4, Zenon DEF Z, caught

\* xTaskResumeAll: the pending tasks are ready, the missed ticks made up for, and
\* if nothing asked for a yield the caller is still the right task.
LEMMA ResumeFacts ==
  ASSUME NEW j, NEW d, Fit(j, {}), OnTime(j, d), j.susp = 1,
         ToSet(j.pending) \cap (j.free \cup ToSet(j.terminating)) = {}, Idle \notin ToSet(j.pending)
  PROVE  LET r == xTaskResumeAll(j)
         IN /\ Fit(r.k, {}) /\ OnTime(r.k, d) /\ r.k.susp = 0 /\ r.k.terminating = j.terminating
            /\ ToSet(r.k.pending) = {}
            /\ r.yielded \in BOOLEAN
            /\ r.yielded => Chosen(r.k)
            /\ ~r.yielded => r.k.current = j.current /\ (Chosen(j) => Chosen(r.k))
<1> DEFINE u == [j EXCEPT !.susp = @ - 1]
           s == j.pending
           S == ToSet(s)
           moved == MakeReady(u, s)
           m == j.missed
           caught[n \in 0..m] == IF n = 0 THEN moved ELSE vTaskIncrementTick(caught[n-1])
           c == caught[m]
           done == [c EXCEPT !.missed = 0]
           r == xTaskResumeAll(j)
<1>1. r = IF YieldRequired(j)
          THEN [k |-> vTaskSwitchContext([done EXCEPT !.missedYield = FALSE]), yielded |-> TRUE]
          ELSE [k |-> done, yielded |-> FALSE]
  BY DEF xTaskResumeAll
<1>2. j \in Kernel /\ s \in Seq(Task) /\ NoDup(s) /\ m \in Nat
  <2>1. j \in Kernel /\ NoDup(s)
    BY DEF Fit, Placed, NoDups
  <2>2. MaxMissed \in Nat
    BY SchedAssumption
  <2>3. QED
    BY <2>1, <2>2 DEF Kernel
<1> HIDE DEF r, caught
<1>3. /\ u \in Kernel /\ u.susp = 0 /\ u.current = j.current
      /\ u.prio = j.prio /\ u.ready = j.ready /\ u.delayed = j.delayed /\ u.overflowed = j.overflowed
      /\ u.pending = j.pending /\ u.suspended = j.suspended /\ u.terminating = j.terminating
      /\ u.deleted = j.deleted /\ u.free = j.free /\ u.wake = j.wake /\ u.tick = j.tick
      /\ u.overflows = j.overflows /\ u.top = j.top
  <2>1. u = [j EXCEPT !.susp = 0]
    BY <1>2 DEF Kernel
  <2> HIDE DEF u
  <2>2. QED
    BY <1>2, <2>1, Zenon DEF Kernel
<1> HIDE DEF u
<1>4. Fit(u, S) /\ OnTime(u, d)
  BY <1>3 DEF Fit, Placed, NoDups, OnePlace, IsReady, TopCovers, OnTime
<1>5. /\ Fit(moved, {}) /\ moved.terminating = u.terminating
      /\ ToSet(moved.pending) = ToSet(u.pending) \ S
      /\ OnTime(moved, d)
  <2>1. S \cap u.free = {} /\ S \cap ToSet(u.terminating) = {}
    BY <1>3
  <2>2. QED
    BY <1>2, <1>4, <2>1, MakeReadyFit
<1>6. /\ moved \in Kernel /\ moved.current = u.current /\ moved.prio = u.prio /\ moved.susp = u.susp
      /\ \A p \in Priority : ToSet(moved.ready[p]) = (ToSet(u.ready[p]) \ S) \cup {t \in S : u.prio[t] = p}
  <2>1. moved.current = u.current /\ moved.prio = u.prio /\ moved.susp = u.susp
    BY <1>2, <1>3, MakeReadyFields, Zenon
  <2>2. \A p \in Priority : ToSet(moved.ready[p]) = (ToSet(u.ready[p]) \ S) \cup {t \in S : u.prio[t] = p}
    BY <1>2, <1>3, MakeReadyMembers
  <2>3. QED
    BY <1>5, <2>1, <2>2 DEF Fit
<1> HIDE DEF moved
<1>7. ToSet(moved.pending) = {}
  BY <1>3, <1>5
<1>8. /\ Fit(c, {}) /\ OnTime(c, d) /\ c.susp = 0 /\ c.terminating = moved.terminating /\ ToSet(c.pending) = {}
      /\ m = 0 => c = moved
  <2>1. moved.susp = 0
    BY <1>3, <1>6
  <2> HIDE DEF m
  <2>2. QED
    BY <1>2, <1>5, <1>7, <2>1, CaughtUp, Zenon DEF caught
<1> HIDE DEF c
<1>9. /\ done \in Kernel /\ done.susp = c.susp /\ done.current = c.current
      /\ done.prio = c.prio /\ done.ready = c.ready /\ done.delayed = c.delayed /\ done.overflowed = c.overflowed
      /\ done.pending = c.pending /\ done.suspended = c.suspended /\ done.terminating = c.terminating
      /\ done.deleted = c.deleted /\ done.free = c.free /\ done.wake = c.wake /\ done.tick = c.tick
      /\ done.overflows = c.overflows /\ done.top = c.top
  <2>1. MaxMissed \in Nat
    BY SchedAssumption
  <2>2. c \in Kernel /\ 0 \in 0..MaxMissed
    BY <1>8, <2>1 DEF Fit
  <2>3. QED
    BY <2>2, Zenon DEF Kernel
<1> HIDE DEF done
<1>10. Fit(done, {}) /\ OnTime(done, d)
  BY <1>8, <1>9 DEF Fit, Placed, NoDups, OnePlace, IsReady, TopCovers, OnTime
<1>11. CASE YieldRequired(j)
  <2> DEFINE v == [done EXCEPT !.missedYield = FALSE]
             w == vTaskSwitchContext(v)
  <2>1. r.k = w /\ r.yielded = TRUE
    BY <1>1, <1>11
  <2>2. /\ v \in Kernel /\ v.susp = done.susp /\ v.current = done.current
        /\ v.prio = done.prio /\ v.ready = done.ready /\ v.delayed = done.delayed /\ v.overflowed = done.overflowed
        /\ v.pending = done.pending /\ v.suspended = done.suspended /\ v.terminating = done.terminating
        /\ v.deleted = done.deleted /\ v.free = done.free /\ v.wake = done.wake /\ v.tick = done.tick
        /\ v.overflows = done.overflows /\ v.top = done.top
    BY <1>9, Zenon DEF Kernel
  <2> HIDE DEF v
  <2>3. Fit(v, {}) /\ OnTime(v, d) /\ v.susp = 0
    BY SMTT(30), <1>8, <1>9, <1>10, <2>2 DEF Fit, Placed, NoDups, OnePlace, IsReady, TopCovers, OnTime
  <2>4. /\ Fit(w, {}) /\ Chosen(w)
        /\ w.terminating = v.terminating /\ w.pending = v.pending /\ w.susp = 0
        /\ w.tick = v.tick /\ w.overflows = v.overflows /\ w.wake = v.wake
        /\ w.delayed = v.delayed /\ w.overflowed = v.overflowed
    BY <2>3, SwitchFacts
  <2> HIDE DEF w
  <2>5. OnTime(w, d)
    BY <2>3, <2>4 DEF OnTime
  <2>6. QED
    BY ZenonT(60), <1>3, <1>5, <1>8, <1>9, <2>1, <2>2, <2>4, <2>5 DEF r
<1>12. CASE ~YieldRequired(j)
  <2>1. r.k = done /\ r.yielded = FALSE
    BY <1>1, <1>12
  <2>2. m = 0 /\ \A t \in S : ~(j.prio[t] >= j.prio[j.current])
    BY <1>2, <1>12 DEF YieldRequired, YieldForPending
  <2>3. c = moved
    BY <1>8, <2>2
  <2>4. ASSUME Chosen(j) PROVE Chosen(done)
    <3>0. \A t \in S : t \in Task
      BY <1>2 DEF ToSet
    <3> HIDE DEF S
    <3>1. /\ done.current = j.current /\ done.prio = j.prio /\ done.ready = moved.ready
          /\ j.current \in Task /\ j.prio[j.current] \in Priority /\ \A t \in S : t \in Task /\ j.prio[t] \in Priority
      <4>1. j.current \in Task /\ j.prio \in [Task -> Priority]
        BY <1>2 DEF Kernel
      <4>2. QED
        BY <1>3, <1>6, <1>9, <2>3, <3>0, <4>1
    <3>2. j.current \notin S
      BY <2>2, <3>1, PriorityFacts
    <3>3. done.current \in ToSet(done.ready[done.prio[done.current]])
      BY <1>3, <1>6, <2>4, <3>1, <3>2 DEF Chosen
    <3>4. ASSUME NEW p \in Priority, p > j.prio[j.current] PROVE done.ready[p] = <<>>
      <4>1. j.ready[p] = <<>> /\ j.ready[p] \in Seq(Task) /\ done.ready[p] \in Seq(Task)
        BY <1>2, <1>9, <2>4, <3>4, Zenon DEF Chosen, Kernel
      <4>2. \A t \in S : j.prio[t] # p
        BY <2>2, <3>1, <3>4, PriorityFacts
      <4>3. ToSet(j.ready[p]) = {}
        BY <4>1, NotEmpty, Zenon
      <4>4. ToSet(done.ready[p]) = (ToSet(j.ready[p]) \ S) \cup {t \in S : j.prio[t] = p}
        BY <1>3, <1>6, <3>1
      <4>5. ToSet(done.ready[p]) = {}
        BY <4>2, <4>3, <4>4
      <4>6. QED
        BY <4>1, <4>5, NotEmpty
    <3>5. QED
      BY <3>1, <3>3, <3>4 DEF Chosen
  <2>5. done.current = j.current
    BY <1>3, <1>6, <1>9, <2>3
  <2>6. QED
    BY <1>3, <1>5, <1>8, <1>9, <1>10, <2>1, <2>4, <2>5, Zenon DEF r
<1>13. QED
  BY <1>11, <1>12

-----------------------------------------------------------------------------
(* The inductive invariant.                                                *)

\* Where a task can be in the kernel.
Places == {"app", "locked", "resume", "yield", "reap", "free", "round"}

\* Between these steps the scheduler is suspended.
Locking == {"locked", "resume", "reap"}

\* The invariant, of the globals, of where the tasks are and of the times they
\* asked for.
Good(j, at, d) ==
    /\ at \in [Task -> Places] /\ d \in [Task -> 0..2*TickMod-1]
    /\ Fit(j, {}) /\ OnTime(j, d) /\ ToSet(j.pending) = {}
    /\ j.susp = 1 <=> at[j.current] \in Locking
    /\ \A t \in Task \ {j.current} : at[t] \notin Locking
    /\ at[j.current] \notin {"yield", "resume"} => Chosen(j)
    /\ at[Idle] = "free" => ToSet(j.terminating) # {}

\* The inductive invariant of the scheduler.
IInv == Good(k, pc, due) /\ lastWake \in [Task -> portTickType]

\* A step that leaves the delayed tasks with their wake times keeps them on time.
LEMMA KeepDueFacts ==
  ASSUME due \in [Task -> 0..2*TickMod-1], Fit(k', {}), OnTime(k', due), KeepDue
  PROVE  due' \in [Task -> 0..2*TickMod-1] /\ OnTime(k', due')
<1>1. TickMod \in Nat /\ TickMod >= 3
  BY TickModAssumption
<1>2. due' \in [Task -> 0..2*TickMod-1]
  BY <1>1 DEF KeepDue
<1>3. \A t \in ToSet(k'.delayed) \cup ToSet(k'.overflowed) : t \in Task
  BY DEF Fit, Kernel, ToSet
<1>4. \A t \in ToSet(k'.delayed) \cup ToSet(k'.overflowed) : due'[t] = due[t]
  BY <1>3 DEF KeepDue, IsDelayed
<1>5. OnTime(k', due')
  BY <1>4, OnTimeShrinks
<1>6. QED
  BY <1>2, <1>5

\* Where a task calls the API the scheduler is not suspended.
LEMMA CallerFacts ==
  ASSUME IInv, NEW t \in Task, NEW call, Calling(t, call)
  PROVE  /\ k \in Kernel /\ k.current = t /\ pc[t] = "app" /\ t # Idle /\ k.susp = 0
         /\ \A x \in Task : pc[x] \notin Locking
         /\ Chosen(k) /\ t \in ToSet(k.ready[k.prio[t]]) /\ k.prio[t] \in Priority
         /\ t \notin k.free \cup ToSet(k.terminating)
<1>1. k.current = t /\ pc[t] = "app" /\ t # Idle
  BY DEF Calling, Runs
<1>2. /\ k \in Kernel /\ Placed(k, {}) /\ k.susp \in {0, 1} /\ k.prio[t] \in Priority
      /\ k.susp = 1 <=> pc[k.current] \in Locking
      /\ \A x \in Task \ {k.current} : pc[x] \notin Locking
      /\ pc[k.current] \notin {"yield", "resume"} => Chosen(k)
  BY Zenon DEF IInv, Good, Fit, Kernel
<1>3. pc[t] \notin Locking /\ pc[t] \notin {"yield", "resume"}
  BY <1>1 DEF Locking
<1>4. k.susp = 0 /\ Chosen(k) /\ \A x \in Task : pc[x] \notin Locking
  BY <1>1, <1>2, <1>3
<1>5. t \in ToSet(k.ready[k.prio[t]])
  BY <1>1, <1>4 DEF Chosen
<1>6. OnePlace(k, t)
  BY <1>2 DEF Placed
<1>7. t \notin k.free \cup ToSet(k.terminating)
  BY <1>2, <1>5, <1>6 DEF OnePlace, IsReady
<1>8. QED
  BY <1>1, <1>2, <1>4, <1>5, <1>7

\* vTaskSuspendAll only counts.
LEMMA SuspendAllFacts ==
  ASSUME NEW j, Fit(j, {}), j.susp = 0
  PROVE  LET r == vTaskSuspendAll(j)
         IN /\ Fit(r, {}) /\ r.susp = 1 /\ r.current = j.current /\ r.prio = j.prio /\ r.ready = j.ready
            /\ r.delayed = j.delayed /\ r.overflowed = j.overflowed /\ r.wake = j.wake
            /\ r.pending = j.pending /\ r.terminating = j.terminating /\ r.free = j.free
            /\ r.tick = j.tick /\ r.overflows = j.overflows
<1> DEFINE r == vTaskSuspendAll(j)
<1>1. j \in Kernel
  BY DEF Fit
<1>2. r = [j EXCEPT !.susp = 1]
  BY <1>1 DEF vTaskSuspendAll, Kernel
<1> HIDE DEF r
<1>3. /\ r \in Kernel /\ r.susp = 1 /\ r.current = j.current
      /\ r.prio = j.prio /\ r.ready = j.ready /\ r.delayed = j.delayed /\ r.overflowed = j.overflowed
      /\ r.pending = j.pending /\ r.suspended = j.suspended /\ r.terminating = j.terminating
      /\ r.deleted = j.deleted /\ r.free = j.free /\ r.wake = j.wake /\ r.tick = j.tick
      /\ r.overflows = j.overflows /\ r.top = j.top
  BY ZenonT(60), <1>1, <1>2 DEF Kernel
<1>4. Fit(r, {})
  BY <1>3 DEF Fit, Placed, NoDups, OnePlace, IsReady, TopCovers
<1>5. QED
  BY <1>3, <1>4 DEF r

\* The running task stays in the highest ready list, though that may change.
LEMMA ChosenKept ==
  ASSUME NEW j \in Kernel, NEW r \in Kernel, Chosen(j),
         r.current = j.current, r.prio[r.current] >= j.prio[j.current],
         j.current \in ToSet(r.ready[r.prio[r.current]]),
         \A p \in Priority : p > r.prio[r.current] => ToSet(r.ready[p]) \subseteq ToSet(j.ready[p])
  PROVE  Chosen(r)
<1>1. ASSUME NEW p \in Priority, p > r.prio[r.current] PROVE r.ready[p] = <<>>
  <2>1. j.prio[j.current] \in Priority /\ r.prio[r.current] \in Priority
    BY DEF Kernel
  <2>2. p > j.prio[j.current]
    BY <1>1, <2>1, PriorityFacts
  <2>3. j.ready[p] = <<>> /\ j.ready[p] \in Seq(Task) /\ r.ready[p] \in Seq(Task)
    BY <2>2 DEF Chosen, Kernel
  <2>4. ToSet(j.ready[p]) = {}
    BY <2>3, NotEmpty, Zenon
  <2>5. ToSet(r.ready[p]) = {}
    BY <1>1, <2>4
  <2>6. QED
    BY <2>3, <2>5, NotEmpty
<1>2. QED
  BY <1>1 DEF Chosen

\* The running task asks for a wake time that is not now.
LEMMA BlockKeeps ==
  ASSUME IInv, NEW t \in Task, NEW call, Calling(t, call),
         NEW wake \in portTickType, NEW n \in Delays, wake # k.tick, Minus(wake, k.tick) <= n,
         k' = DelayTask(vTaskSuspendAll(k), t, wake),
         due' = [due EXCEPT ![t] = Later(Clock(k), Minus(wake, k.tick))],
         Goto(t, "resume")
  PROVE  Good(k', pc', due')
<1> DEFINE u == vTaskSuspendAll(k)
           r == DelayTask(u, t, wake)
           e == [due EXCEPT ![t] = Later(Clock(k), Minus(wake, k.tick))]
<1>1. /\ k \in Kernel /\ k.current = t /\ pc[t] = "app" /\ t # Idle /\ k.susp = 0
      /\ \A x \in Task : pc[x] \notin Locking
      /\ Chosen(k) /\ t \in ToSet(k.ready[k.prio[t]]) /\ k.prio[t] \in Priority
      /\ t \notin k.free \cup ToSet(k.terminating)
  BY CallerFacts
<1>2. /\ pc \in [Task -> Places] /\ due \in [Task -> 0..2*TickMod-1]
      /\ Fit(k, {}) /\ OnTime(k, due) /\ ToSet(k.pending) = {}
      /\ pc[Idle] = "free" => ToSet(k.terminating) # {}
  BY DEF IInv, Good
<1>3. pc' \in [Task -> Places] /\ pc'[t] = "resume" /\ \A x \in Task \ {t} : pc'[x] = pc[x]
  BY <1>2 DEF Places, Goto
<1>4. /\ Fit(u, {}) /\ u.susp = 1 /\ u.current = k.current /\ u.prio = k.prio /\ u.ready = k.ready
      /\ u.delayed = k.delayed /\ u.overflowed = k.overflowed /\ u.wake = k.wake
      /\ u.pending = k.pending /\ u.terminating = k.terminating /\ u.free = k.free
      /\ u.tick = k.tick /\ u.overflows = k.overflows
  BY <1>1, <1>2, SuspendAllFacts
<1> HIDE DEF u
<1>5. OnTime(u, due)
  BY <1>2, <1>4 DEF OnTime
<1>6. e = [due EXCEPT ![t] = Later(Clock(u), Minus(wake, u.tick))]
  BY <1>4 DEF Clock
<1>7. /\ t # Idle /\ Fit(u, {}) /\ OnTime(u, due) /\ due \in [Task -> 0..2*TickMod-1]
      /\ t \notin u.free \cup ToSet(u.terminating) /\ wake # u.tick /\ Minus(wake, u.tick) <= n
  BY <1>1, <1>2, <1>4, <1>5
<1> HIDE DEF e
<1>8. /\ Fit(r, {}) /\ r.terminating = u.terminating /\ r.pending = u.pending
      /\ r.current = u.current /\ r.susp = u.susp
      /\ OnTime(r, [due EXCEPT ![t] = Later(Clock(u), Minus(wake, u.tick))])
  BY <1>7, DelayTaskFit, Zenon
<1>9. e \in [Task -> 0..2*TickMod-1]
  <2>1. TickMod \in Nat /\ 2 * TickMod \in Nat \ {0} /\ OverflowMod \in Nat
    BY TickModAssumption, SchedAssumption
  <2>2. k.overflows \in Nat /\ k.tick \in portTickType
    BY <1>1, <2>1 DEF Kernel
  <2>3. k.overflows % 2 \in {0, 1}
    BY <2>2, Mod2
  <2>4. Minus(wake, k.tick) \in Nat
    <3>1. Minus(wake, k.tick) \in portTickType
      BY <2>2, WrappedSum
    <3>2. QED
      BY <2>1, <3>1 DEF portTickType
  <2>5. Clock(k) + Minus(wake, k.tick) \in Nat
    <3>1. k.tick \in Nat
      BY <2>2 DEF portTickType
    <3>2. QED
      BY <2>1, <2>3, <2>4, <3>1 DEF Clock
  <2>6. Later(Clock(k), Minus(wake, k.tick)) \in 0..2*TickMod-1
    BY <2>1, <2>5, ModType, Zenon DEF Later
  <2>7. QED
    BY <1>2, <2>6 DEF e
<1>10. k' = r /\ due' = e
  BY DEF u, e
<1> HIDE DEF r
<1>11. Good(r, pc', e)
  BY <1>1, <1>2, <1>3, <1>4, <1>6, <1>8, <1>9, IdleIsTask DEF Good, Locking
<1>12. QED
  BY <1>10, <1>11, Zenon

-----------------------------------------------------------------------------

\* vTaskDelay keeps the invariant.
LEMMA DelayKeeps == ASSUME IInv, NEW t \in Task, NEW n \in Delays, vTaskDelay(t, n) PROVE IInv'
<1>1. /\ k \in Kernel /\ k.current = t /\ pc[t] = "app" /\ t # Idle /\ k.susp = 0
      /\ \A x \in Task : pc[x] \notin Locking
      /\ Chosen(k) /\ t \in ToSet(k.ready[k.prio[t]]) /\ k.prio[t] \in Priority
      /\ t \notin k.free \cup ToSet(k.terminating)
  BY CallerFacts DEF vTaskDelay
<1>2. /\ pc \in [Task -> Places] /\ due \in [Task -> 0..2*TickMod-1]
      /\ Fit(k, {}) /\ OnTime(k, due) /\ ToSet(k.pending) = {}
      /\ pc[Idle] = "free" => ToSet(k.terminating) # {}
      /\ lastWake' = lastWake /\ lastWake \in [Task -> portTickType]
  BY DEF IInv, Good, vTaskDelay
<1>3. CASE n = 0
  <2>1. k' = k /\ due' = due /\ pc' = [pc EXCEPT ![t] = "yield"]
    BY <1>3 DEF vTaskDelay, Goto
  <2>2. pc' \in [Task -> Places] /\ pc'[t] = "yield" /\ \A x \in Task \ {t} : pc'[x] = pc[x]
    BY <1>2, <2>1 DEF Places
  <2>3. QED
    BY <1>1, <1>2, <2>1, <2>2, IdleIsTask DEF IInv, Good, Locking
<1>4. CASE n # 0
  <2> DEFINE wake == Plus(k.tick, n)
  <2>1. n \in portTickType /\ k.tick \in portTickType /\ n # 0
    BY <1>1, <1>4, SchedAssumption DEF Kernel
  <2>2. wake \in portTickType /\ Minus(wake, k.tick) = n /\ (wake = k.tick + n \/ wake = k.tick + n - TickMod)
    BY <2>1, WrappedSum
  <2>3. TickMod \in Nat /\ n \in 0..TickMod-1 /\ k.tick \in 0..TickMod-1
    BY <2>1, TickModAssumption DEF portTickType
  <2>4. Calling(t, "vTaskDelay") /\ k' = DelayTask(vTaskSuspendAll(k), t, wake) /\ Goto(t, "resume")
        /\ due' = [due EXCEPT ![t] = Later(Clock(k), Minus(wake, k.tick))]
    BY <1>4, <2>2 DEF vTaskDelay
  <2> HIDE DEF wake
  <2>5. wake # k.tick /\ Minus(wake, k.tick) <= n
    BY <2>1, <2>2, <2>3
  <2>6. Good(k', pc', due')
    BY <2>2, <2>4, <2>5, BlockKeeps, Zenon
  <2>7. QED
    BY <1>2, <2>6 DEF IInv
<1>5. QED
  BY <1>3, <1>4

\* vTaskDelayUntil keeps the invariant, whether it delays or not.
LEMMA DelayUntilKeeps ==
  ASSUME IInv, NEW t \in Task, NEW n \in Delays, vTaskDelayUntil(t, n)
  PROVE  IInv'
<1> DEFINE wake == Plus(lastWake[t], n)
<1>1. Calling(t, "vTaskDelayUntil") /\ lastWake' = [lastWake EXCEPT ![t] = wake] /\ Goto(t, "resume")
  BY DEF vTaskDelayUntil
<1>2. /\ k \in Kernel /\ k.current = t /\ pc[t] = "app" /\ t # Idle /\ k.susp = 0
      /\ \A x \in Task : pc[x] \notin Locking
      /\ Chosen(k) /\ t \in ToSet(k.ready[k.prio[t]]) /\ k.prio[t] \in Priority
      /\ t \notin k.free \cup ToSet(k.terminating)
  BY <1>1, CallerFacts
<1>3. /\ pc \in [Task -> Places] /\ due \in [Task -> 0..2*TickMod-1]
      /\ Fit(k, {}) /\ OnTime(k, due) /\ ToSet(k.pending) = {}
      /\ pc[Idle] = "free" => ToSet(k.terminating) # {}
      /\ lastWake \in [Task -> portTickType]
  BY DEF IInv, Good
<1>4. n \in portTickType /\ k.tick \in portTickType /\ lastWake[t] \in portTickType
  BY <1>2, <1>3, SchedAssumption DEF Kernel
<1>5. wake \in portTickType /\ lastWake' \in [Task -> portTickType]
  <2>1. wake \in portTickType
    BY <1>4, WrappedSum
  <2>2. QED
    BY <1>1, <1>3, <2>1
<1>6. CASE xShouldDelay(lastWake[t], n, k.tick)
  <2>1. /\ k' = DelayTask(vTaskSuspendAll(k), t, wake)
        /\ due' = [due EXCEPT ![t] = Later(Clock(k), Minus(wake, k.tick))]
    BY <1>6 DEF vTaskDelayUntil
  <2>2. Minus(wake, k.tick) \in 1..n
    BY <1>4, <1>6, DelayUntilNeverLong
  <2> HIDE DEF wake
  <2>3. wake # k.tick /\ Minus(wake, k.tick) <= n
    <3>1. k.tick \in Nat /\ n \in Nat
      BY <1>4 DEF portTickType
    <3>2. QED
      BY <2>2, <3>1 DEF Minus
  <2>4. Good(k', pc', due')
    BY <1>1, <1>5, <2>1, <2>3, BlockKeeps, Zenon
  <2>5. QED
    BY <1>5, <2>4 DEF IInv
<1>7. CASE ~xShouldDelay(lastWake[t], n, k.tick)
  <2> DEFINE u == vTaskSuspendAll(k)
  <2>1. k' = u /\ due' = due
    BY <1>7 DEF vTaskDelayUntil
  <2>2. /\ Fit(u, {}) /\ u.susp = 1 /\ u.current = k.current /\ u.prio = k.prio /\ u.ready = k.ready
        /\ u.delayed = k.delayed /\ u.overflowed = k.overflowed /\ u.wake = k.wake
        /\ u.pending = k.pending /\ u.terminating = k.terminating /\ u.free = k.free
        /\ u.tick = k.tick /\ u.overflows = k.overflows
    BY <1>2, <1>3, SuspendAllFacts
  <2> HIDE DEF u
  <2>3. OnTime(u, due)
    BY <1>3, <2>2 DEF OnTime
  <2>4. pc' \in [Task -> Places] /\ pc'[t] = "resume" /\ \A x \in Task \ {t} : pc'[x] = pc[x]
    BY <1>1, <1>3 DEF Places, Goto
  <2>5. Good(u, pc', due)
    BY <1>2, <1>3, <2>2, <2>3, <2>4, IdleIsTask DEF Good, Locking
  <2>6. QED
    BY <1>5, <2>1, <2>5 DEF IInv
<1>8. QED
  BY <1>6, <1>7

\* After a call task t goes on, or has to yield.
LEMMA CallReturns ==
  ASSUME IInv, NEW t \in Task, NEW call, Calling(t, call), KeepDue, lastWake' \in [Task -> portTickType],
         Fit(k', {}), OnTime(k', due), ToSet(k'.pending) = {}, k'.susp = 0,
         ToSet(k.terminating) \subseteq ToSet(k'.terminating),
         pc' \in [Task -> Places], \A x \in Task : pc'[x] = pc[x] \/ pc'[x] \in {"app", "yield"},
         pc'[k'.current] # "yield" => Chosen(k')
  PROVE  IInv'
<1>1. k.susp = 0 /\ \A x \in Task : pc[x] \notin Locking
  BY CallerFacts
<1>2. due \in [Task -> 0..2*TickMod-1] /\ (pc[Idle] = "free" => ToSet(k.terminating) # {})
  BY DEF IInv, Good
<1>3. due' \in [Task -> 0..2*TickMod-1] /\ OnTime(k', due')
  BY <1>2, KeepDueFacts
<1>4. \A x \in Task : pc'[x] \notin Locking
  BY <1>1 DEF Locking
<1>5. pc'[Idle] = "free" => pc[Idle] = "free"
  BY IdleIsTask
<1>6. k'.current \in Task
  BY DEF Fit, Kernel
<1>7. QED
  BY <1>2, <1>3, <1>4, <1>5, <1>6 DEF IInv, Good

\* Task x has left all its lists in j but for the one of suspended or of deleted
\* tasks.
Gone(j, r, x) ==
    /\ Fit(r, {}) /\ ToSet(j.terminating) \subseteq ToSet(r.terminating)
    /\ \A p \in Priority : ToSet(r.ready[p]) = ToSet(j.ready[p]) \ {x}
    /\ ToSet(r.delayed) = ToSet(j.delayed) \ {x} /\ ToSet(r.overflowed) = ToSet(j.overflowed) \ {x}
    /\ ToSet(r.pending) = ToSet(j.pending) \ {x} /\ r.suspended \ {x} = j.suspended \ {x}
    /\ \A l \in EventList : /\ ToSet(r.event[l]) = ToSet(j.event[l]) \ {x}
                            /\ NoDup(j.event[l]) => NoDup(r.event[l])
                            /\ \A R : Ordered(j.event[l], R) => Ordered(r.event[l], R)
    /\ r.current = j.current /\ r.susp = j.susp /\ r.tick = j.tick /\ r.overflows = j.overflows
    /\ r.prio = j.prio /\ r.base = j.base /\ r.item = j.item
    /\ \A d : OnTime(j, d) => OnTime(r, d)

\* What vListRemove of both items of task x leaves of the other globals.
LEMMA RemoveBoth ==
  ASSUME NEW j, j \in Kernel, NEW x
  PROVE  LET g == RemoveEvent(RemoveGeneric(j, {x}), {x})
         IN /\ \A l \in EventList : /\ ToSet(g.event[l]) = ToSet(j.event[l]) \ {x}
                                    /\ NoDup(j.event[l]) => NoDup(g.event[l])
                                    /\ \A R : Ordered(j.event[l], R) => Ordered(g.event[l], R)
            /\ g.tick = j.tick /\ g.overflows = j.overflows /\ g.base = j.base /\ g.item = j.item
<1> DEFINE S == {x}
           u == RemoveGeneric(j, S)
           g == RemoveEvent(u, S)
<1>0. u \in Kernel
  BY RemoveGenericType
<1>1. /\ u \in Kernel /\ u.event = j.event /\ u.base = j.base /\ u.item = j.item
      /\ u.tick = j.tick /\ u.overflows = j.overflows
  BY <1>0, Zenon DEF RemoveGeneric, RemoveReady, Kernel
<1> HIDE DEF u
<1>2. /\ g.event = [l \in EventList |-> Without(u.event[l], S)] /\ g.base = u.base /\ g.item = u.item
      /\ g.tick = u.tick /\ g.overflows = u.overflows
  BY <1>1, RemoveEventFields
<1> HIDE DEF g, S
<1>3. \A l \in EventList : /\ ToSet(g.event[l]) = ToSet(j.event[l]) \ S
                           /\ NoDup(j.event[l]) => NoDup(g.event[l])
                           /\ \A R : Ordered(j.event[l], R) => Ordered(g.event[l], R)
  <2> SUFFICES ASSUME NEW l \in EventList
               PROVE  /\ ToSet(g.event[l]) = ToSet(j.event[l]) \ S
                      /\ NoDup(j.event[l]) => NoDup(g.event[l])
                      /\ \A R : Ordered(j.event[l], R) => Ordered(g.event[l], R)
    OBVIOUS
  <2>1. g.event[l] = Without(j.event[l], S) /\ j.event[l] \in Seq(Task)
    BY <1>1, <1>2 DEF Kernel
  <2>2. QED
    BY <2>1, WithoutFacts
<1>4. QED
  BY <1>1, <1>2, <1>3, Zenon DEF g, u, S

\* vTaskSuspend puts a task on the suspended list.
LEMMA SuspendGone ==
  ASSUME NEW j, NEW x \in Task, x # Idle, Fit(j, {}), x \notin ToSet(j.terminating), x \notin j.free
  PROVE  Gone(j, [RemoveEvent(RemoveGeneric(j, {x}), {x}) EXCEPT !.suspended = @ \cup {x}], x)
<1> DEFINE g == RemoveEvent(RemoveGeneric(j, {x}), {x})
           r == [g EXCEPT !.suspended = @ \cup {x}]
<1>0. j \in Kernel
  BY DEF Fit
<1>1. /\ \A l \in EventList : /\ ToSet(g.event[l]) = ToSet(j.event[l]) \ {x}
                              /\ NoDup(j.event[l]) => NoDup(g.event[l])
                              /\ \A R : Ordered(j.event[l], R) => Ordered(g.event[l], R)
      /\ g.tick = j.tick /\ g.overflows = j.overflows /\ g.base = j.base /\ g.item = j.item
  BY <1>0, RemoveBoth, Zenon
<1>5. /\ Fit(g, {x}) /\ g.terminating = j.terminating
      /\ \A p \in Priority : ToSet(g.ready[p]) = ToSet(j.ready[p]) \ {x}
      /\ ToSet(g.delayed) = ToSet(j.delayed) \ {x}
      /\ ToSet(g.overflowed) = ToSet(j.overflowed) \ {x}
      /\ ToSet(g.pending) = ToSet(j.pending) \ {x}
      /\ g.suspended = j.suspended \ {x} /\ g.free = j.free
      /\ g.susp = j.susp /\ g.current = j.current /\ g.prio = j.prio
      /\ \A d : OnTime(j, d) => OnTime(g, d)
  BY RemoveFit, Zenon
<1> HIDE DEF g
<1>6. g \in Kernel
  BY <1>5 DEF Fit
<1>7. /\ r \in Kernel /\ r.suspended = g.suspended \cup {x} /\ r.susp = g.susp /\ r.current = g.current
      /\ r.prio = g.prio /\ r.ready = g.ready /\ r.delayed = g.delayed /\ r.overflowed = g.overflowed
      /\ r.pending = g.pending /\ r.terminating = g.terminating
      /\ r.deleted = g.deleted /\ r.free = g.free /\ r.wake = g.wake /\ r.tick = g.tick
      /\ r.overflows = g.overflows /\ r.top = g.top
      /\ r.event = g.event /\ r.base = g.base /\ r.item = g.item
  BY <1>6, Zenon DEF Kernel
<1> HIDE DEF r
<1>8. Fit(r, {})
  <2>1. NoDups(r)
    BY <1>5, <1>7 DEF Fit, Placed, NoDups
  <2>2. ASSUME NEW y \in Task
        PROVE  OnePlace(r, y) /\ \A p \in Priority : y \in ToSet(r.ready[p]) => r.prio[y] = p
    <3>1. CASE y = x
      BY <1>5, <1>7, <3>1 DEF OnePlace, IsReady
    <3>2. CASE y # x
      <4>1. OnePlace(g, y) /\ \A p \in Priority : y \in ToSet(g.ready[p]) => g.prio[y] = p
        BY <1>5, <3>2 DEF Fit, Placed
      <4>2. OnePlace(r, y)
        BY <1>7, <3>2, <4>1 DEF OnePlace, IsReady
      <4>3. QED
        BY <1>7, <4>1, <4>2
    <3>3. QED
      BY <3>1, <3>2
  <2>3. QED
    BY <1>5, <1>7, <2>1, <2>2 DEF Fit, Placed, TopCovers
<1>9. ASSUME NEW d, OnTime(j, d) PROVE OnTime(r, d)
  BY <1>5, <1>7, <1>9 DEF OnTime
<1>10. Gone(j, r, x)
  BY <1>1, <1>5, <1>7, <1>8, <1>9 DEF Gone
<1>11. QED
  BY <1>10 DEF g, r

\* vTaskDelete puts a task on the list of those that wait for their termination.
LEMMA DeleteGone ==
  ASSUME NEW j, NEW x \in Task, x # Idle, Fit(j, {}), x \notin ToSet(j.terminating), x \notin j.free
  PROVE  Gone(j, [RemoveEvent(RemoveGeneric(j, {x}), {x}) EXCEPT !.terminating = Append(@, x), !.deleted = @ + 1], x)
<1> DEFINE g == RemoveEvent(RemoveGeneric(j, {x}), {x})
           r == [g EXCEPT !.terminating = Append(@, x), !.deleted = @ + 1]
<1>0. j \in Kernel
  BY DEF Fit
<1>1. /\ \A l \in EventList : /\ ToSet(g.event[l]) = ToSet(j.event[l]) \ {x}
                              /\ NoDup(j.event[l]) => NoDup(g.event[l])
                              /\ \A R : Ordered(j.event[l], R) => Ordered(g.event[l], R)
      /\ g.tick = j.tick /\ g.overflows = j.overflows /\ g.base = j.base /\ g.item = j.item
  BY <1>0, RemoveBoth, Zenon
<1>5. /\ Fit(g, {x}) /\ g.terminating = j.terminating
      /\ \A p \in Priority : ToSet(g.ready[p]) = ToSet(j.ready[p]) \ {x}
      /\ ToSet(g.delayed) = ToSet(j.delayed) \ {x}
      /\ ToSet(g.overflowed) = ToSet(j.overflowed) \ {x}
      /\ ToSet(g.pending) = ToSet(j.pending) \ {x}
      /\ g.suspended = j.suspended \ {x} /\ g.free = j.free
      /\ g.susp = j.susp /\ g.current = j.current /\ g.prio = j.prio
      /\ \A d : OnTime(j, d) => OnTime(g, d)
  BY RemoveFit, Zenon
<1> HIDE DEF g
<1> DEFINE z == Append(g.terminating, x)
<1>6. /\ g \in Kernel /\ g.deleted = Len(g.terminating) /\ g.deleted \in Nat
      /\ g.terminating \in Seq(Task) /\ NoDup(g.terminating)
  BY <1>5, Zenon DEF Fit, Kernel, Placed, NoDups
<1>7. z \in Seq(Task) /\ ToSet(z) = ToSet(g.terminating) \cup {x} /\ NoDup(z) /\ Len(z) = g.deleted + 1
  BY <1>5, <1>6, AppendFacts, AppendLen
<1>8. r = [g EXCEPT !.terminating = z, !.deleted = g.deleted + 1]
  BY <1>6 DEF Kernel
<1> HIDE DEF z, r
<1>9. /\ r \in Kernel /\ r.terminating = z /\ r.deleted = g.deleted + 1 /\ r.suspended = g.suspended
      /\ r.susp = g.susp /\ r.current = g.current
      /\ r.prio = g.prio /\ r.ready = g.ready /\ r.delayed = g.delayed /\ r.overflowed = g.overflowed
      /\ r.pending = g.pending /\ r.free = g.free /\ r.wake = g.wake /\ r.tick = g.tick
      /\ r.overflows = g.overflows /\ r.top = g.top
      /\ r.event = g.event /\ r.base = g.base /\ r.item = g.item
  <2>1. [g EXCEPT !.terminating = z] \in Kernel
    BY <1>6, <1>7, Zenon DEF Kernel
  <2>2. r = [[g EXCEPT !.terminating = z] EXCEPT !.deleted = g.deleted + 1] /\ g.deleted + 1 \in Nat
    BY <1>6, <1>8 DEF Kernel
  <2>3. r \in Kernel
    BY <2>1, <2>2, Zenon DEF Kernel
  <2>4. QED
    BY ZenonT(60), <1>6, <1>8, <2>3 DEF Kernel
<1>10. Fit(r, {})
  <2>1. NoDups(r)
    BY <1>5, <1>7, <1>9 DEF Fit, Placed, NoDups
  <2>2. ASSUME NEW y \in Task
        PROVE  OnePlace(r, y) /\ \A p \in Priority : y \in ToSet(r.ready[p]) => r.prio[y] = p
    <3>1. CASE y = x
      BY ZenonT(60), <1>5, <1>7, <1>9, <3>1 DEF OnePlace, IsReady
    <3>2. CASE y # x
      <4>1. OnePlace(g, y) /\ \A p \in Priority : y \in ToSet(g.ready[p]) => g.prio[y] = p
        BY <1>5, <3>2 DEF Fit, Placed
      <4>2. OnePlace(r, y)
        BY <1>7, <1>9, <3>2, <4>1 DEF OnePlace, IsReady
      <4>3. QED
        BY <1>9, <4>1, <4>2
    <3>3. QED
      BY <3>1, <3>2
  <2>3. QED
    BY <1>5, <1>6, <1>7, <1>9, <2>1, <2>2 DEF Fit, Placed, TopCovers
<1>11. ASSUME NEW d, OnTime(j, d) PROVE OnTime(r, d)
  BY <1>5, <1>9, <1>11 DEF OnTime
<1>12. Gone(j, r, x)
  BY <1>1, <1>5, <1>7, <1>9, <1>10, <1>11, Zenon DEF Gone
<1>13. QED
  BY <1>12 DEF g, r

\* A task of which the caller may be another one leaves its lists.
LEMMA GoneKeeps ==
  ASSUME IInv, NEW t \in Task, NEW call, Calling(t, call), NEW x \in Task, x # Idle, Gone(k, k', x),
         Goto(t, IF x = t THEN "yield" ELSE "app"), KeepDue, lastWake' = lastWake
  PROVE  IInv'
<1>2. /\ k \in Kernel /\ k.current = t /\ pc[t] = "app" /\ t # Idle /\ k.susp = 0
      /\ \A y \in Task : pc[y] \notin Locking
      /\ Chosen(k) /\ t \in ToSet(k.ready[k.prio[t]]) /\ k.prio[t] \in Priority
      /\ t \notin k.free \cup ToSet(k.terminating)
  BY CallerFacts
<1>3. /\ pc \in [Task -> Places] /\ Fit(k, {}) /\ OnTime(k, due) /\ ToSet(k.pending) = {}
      /\ lastWake \in [Task -> portTickType]
  BY DEF IInv, Good
<1>4. /\ Fit(k', {}) /\ ToSet(k.terminating) \subseteq ToSet(k'.terminating)
      /\ \A p \in Priority : ToSet(k'.ready[p]) = ToSet(k.ready[p]) \ {x}
      /\ ToSet(k'.pending) = ToSet(k.pending) \ {x}
      /\ k'.current = k.current /\ k'.susp = k.susp /\ k'.prio = k.prio
      /\ OnTime(k', due) /\ k' \in Kernel
  BY <1>3, Zenon DEF Gone, Fit
<1>5. x # t => Chosen(k')
  <2> SUFFICES ASSUME x # t PROVE Chosen(k')
    OBVIOUS
  <2>1. t \in ToSet(k'.ready[k.prio[t]])
    BY <1>2, <1>4
  <2>2. \A p \in Priority : ToSet(k'.ready[p]) \subseteq ToSet(k.ready[p])
    BY <1>4
  <2>3. k.prio[t] >= k.prio[t]
    BY <1>2, PriorityFacts
  <2>4. QED
    BY <1>2, <1>4, <2>1, <2>2, <2>3, ChosenKept
<1>6. /\ pc' \in [Task -> Places] /\ pc'[t] = (IF x = t THEN "yield" ELSE "app")
      /\ \A y \in Task : pc'[y] = pc[y] \/ pc'[y] \in {"app", "yield"}
  BY <1>3 DEF Places, Goto
<1>7. QED
  BY <1>2, <1>3, <1>4, <1>5, <1>6, CallReturns

\* vTaskSuspend keeps the invariant, of the caller and of another task.
LEMMA SuspendKeeps ==
  ASSUME IInv, NEW t \in Task, NEW x \in Task, vTaskSuspend(t, x)
  PROVE  IInv'
<1>1. /\ Calling(t, "vTaskSuspend") /\ x # Idle /\ x \notin k.free /\ x \notin ToSet(k.terminating)
      /\ k' = [RemoveEvent(RemoveGeneric(k, {x}), {x}) EXCEPT !.suspended = @ \cup {x}]
      /\ Goto(t, IF x = t THEN "yield" ELSE "app") /\ KeepDue /\ lastWake' = lastWake
  BY DEF vTaskSuspend, Alive
<1>2. Gone(k, k', x)
  BY <1>1, SuspendGone, Zenon DEF IInv, Good
<1>3. QED
  BY <1>1, <1>2, GoneKeeps, Zenon

\* vTaskDelete keeps the invariant, of the caller and of another task.
LEMMA DeleteKeeps ==
  ASSUME IInv, NEW t \in Task, NEW x \in Task, vTaskDelete(t, x)
  PROVE  IInv'
<1>1. /\ Calling(t, "vTaskDelete") /\ x # Idle /\ x \notin k.free /\ x \notin ToSet(k.terminating)
      /\ k' = [RemoveEvent(RemoveGeneric(k, {x}), {x}) EXCEPT !.terminating = Append(@, x), !.deleted = @ + 1]
      /\ Goto(t, IF x = t THEN "yield" ELSE "app") /\ KeepDue /\ lastWake' = lastWake
  BY DEF vTaskDelete, Alive
<1>2. Gone(k, k', x)
  BY <1>1, DeleteGone, Zenon DEF IInv, Good
<1>3. QED
  BY <1>1, <1>2, GoneKeeps

\* One task is made ready, then perhaps the switch.
LEMMA ReadyOne ==
  ASSUME NEW j, NEW x \in Task, x # Idle, Fit(j, {x}), x \notin j.free \cup ToSet(j.terminating)
  PROVE  LET r == MakeReady(j, <<x>>)
         IN /\ Fit(r, {}) /\ r.terminating = j.terminating
            /\ ToSet(r.pending) = ToSet(j.pending) \ {x}
            /\ \A d : OnTime(j, d) => OnTime(r, d)
            /\ \A p \in Priority : ToSet(r.ready[p]) = (ToSet(j.ready[p]) \ {x}) \cup {t \in {x} : j.prio[t] = p}
            /\ r.current = j.current /\ r.prio = j.prio /\ r.susp = j.susp
<1> DEFINE s == <<x>>
           S == ToSet(s)
           r == MakeReady(j, s)
<1>1. s \in Seq(Task) /\ S = {x} /\ NoDup(s)
  BY OneFacts
<1> HIDE DEF s
<1>2. Fit(j, S) /\ Idle \notin S /\ S \cap j.free = {} /\ S \cap ToSet(j.terminating) = {}
  BY <1>1
<1>3. /\ Fit(r, {}) /\ r.terminating = j.terminating
      /\ ToSet(r.pending) = ToSet(j.pending) \ S
      /\ \A d : OnTime(j, d) => OnTime(r, d)
  BY <1>1, <1>2, MakeReadyFit, Zenon
<1>4. j \in Kernel
  BY DEF Fit
<1>5. \A p \in Priority : ToSet(r.ready[p]) = (ToSet(j.ready[p]) \ S) \cup {t \in S : j.prio[t] = p}
  BY <1>1, <1>4, MakeReadyMembers
<1>6. r.current = j.current /\ r.prio = j.prio /\ r.susp = j.susp
  BY <1>1, <1>4, MakeReadyFields, Zenon
<1> HIDE DEF r, S
<1>7. /\ Fit(r, {}) /\ r.terminating = j.terminating
      /\ ToSet(r.pending) = ToSet(j.pending) \ {x}
      /\ \A d : OnTime(j, d) => OnTime(r, d)
      /\ \A p \in Priority : ToSet(r.ready[p]) = (ToSet(j.ready[p]) \ {x}) \cup {t \in {x} : j.prio[t] = p}
      /\ r.current = j.current /\ r.prio = j.prio /\ r.susp = j.susp
  BY <1>1, <1>3, <1>5, <1>6
<1>8. QED
  BY <1>7 DEF r, s

\* vTaskSwitchContext delays nobody.
LEMMA SwitchOnTime ==
  ASSUME NEW j, NEW d, Fit(j, {}), j.susp = 0, OnTime(j, d)
  PROVE  LET r == vTaskSwitchContext(j)
         IN /\ Fit(r, {}) /\ Chosen(r) /\ OnTime(r, d)
            /\ r.terminating = j.terminating /\ r.pending = j.pending /\ r.susp = 0
<1> DEFINE r == vTaskSwitchContext(j)
<1>1. /\ Fit(r, {}) /\ Chosen(r)
      /\ r.terminating = j.terminating /\ r.pending = j.pending /\ r.susp = 0
      /\ r.tick = j.tick /\ r.overflows = j.overflows /\ r.wake = j.wake
      /\ r.delayed = j.delayed /\ r.overflowed = j.overflowed
  BY SwitchFacts
<1> HIDE DEF r
<1>2. OnTime(r, d)
  BY <1>1 DEF OnTime
<1>3. QED
  BY <1>1, <1>2 DEF r

\* vTaskResume keeps the invariant, with and without a yield.
LEMMA ResumeKeeps ==
  ASSUME IInv, NEW t \in Task, NEW x \in Task, vTaskResume(t, x)
  PROVE  IInv'
<1> DEFINE r == MakeReady(k, <<x>>)
           w == vTaskSwitchContext(r)
<1>1. /\ Calling(t, "vTaskResume") /\ x # t /\ x \in k.suspended
      /\ k' = IF k.prio[x] >= k.prio[t] THEN w ELSE r
      /\ KeepDue /\ pc' = pc /\ lastWake' = lastWake
  BY DEF vTaskResume, xTaskIsTaskSuspended
<1>2. /\ k \in Kernel /\ k.current = t /\ pc[t] = "app" /\ t # Idle /\ k.susp = 0
      /\ \A y \in Task : pc[y] \notin Locking
      /\ Chosen(k) /\ t \in ToSet(k.ready[k.prio[t]]) /\ k.prio[t] \in Priority
      /\ t \notin k.free \cup ToSet(k.terminating)
  BY <1>1, CallerFacts
<1>3. /\ pc \in [Task -> Places] /\ Fit(k, {}) /\ Fit(k, {x}) /\ OnTime(k, due) /\ ToSet(k.pending) = {}
      /\ lastWake \in [Task -> portTickType]
  BY DEF IInv, Good, Fit, Placed
<1>4. x # Idle /\ x \notin k.free \cup ToSet(k.terminating)
  <2>1. OnePlace(k, x) /\ Idle \in ToSet(k.ready[0])
    BY <1>3 DEF Fit, Placed
  <2>2. QED
    BY <1>1, <2>1, PriorityFacts DEF OnePlace, IsReady
<1>5. /\ Fit(r, {}) /\ r.terminating = k.terminating
      /\ ToSet(r.pending) = ToSet(k.pending) \ {x}
      /\ \A d : OnTime(k, d) => OnTime(r, d)
      /\ \A p \in Priority : ToSet(r.ready[p]) = (ToSet(k.ready[p]) \ {x}) \cup {y \in {x} : k.prio[y] = p}
      /\ r.current = k.current /\ r.prio = k.prio /\ r.susp = k.susp
  BY <1>3, <1>4, ReadyOne
<1> HIDE DEF r
<1>6. /\ Fit(w, {}) /\ Chosen(w) /\ OnTime(w, due)
      /\ w.terminating = r.terminating /\ w.pending = r.pending /\ w.susp = 0
  BY <1>2, <1>3, <1>5, SwitchOnTime
<1> HIDE DEF w
<1>7. ~(k.prio[x] >= k.prio[t]) => Chosen(r)
  <2> SUFFICES ASSUME ~(k.prio[x] >= k.prio[t]) PROVE Chosen(r)
    OBVIOUS
  <2>1. r \in Kernel /\ k.prio[x] \in Priority
    BY <1>2, <1>5, Zenon DEF Fit, Kernel
  <2>2. t \in ToSet(r.ready[k.prio[t]])
    BY <1>1, <1>2, <1>5
  <2>3. ASSUME NEW p \in Priority, p > k.prio[t] PROVE ToSet(r.ready[p]) \subseteq ToSet(k.ready[p])
    <3>1. k.prio[x] # p
      BY <1>2, <2>1, <2>3, PriorityFacts
    <3>2. QED
      BY <1>5, <3>1
  <2>4. k.prio[t] >= k.prio[t]
    BY <1>2, PriorityFacts
  <2>5. QED
    BY <1>2, <1>5, <2>1, <2>2, <2>3, <2>4, ChosenKept, Zenon
<1>8. /\ Fit(k', {}) /\ OnTime(k', due) /\ k'.terminating = k.terminating /\ ToSet(k'.pending) = {}
      /\ k'.susp = 0 /\ Chosen(k')
  BY <1>1, <1>2, <1>3, <1>5, <1>6, <1>7
<1>9. QED
  BY <1>1, <1>2, <1>3, <1>8, CallReturns

\* xTaskCreate keeps the invariant: the memory of the new task was free.
LEMMA CreateKeeps ==
  ASSUME IInv, NEW t \in Task, NEW x \in Task \ {Idle}, NEW p \in NewPriorities, xTaskCreate(t, x, p)
  PROVE  IInv'
<1> DEFINE c == Clip(p)
           u == prvInitialiseTCBVariables(prvAllocateTCBAndStack(k, x), x, p)
           r == MakeReady(u, <<x>>)
<1>1. /\ Calling(t, "xTaskCreate") /\ x \in k.free /\ k' = r
      /\ pc' = [pc EXCEPT ![x] = "app", ![t] = IF k.prio[t] < p THEN "yield" ELSE "app"]
      /\ lastWake' = [lastWake EXCEPT ![x] = 0] /\ KeepDue
  BY DEF xTaskCreate
<1>2. /\ k \in Kernel /\ k.current = t /\ pc[t] = "app" /\ t # Idle /\ k.susp = 0
      /\ \A y \in Task : pc[y] \notin Locking
      /\ Chosen(k) /\ t \in ToSet(k.ready[k.prio[t]]) /\ k.prio[t] \in Priority
      /\ t \notin k.free \cup ToSet(k.terminating)
  BY <1>1, CallerFacts
<1>3. /\ pc \in [Task -> Places] /\ Fit(k, {}) /\ OnTime(k, due) /\ ToSet(k.pending) = {}
      /\ lastWake \in [Task -> portTickType]
  BY DEF IInv, Good
<1>4. p \in Nat /\ c \in Priority /\ c <= p
  <2>1. p \in Nat
    BY SchedAssumption
  <2>2. QED
    BY <2>1, ClipFacts
<1> HIDE DEF c
<1>5. u = [k EXCEPT !.free = @ \ {x}, !.prio[x] = c, !.base[x] = c, !.item[x] = c]
  BY <1>2 DEF prvInitialiseTCBVariables, prvAllocateTCBAndStack, Kernel, c
<1> HIDE DEF u
<1>6. /\ u \in Kernel /\ u.free = k.free \ {x} /\ u.prio = [k.prio EXCEPT ![x] = c]
      /\ u.current = k.current /\ u.ready = k.ready /\ u.delayed = k.delayed /\ u.overflowed = k.overflowed
      /\ u.pending = k.pending /\ u.suspended = k.suspended /\ u.terminating = k.terminating
      /\ u.deleted = k.deleted /\ u.wake = k.wake /\ u.tick = k.tick
      /\ u.overflows = k.overflows /\ u.top = k.top /\ u.susp = k.susp
  <2> DEFINE f == k.free \ {x}
             a == [k.prio EXCEPT ![x] = c]
             b == [k.base EXCEPT ![x] = c]
             i == [k.item EXCEPT ![x] = c]
  <2>1. /\ f \in SUBSET Task /\ a \in [Task -> Priority] /\ b \in [Task -> Priority] /\ i \in [Task -> Priority]
    BY <1>2, <1>4, Zenon DEF Kernel
  <2>2. u = [[[[k EXCEPT !.free = f] EXCEPT !.prio = a] EXCEPT !.base = b] EXCEPT !.item = i]
    BY <1>2, <1>5 DEF Kernel
  <2> HIDE DEF f, a, b, i
  <2>3. u \in Kernel /\ u.free = f /\ u.prio = a
        /\ u.current = k.current /\ u.ready = k.ready /\ u.delayed = k.delayed /\ u.overflowed = k.overflowed
        /\ u.pending = k.pending /\ u.suspended = k.suspended /\ u.terminating = k.terminating
        /\ u.deleted = k.deleted /\ u.wake = k.wake /\ u.tick = k.tick
        /\ u.overflows = k.overflows /\ u.top = k.top /\ u.susp = k.susp
    BY ZenonT(60), <1>2, <2>1, <2>2 DEF Kernel
  <2>4. QED
    BY <2>3 DEF f, a
<1>7. OnePlace(k, x) /\ ~IsReady(k, x) /\ x \notin ToSet(k.terminating)
  <2>1. OnePlace(k, x)
    BY <1>3 DEF Fit, Placed
  <2>2. QED
    BY <1>1, <2>1 DEF OnePlace
<1>8. Fit(u, {x}) /\ OnTime(u, due)
  <2>1. ASSUME NEW y \in Task \ {x}
        PROVE  OnePlace(u, y) /\ \A q \in Priority : y \in ToSet(u.ready[q]) => u.prio[y] = q
    <3>1. OnePlace(k, y) /\ \A q \in Priority : y \in ToSet(k.ready[q]) => k.prio[y] = q
      BY <1>3 DEF Fit, Placed
    <3>2. u.prio[y] = k.prio[y]
      BY <1>2, <1>6 DEF Kernel
    <3>3. OnePlace(u, y)
      BY <1>6, <3>1 DEF OnePlace, IsReady
    <3>4. QED
      BY <1>6, <3>1, <3>2, <3>3
  <2>2. NoDups(u)
    BY <1>3, <1>6 DEF Fit, Placed, NoDups
  <2>3. QED
    BY <1>3, <1>6, <2>1, <2>2 DEF Fit, Placed, TopCovers, OnTime
<1>9. x \notin u.free \cup ToSet(u.terminating)
  BY <1>6, <1>7
<1>10. /\ Fit(r, {}) /\ r.terminating = u.terminating
       /\ ToSet(r.pending) = ToSet(u.pending) \ {x}
       /\ \A d : OnTime(u, d) => OnTime(r, d)
       /\ \A q \in Priority : ToSet(r.ready[q]) = (ToSet(u.ready[q]) \ {x}) \cup {y \in {x} : u.prio[y] = q}
       /\ r.current = u.current /\ r.prio = u.prio /\ r.susp = u.susp
  BY <1>8, <1>9, ReadyOne
<1> HIDE DEF r
<1>11. x # t
  BY <1>1, <1>2
<1>12. /\ pc' \in [Task -> Places] /\ pc'[t] = (IF k.prio[t] < p THEN "yield" ELSE "app")
       /\ \A y \in Task : pc'[y] = pc[y] \/ pc'[y] \in {"app", "yield"}
  BY <1>1, <1>3, <1>11 DEF Places
<1>13. ~(k.prio[t] < p) => Chosen(r)
  <2> SUFFICES ASSUME ~(k.prio[t] < p) PROVE Chosen(r)
    OBVIOUS
  <2>1. c <= k.prio[t] /\ r \in Kernel /\ k.prio[t] \in Nat /\ c \in Nat
    BY <1>2, <1>4, <1>10, PriorityFacts DEF Fit
  <2>2. u.prio[x] = c /\ r.prio[t] = k.prio[t]
    BY <1>2, <1>6, <1>10, <1>11 DEF Kernel
  <2>3. t \in ToSet(r.ready[k.prio[t]])
    BY <1>2, <1>6, <1>10, <1>11
  <2>4. ASSUME NEW q \in Priority, q > k.prio[t] PROVE ToSet(r.ready[q]) \subseteq ToSet(k.ready[q])
    <3>1. q # c
      BY <2>1, <2>4, PriorityFacts
    <3>2. QED
      BY <1>6, <1>10, <2>2, <3>1
  <2>5. r.current = t
    BY <1>2, <1>6, <1>10
  <2>6. QED
    BY <1>2, <2>1, <2>2, <2>3, <2>4, <2>5, ChosenKept
<1>14. lastWake' \in [Task -> portTickType]
  <2>1. 0 \in portTickType
    BY TickModAssumption DEF portTickType
  <2>2. QED
    BY <1>1, <1>3, <2>1
<1>15. /\ k' = r /\ OnTime(r, due) /\ ToSet(r.pending) = {} /\ r.susp = 0 /\ r.current = t
       /\ ToSet(k.terminating) \subseteq ToSet(r.terminating)
  BY <1>1, <1>2, <1>3, <1>6, <1>8, <1>10
<1>16. QED
  BY <1>1, <1>10, <1>12, <1>13, <1>14, <1>15, CallReturns

\* vTaskPrioritySet keeps the invariant: a ready task moves to the list of its new
\* priority, and the yield follows when the choice may have changed.
LEMMA PrioritySetKeeps ==
  ASSUME IInv, NEW t \in Task, NEW x \in Task \ {Idle}, NEW p \in NewPriorities, vTaskPrioritySet(t, x, p)
  PROVE  IInv'
<1> DEFINE new == Clip(p)
           old == k.base[x]
           set == [k EXCEPT !.prio[x] = IF @ = old THEN new ELSE @, !.base[x] = new, !.item[x] = new]
           j == IF x \in ToSet(k.ready[old]) THEN MakeReady(set, <<x>>) ELSE set
           yields == IF new > old THEN x # t ELSE x = t
           w == vTaskSwitchContext(j)
<1>1. /\ Calling(t, "vTaskPrioritySet") /\ Alive(x) /\ new # old
      /\ k' = IF yields THEN w ELSE j
      /\ KeepDue /\ pc' = pc /\ lastWake' = lastWake
  BY DEF vTaskPrioritySet
<1>2. /\ k \in Kernel /\ k.current = t /\ pc[t] = "app" /\ t # Idle /\ k.susp = 0
      /\ \A y \in Task : pc[y] \notin Locking
      /\ Chosen(k) /\ t \in ToSet(k.ready[k.prio[t]]) /\ k.prio[t] \in Priority
      /\ t \notin k.free \cup ToSet(k.terminating)
  BY <1>1, CallerFacts
<1>3. /\ pc \in [Task -> Places] /\ Fit(k, {}) /\ OnTime(k, due) /\ ToSet(k.pending) = {}
      /\ lastWake \in [Task -> portTickType]
  BY DEF IInv, Good
<1>4. new \in Priority /\ old \in Priority /\ k.prio[x] \in Priority
  <2>1. p \in Nat
    BY SchedAssumption
  <2>2. QED
    BY <1>2, <2>1, ClipFacts DEF Kernel
<1> DEFINE now == IF k.prio[x] = old THEN new ELSE k.prio[x]
           a == [k.prio EXCEPT ![x] = now]
           b == [k.base EXCEPT ![x] = new]
           i == [k.item EXCEPT ![x] = new]
<1>5. set = [[[k EXCEPT !.prio = a] EXCEPT !.base = b] EXCEPT !.item = i]
  BY <1>2 DEF Kernel
<1>6. a \in [Task -> Priority] /\ b \in [Task -> Priority] /\ i \in [Task -> Priority]
  BY <1>2, <1>4, Zenon DEF Kernel
<1>7. a[x] = now /\ \A y \in Task \ {x} : a[y] = k.prio[y]
  BY <1>2 DEF Kernel
<1> HIDE DEF new, old, set, a, b, i
<1>8. /\ set \in Kernel /\ set.prio = a /\ set.free = k.free
      /\ set.current = k.current /\ set.ready = k.ready /\ set.delayed = k.delayed /\ set.overflowed = k.overflowed
      /\ set.pending = k.pending /\ set.suspended = k.suspended /\ set.terminating = k.terminating
      /\ set.deleted = k.deleted /\ set.wake = k.wake /\ set.tick = k.tick
      /\ set.overflows = k.overflows /\ set.top = k.top /\ set.susp = k.susp
  BY ZenonT(60), <1>2, <1>5, <1>6 DEF Kernel
<1>9. OnTime(set, due)
  BY <1>3, <1>8 DEF OnTime
<1>10. x \notin set.free \cup ToSet(set.terminating)
  BY <1>1, <1>8 DEF Alive
<1>11. \A q \in Priority : x \in ToSet(k.ready[q]) => k.prio[x] = q
  BY <1>3 DEF Fit, Placed
<1>12. Fit(set, {x}) /\ (x \notin ToSet(k.ready[old]) => Fit(set, {}))
  <2>1. ASSUME NEW y \in Task, y # x \/ x \notin ToSet(k.ready[old])
        PROVE  OnePlace(set, y) /\ \A q \in Priority : y \in ToSet(set.ready[q]) => set.prio[y] = q
    <3>1. OnePlace(k, y) /\ \A q \in Priority : y \in ToSet(k.ready[q]) => k.prio[y] = q
      BY <1>3 DEF Fit, Placed
    <3>2. OnePlace(set, y)
      BY <1>8, <3>1 DEF OnePlace, IsReady
    <3>3. \A q \in Priority : y \in ToSet(set.ready[q]) => set.prio[y] = q
      BY <1>4, <1>7, <1>8, <2>1, <3>1
    <3>4. QED
      BY <3>2, <3>3
  <2>2. NoDups(set)
    BY <1>3, <1>8 DEF Fit, Placed, NoDups
  <2>3. QED
    BY <1>3, <1>8, <2>1, <2>2 DEF Fit, Placed, TopCovers
<1>13. k.current \in Task /\ t \in Task /\ MaxPriorities - 1 \in Nat /\ Priority = 0..MaxPriorities-1
  BY <1>2, PriorityFacts DEF Kernel
<1>14. ASSUME x \in ToSet(k.ready[old])
       PROVE  /\ Fit(j, {}) /\ OnTime(j, due) /\ j.terminating = k.terminating /\ ToSet(j.pending) = {} /\ j.susp = 0
              /\ ~yields => Chosen(j)
  <2> DEFINE r == MakeReady(set, <<x>>)
  <2>1. /\ Fit(r, {}) /\ r.terminating = set.terminating
        /\ ToSet(r.pending) = ToSet(set.pending) \ {x}
        /\ \A d : OnTime(set, d) => OnTime(r, d)
        /\ \A q \in Priority : ToSet(r.ready[q]) = (ToSet(set.ready[q]) \ {x}) \cup {y \in {x} : set.prio[y] = q}
        /\ r.current = set.current /\ r.prio = set.prio /\ r.susp = set.susp
    BY <1>10, <1>12, ReadyOne
  <2>2. j = r
    BY <1>14
  <2> HIDE DEF r
  <2>3. k.prio[x] = old /\ a[x] = new
    BY <1>4, <1>7, <1>11, <1>14
  <2>4. ASSUME ~yields PROVE Chosen(r)
    <3>1. r \in Kernel /\ r.current = t /\ r.prio = a
      BY <1>2, <1>8, <2>1 DEF Fit
    <3>2. CASE x = t
      <4>1. new > old
        BY <1>1, <1>4, <1>13, <2>4, <3>2
      <4>2. t \in ToSet(r.ready[new])
        BY <1>4, <1>8, <2>1, <2>3, <3>2
      <4>3. \A q \in Priority : q > new => ToSet(r.ready[q]) \subseteq ToSet(k.ready[q])
        BY <1>4, <1>8, <1>13, <2>1, <2>3
      <4>4. r.prio[t] = new /\ r.prio[t] >= k.prio[t]
        BY <1>4, <1>13, <2>3, <3>1, <3>2, <4>1
      <4>5. QED
        BY <1>2, <3>1, <4>2, <4>3, <4>4, ChosenKept
    <3>3. CASE x # t
      <4>1. new < old
        BY <1>1, <1>4, <1>13, <2>4, <3>3
      <4>2. ~(old > k.prio[t])
        <5>1. k.ready[old] \in Seq(Task) /\ k.ready[old] # <<>>
          BY <1>2, <1>4, <1>14, NotEmpty DEF Kernel
        <5>2. QED
          BY <1>2, <1>4, <5>1 DEF Chosen
      <4>3. new < k.prio[t]
        BY <1>2, <1>4, <1>13, <4>1, <4>2
      <4>4. r.prio[t] = k.prio[t] /\ r.prio[t] >= k.prio[t]
        BY <1>2, <1>7, <1>13, <3>1, <3>3
      <4>5. t \in ToSet(r.ready[k.prio[t]])
        BY <1>2, <1>8, <2>1, <3>3
      <4>6. ASSUME NEW q \in Priority, q > k.prio[t] PROVE ToSet(r.ready[q]) \subseteq ToSet(k.ready[q])
        <5>1. q # new
          BY <1>2, <1>4, <1>13, <4>3, <4>6
        <5>2. QED
          BY <1>8, <2>1, <2>3, <5>1
      <4>7. QED
        BY <1>2, <3>1, <4>4, <4>5, <4>6, ChosenKept
    <3>4. QED
      BY <3>2, <3>3
  <2> HIDE DEF j, yields
  <2>5. QED
    BY <1>2, <1>3, <1>8, <1>9, <2>1, <2>2, <2>4
<1>15. ASSUME x \notin ToSet(k.ready[old])
       PROVE  /\ Fit(j, {}) /\ OnTime(j, due) /\ j.terminating = k.terminating /\ ToSet(j.pending) = {} /\ j.susp = 0
              /\ ~yields => Chosen(j)
  <2>1. j = set
    BY <1>15
  <2>2. Chosen(set)
    <3>1. set.current = t /\ set.ready = k.ready
      BY <1>2, <1>8
    <3>2. set.prio[t] = k.prio[t]
      <4>1. CASE x = t
        BY <1>2, <1>7, <1>8, <1>15, <4>1
      <4>2. CASE x # t
        BY <1>7, <1>8, <1>13, <4>2
      <4>3. QED
        BY <4>1, <4>2
    <3>3. QED
      BY <1>2, <3>1, <3>2 DEF Chosen
  <2> HIDE DEF j, yields
  <2>3. QED
    BY <1>2, <1>3, <1>8, <1>9, <1>12, <1>15, <2>1, <2>2
<1>16. /\ Fit(j, {}) /\ OnTime(j, due) /\ j.terminating = k.terminating /\ ToSet(j.pending) = {} /\ j.susp = 0
       /\ ~yields => Chosen(j)
  <2> HIDE DEF j, yields
  <2>1. QED
    BY <1>14, <1>15
<1> HIDE DEF j, yields
<1>17. /\ Fit(w, {}) /\ Chosen(w) /\ OnTime(w, due)
       /\ w.terminating = j.terminating /\ w.pending = j.pending /\ w.susp = 0
  BY <1>16, SwitchOnTime
<1> HIDE DEF w
<1>18. /\ Fit(k', {}) /\ OnTime(k', due) /\ k'.terminating = k.terminating /\ ToSet(k'.pending) = {}
       /\ k'.susp = 0 /\ Chosen(k')
  BY <1>1, <1>16, <1>17
<1>19. QED
  BY <1>1, <1>2, <1>3, <1>18, CallReturns

\* vTaskSuspendAll keeps the invariant, of a task and of the idle task.
LEMMA LockKeeps ==
  ASSUME IInv, NEW t \in Task, NEW to \in {"locked", "reap"}, Runs(t, "app"),
         k' = vTaskSuspendAll(k), Goto(t, to), KeepDue, lastWake' = lastWake
  PROVE  IInv'
<1> DEFINE u == vTaskSuspendAll(k)
<1>1. /\ pc \in [Task -> Places] /\ Fit(k, {}) /\ OnTime(k, due) /\ ToSet(k.pending) = {}
      /\ lastWake \in [Task -> portTickType] /\ due \in [Task -> 0..2*TickMod-1]
      /\ k.susp = 1 <=> pc[k.current] \in Locking
      /\ \A x \in Task \ {k.current} : pc[x] \notin Locking
      /\ pc[k.current] \notin {"yield", "resume"} => Chosen(k)
      /\ pc[Idle] = "free" => ToSet(k.terminating) # {}
      /\ k.susp \in {0, 1}
  BY Zenon DEF IInv, Good, Fit, Kernel
<1>2. k.current = t /\ pc[t] = "app"
  BY DEF Runs
<1>3. k.susp = 0 /\ Chosen(k)
  BY <1>1, <1>2 DEF Locking
<1>4. /\ Fit(u, {}) /\ u.susp = 1 /\ u.current = k.current /\ u.prio = k.prio /\ u.ready = k.ready
      /\ u.delayed = k.delayed /\ u.overflowed = k.overflowed /\ u.wake = k.wake
      /\ u.pending = k.pending /\ u.terminating = k.terminating /\ u.free = k.free
      /\ u.tick = k.tick /\ u.overflows = k.overflows
  BY <1>1, <1>3, SuspendAllFacts
<1>5. k' = u
  OBVIOUS
<1> HIDE DEF u
<1>6. OnTime(u, due) /\ Chosen(u)
  BY <1>1, <1>3, <1>4 DEF OnTime, Chosen
<1>7. due' \in [Task -> 0..2*TickMod-1] /\ OnTime(k', due')
  BY <1>1, <1>4, <1>5, <1>6, KeepDueFacts
<1>8. pc' \in [Task -> Places] /\ pc'[t] = to /\ \A x \in Task \ {t} : pc'[x] = pc[x]
  BY <1>1 DEF Places, Goto
<1>9. pc'[Idle] = "free" => pc[Idle] = "free"
  BY <1>8, IdleIsTask
<1>10. k' \in Kernel
  BY <1>4, <1>5 DEF Fit
<1>11. to \in Locking /\ to \notin {"yield", "resume"}
  BY DEF Locking
<1>12. QED
  BY <1>1, <1>2, <1>4, <1>5, <1>6, <1>7, <1>8, <1>9, <1>11 DEF IInv, Good

\* xTaskResumeAll(): afterwards the caller is somewhere else.
LEMMA ResumeAllKeeps ==
  ASSUME IInv, NEW t \in Task, NEW from \in Locking, NEW ifYielded \in Places, NEW otherwise \in Places,
         ResumeAll(t, from, ifYielded, otherwise),
         ifYielded \notin Locking, otherwise \notin Locking, from = "resume" => otherwise = "yield",
         t = Idle /\ (ifYielded = "free" \/ otherwise = "free") => ToSet(k.terminating) # {}
  PROVE  IInv'
<1> DEFINE r == xTaskResumeAll(k)
           to == IF r.yielded THEN ifYielded ELSE otherwise
<1>1. /\ pc \in [Task -> Places] /\ Fit(k, {}) /\ OnTime(k, due) /\ ToSet(k.pending) = {}
      /\ lastWake \in [Task -> portTickType] /\ due \in [Task -> 0..2*TickMod-1]
      /\ k.susp = 1 <=> pc[k.current] \in Locking
      /\ \A x \in Task \ {k.current} : pc[x] \notin Locking
      /\ pc[k.current] \notin {"yield", "resume"} => Chosen(k)
      /\ pc[Idle] = "free" => ToSet(k.terminating) # {}
      /\ k.current \in Task
  BY Zenon DEF IInv, Good, Fit, Kernel
<1>2. /\ k.current = t /\ pc[t] = from /\ k' = r.k /\ Goto(t, to) /\ KeepDue /\ lastWake' = lastWake
  BY DEF ResumeAll, Runs
<1>3. k.susp = 1
  BY <1>1, <1>2
<1>4. /\ Fit(r.k, {}) /\ OnTime(r.k, due) /\ r.k.susp = 0 /\ r.k.terminating = k.terminating
      /\ ToSet(r.k.pending) = {}
      /\ r.yielded \in BOOLEAN
      /\ r.yielded => Chosen(r.k)
      /\ ~r.yielded => r.k.current = k.current /\ (Chosen(k) => Chosen(r.k))
  BY <1>1, <1>3, ResumeFacts, Zenon
<1> HIDE DEF r
<1>5. due' \in [Task -> 0..2*TickMod-1] /\ OnTime(k', due')
  BY <1>1, <1>2, <1>4, KeepDueFacts
<1>6. to \in Places /\ to \notin Locking /\ to \in {ifYielded, otherwise}
  BY <1>4
<1>7. pc' \in [Task -> Places] /\ pc'[t] = to /\ \A x \in Task \ {t} : pc'[x] = pc[x]
  BY <1>1, <1>2, <1>6 DEF Goto
<1>8. \A x \in Task : pc'[x] \notin Locking
  BY <1>1, <1>2, <1>6, <1>7
<1>9. pc'[k'.current] \notin {"yield", "resume"} => Chosen(k')
  <2>1. CASE r.yielded
    BY <1>2, <1>4, <2>1
  <2>2. CASE ~r.yielded
    <3>1. k'.current = t /\ to = otherwise
      BY <1>2, <1>4, <2>2
    <3>2. CASE from = "resume"
      BY <1>7, <3>1, <3>2
    <3>3. CASE from # "resume"
      <4>1. from \notin {"yield", "resume"}
        BY <3>3 DEF Locking
      <4>2. QED
        BY <1>1, <1>2, <1>4, <2>2, <4>1
    <3>4. QED
      BY <3>2, <3>3
  <2>3. QED
    BY <1>4, <2>1, <2>2
<1>10. pc'[Idle] = "free" => ToSet(k'.terminating) # {}
  BY <1>1, <1>2, <1>4, <1>6, <1>7, IdleIsTask
<1>11. k'.current \in Task
  BY <1>2, <1>4 DEF Fit, Kernel
<1>12. QED
  BY <1>1, <1>2, <1>4, <1>5, <1>7, <1>8, <1>9, <1>10, <1>11 DEF IInv, Good

\* A yield of task t, at a place where the scheduler is not suspended.
LEMMA YieldKeeps ==
  ASSUME IInv, NEW t \in Task, NEW from \in Places \ Locking, Runs(t, from),
         k' = vTaskSwitchContext(k), Goto(t, "app"), KeepDue, lastWake' = lastWake
  PROVE  IInv'
<1> DEFINE w == vTaskSwitchContext(k)
<1>1. /\ pc \in [Task -> Places] /\ Fit(k, {}) /\ OnTime(k, due) /\ ToSet(k.pending) = {}
      /\ lastWake \in [Task -> portTickType] /\ due \in [Task -> 0..2*TickMod-1]
      /\ k.susp = 1 <=> pc[k.current] \in Locking
      /\ \A x \in Task \ {k.current} : pc[x] \notin Locking
      /\ pc[Idle] = "free" => ToSet(k.terminating) # {}
      /\ k.susp \in {0, 1}
  BY Zenon DEF IInv, Good, Fit, Kernel
<1>2. k.current = t /\ pc[t] = from
  BY DEF Runs
<1>3. k.susp = 0 /\ \A x \in Task : pc[x] \notin Locking
  BY <1>1, <1>2
<1>4. /\ Fit(w, {}) /\ Chosen(w) /\ OnTime(w, due)
      /\ w.terminating = k.terminating /\ w.pending = k.pending /\ w.susp = 0
  BY <1>1, <1>3, SwitchOnTime
<1>5. k' = w
  OBVIOUS
<1> HIDE DEF w
<1>6. due' \in [Task -> 0..2*TickMod-1] /\ OnTime(k', due')
  BY <1>1, <1>4, <1>5, KeepDueFacts
<1>7. pc' \in [Task -> Places] /\ pc'[t] = "app" /\ \A x \in Task \ {t} : pc'[x] = pc[x]
  BY <1>1 DEF Places, Goto
<1>8. \A x \in Task : pc'[x] \notin Locking
  BY <1>3, <1>7 DEF Locking
<1>9. pc'[Idle] = "free" => ToSet(k'.terminating) # {}
  BY <1>1, <1>4, <1>5, <1>7, IdleIsTask
<1>10. k'.current \in Task
  BY <1>4, <1>5 DEF Fit, Kernel
<1>11. QED
  BY <1>1, <1>4, <1>5, <1>6, <1>7, <1>8, <1>9, <1>10 DEF IInv, Good

\* The idle task frees the memory of the first deleted task.
LEMMA FreeKeeps ==
  ASSUME IInv, Runs(Idle, "free"), Goto(Idle, "round"), KeepDue, lastWake' = lastWake,
         k' = [prvDeleteTCB(k, Head(k.terminating)) EXCEPT !.terminating = Tail(@), !.deleted = @ - 1]
  PROVE  IInv'
<1> DEFINE s == k.terminating
           x == Head(s)
           z == Tail(s)
           r == [prvDeleteTCB(k, x) EXCEPT !.terminating = Tail(@), !.deleted = @ - 1]
<1>1. /\ pc \in [Task -> Places] /\ Fit(k, {}) /\ OnTime(k, due) /\ ToSet(k.pending) = {}
      /\ lastWake \in [Task -> portTickType] /\ due \in [Task -> 0..2*TickMod-1]
      /\ k.susp = 1 <=> pc[k.current] \in Locking
      /\ \A y \in Task \ {k.current} : pc[y] \notin Locking
      /\ pc[k.current] \notin {"yield", "resume"} => Chosen(k)
      /\ pc[Idle] = "free" => ToSet(k.terminating) # {}
      /\ k.susp \in {0, 1}
  BY Zenon DEF IInv, Good, Fit, Kernel
<1>2. k.current = Idle /\ pc[Idle] = "free"
  BY DEF Runs
<1>3. k.susp = 0 /\ (\A y \in Task : pc[y] \notin Locking) /\ Chosen(k) /\ ToSet(s) # {}
  BY <1>1, <1>2 DEF Locking
<1>4. k \in Kernel /\ s \in Seq(Task) /\ NoDup(s) /\ k.deleted = Len(s) /\ Len(s) \in Nat
  BY <1>1, Zenon DEF Fit, Kernel, Placed, NoDups
<1>5. /\ z \in Seq(Task) /\ x \in ToSet(s) /\ ToSet(z) = ToSet(s) \ {x} /\ NoDup(z)
      /\ Len(z) = Len(s) - 1 /\ Len(s) > 0
  <2>1. /\ z \in Seq(Task) /\ x \in ToSet(s) /\ ToSet(s) = ToSet(z) \cup {x}
        /\ NoDup(s) => NoDup(z) /\ x \notin ToSet(z)
        /\ Len(z) = Len(s) - 1 /\ Len(s) > 0
    BY <1>3, <1>4, TailFacts
  <2>2. QED
    BY <1>4, <2>1
<1>6. k' = r
  OBVIOUS
<1>7. x \in Task
  BY <1>4, <1>5 DEF ToSet
<1> HIDE DEF z, x
<1> DEFINE f == k.free \cup {x}
           n == k.deleted - 1
<1>8. r = [[[k EXCEPT !.free = f] EXCEPT !.terminating = z] EXCEPT !.deleted = n]
  BY <1>4, Zenon DEF prvDeleteTCB, Kernel, z
<1>9. f \in SUBSET Task /\ n \in Nat /\ n = Len(z)
  <2>1. k.free \subseteq Task
    BY <1>4 DEF Kernel
  <2>2. n \in Nat /\ n = Len(z)
    BY <1>4, <1>5
  <2>3. QED
    BY <1>7, <2>1, <2>2
<1> HIDE DEF r, f, n
<1>10. /\ r \in Kernel /\ r.free = f /\ r.terminating = z /\ r.deleted = n
       /\ r.current = k.current /\ r.ready = k.ready /\ r.delayed = k.delayed /\ r.overflowed = k.overflowed
       /\ r.pending = k.pending /\ r.suspended = k.suspended /\ r.prio = k.prio /\ r.wake = k.wake /\ r.tick = k.tick
       /\ r.overflows = k.overflows /\ r.top = k.top /\ r.susp = k.susp
  BY <1>4, <1>5, <1>8, <1>9, Zenon DEF Kernel
<1>11. Fit(r, {})
  <2>1. NoDups(r)
    BY <1>1, <1>5, <1>10 DEF Fit, Placed, NoDups
  <2>2. ASSUME NEW y \in Task
        PROVE  OnePlace(r, y) /\ \A p \in Priority : y \in ToSet(r.ready[p]) => r.prio[y] = p
    <3>1. OnePlace(k, y) /\ \A p \in Priority : y \in ToSet(k.ready[p]) => k.prio[y] = p
      BY <1>1 DEF Fit, Placed
    <3>2. CASE y = x
      BY <1>5, <1>10, <3>1, <3>2 DEF OnePlace, IsReady, f
    <3>3. CASE y # x
      BY <1>5, <1>10, <3>1, <3>3 DEF OnePlace, IsReady, f
    <3>4. QED
      BY <3>2, <3>3
  <2>3. QED
    BY <1>1, <1>9, <1>10, <2>1, <2>2 DEF Fit, Placed, TopCovers
<1>12. OnTime(r, due) /\ Chosen(r)
  BY <1>1, <1>3, <1>10 DEF OnTime, Chosen
<1>13. due' \in [Task -> 0..2*TickMod-1] /\ OnTime(k', due')
  BY <1>1, <1>6, <1>11, <1>12, KeepDueFacts
<1>14. pc' \in [Task -> Places] /\ pc'[Idle] = "round" /\ \A y \in Task \ {Idle} : pc'[y] = pc[y]
  BY <1>1, IdleIsTask DEF Places, Goto
<1>15. \A y \in Task : pc'[y] \notin Locking
  BY <1>3, <1>14 DEF Locking
<1>16. QED
  BY ZenonT(60), <1>1, <1>2, <1>3, <1>6, <1>10, <1>11, <1>12, <1>13, <1>14, <1>15, IdleIsTask DEF IInv, Good

\* The tick interrupt; while the scheduler is suspended it only counts.
LEMMA TickKeeps == ASSUME IInv, Tick PROVE IInv'
<1>1. /\ pc \in [Task -> Places] /\ Fit(k, {}) /\ OnTime(k, due) /\ ToSet(k.pending) = {}
      /\ lastWake \in [Task -> portTickType] /\ due \in [Task -> 0..2*TickMod-1]
      /\ k.susp = 1 <=> pc[k.current] \in Locking
      /\ \A x \in Task \ {k.current} : pc[x] \notin Locking
      /\ pc[k.current] \notin {"yield", "resume"} => Chosen(k)
      /\ pc[Idle] = "free" => ToSet(k.terminating) # {}
      /\ k \in Kernel /\ k.susp \in {0, 1} /\ k.current \in Task
  BY Zenon DEF IInv, Good, Fit, Kernel
<1>2. /\ k.missed < MaxMissed /\ k' = vTaskSwitchContext(vTaskIncrementTick(k))
      /\ KeepDue /\ pc' = pc /\ lastWake' = lastWake
  BY DEF Tick
<1> DEFINE r == vTaskIncrementTick(k)
           w == vTaskSwitchContext(r)
<1>3. k' = w
  BY <1>2
<1>4. CASE k.susp = 0
  <2>1. /\ Fit(r, {}) /\ OnTime(r, due) /\ r.susp = 0 /\ r.terminating = k.terminating
        /\ ToSet(r.pending) \subseteq ToSet(k.pending)
    BY <1>1, <1>4, IncrementFacts, Zenon
  <2> HIDE DEF r
  <2>2. /\ Fit(w, {}) /\ Chosen(w) /\ OnTime(w, due)
        /\ w.terminating = r.terminating /\ w.pending = r.pending /\ w.susp = 0
    BY <2>1, SwitchOnTime
  <2> HIDE DEF w
  <2>3. due' \in [Task -> 0..2*TickMod-1] /\ OnTime(k', due')
    BY <1>1, <1>2, <1>3, <2>2, KeepDueFacts
  <2>4. \A x \in Task : pc[x] \notin Locking
    BY <1>1, <1>4
  <2>5. k'.current \in Task
    BY <1>3, <2>2 DEF Fit, Kernel
  <2>6. ToSet(k'.pending) = {} /\ k'.terminating = k.terminating /\ k'.susp = 0
    BY <1>1, <1>3, <2>1, <2>2
  <2>7. QED
    BY <1>1, <1>2, <1>3, <2>2, <2>3, <2>4, <2>5, <2>6 DEF IInv, Good
<1>5. CASE k.susp = 1
  <2>1. r = [k EXCEPT !.missed = k.missed + 1]
    BY <1>1, <1>5 DEF vTaskIncrementTick
  <2>2. k.missed + 1 \in 0..MaxMissed
    <3>1. k.missed \in 0..MaxMissed
      BY <1>1 DEF Kernel
    <3>2. MaxMissed \in Nat
      BY SchedAssumption
    <3>3. QED
      BY <1>2, <3>1, <3>2
  <2> HIDE DEF r
  <2>3. /\ r \in Kernel /\ r.susp = 1 /\ r.current = k.current
        /\ r.prio = k.prio /\ r.ready = k.ready /\ r.delayed = k.delayed /\ r.overflowed = k.overflowed
        /\ r.pending = k.pending /\ r.suspended = k.suspended /\ r.terminating = k.terminating
        /\ r.deleted = k.deleted /\ r.free = k.free /\ r.wake = k.wake /\ r.tick = k.tick
        /\ r.overflows = k.overflows /\ r.top = k.top
    BY <1>1, <1>5, <2>1, <2>2, Zenon DEF Kernel
  <2>4. Fit(r, {})
    BY <1>1, <2>3 DEF Fit, Placed, NoDups, OnePlace, IsReady, TopCovers
  <2>5. /\ Fit(w, {}) /\ w.susp = r.susp /\ w.current = r.current /\ w.prio = r.prio /\ w.ready = r.ready
        /\ w.terminating = r.terminating /\ w.pending = r.pending
        /\ w.tick = r.tick /\ w.overflows = r.overflows /\ w.wake = r.wake
        /\ w.delayed = r.delayed /\ w.overflowed = r.overflowed
    BY <2>3, <2>4, SwitchLater
  <2> HIDE DEF w
  <2>6. OnTime(w, due) /\ (Chosen(k) => Chosen(w))
    BY <1>1, <2>3, <2>5 DEF OnTime, Chosen
  <2>7. due' \in [Task -> 0..2*TickMod-1] /\ OnTime(k', due')
    BY <1>1, <1>2, <1>3, <2>5, <2>6, KeepDueFacts
  <2>8. QED
    BY <1>1, <1>2, <1>3, <1>5, <2>3, <2>5, <2>6, <2>7 DEF IInv, Good
<1>6. QED
  BY <1>1, <1>4, <1>5

\* The idle task ends a round without a yield.
LEMMA RoundKeeps ==
  ASSUME IInv, NEW from \in {"round", "app"}, Runs(Idle, from), k' = k, Goto(Idle, "app"), KeepDue, lastWake' = lastWake
  PROVE  IInv'
<1>1. /\ pc \in [Task -> Places] /\ Fit(k, {}) /\ OnTime(k, due) /\ ToSet(k.pending) = {}
      /\ lastWake \in [Task -> portTickType] /\ due \in [Task -> 0..2*TickMod-1]
      /\ k.susp = 1 <=> pc[k.current] \in Locking
      /\ \A x \in Task \ {k.current} : pc[x] \notin Locking
      /\ pc[k.current] \notin {"yield", "resume"} => Chosen(k)
  BY DEF IInv, Good
<1>2. k.current = Idle /\ pc[Idle] \in {"round", "app"}
  BY DEF Runs
<1>3. k.susp # 1 /\ (\A x \in Task : pc[x] \notin Locking) /\ Chosen(k)
  BY <1>1, <1>2 DEF Locking
<1>4. due' \in [Task -> 0..2*TickMod-1] /\ OnTime(k', due')
  BY <1>1, KeepDueFacts
<1>5. pc' \in [Task -> Places] /\ pc'[Idle] = "app" /\ \A x \in Task \ {Idle} : pc'[x] = pc[x]
  BY <1>1, IdleIsTask DEF Places, Goto
<1>6. \A x \in Task : pc'[x] \notin Locking
  BY <1>3, <1>5 DEF Locking
<1>7. QED
  BY <1>1, <1>2, <1>3, <1>4, <1>5, <1>6, IdleIsTask DEF IInv, Good

\* Each call of the API keeps the invariant.
LEMMA CallKeeps == ASSUME IInv, NEW t \in Task, Call(t) PROVE IInv'
<1>1. ASSUME NEW n \in Delays, vTaskDelay(t, n) \/ vTaskDelayUntil(t, n) PROVE IInv'
  BY <1>1, DelayKeeps, DelayUntilKeeps
<1>2. ASSUME NEW x \in Task, vTaskSuspend(t, x) \/ vTaskResume(t, x) \/ vTaskDelete(t, x) PROVE IInv'
  BY <1>2, SuspendKeeps, ResumeKeeps, DeleteKeeps
<1>3. ASSUME NEW x \in Task \ {Idle}, NEW p \in NewPriorities, vTaskPrioritySet(t, x, p) \/ xTaskCreate(t, x, p)
      PROVE  IInv'
  BY <1>3, PrioritySetKeeps, CreateKeeps
<1>4. ASSUME SuspendScheduler(t) PROVE IInv'
  <2>1. /\ Runs(t, "app") /\ k' = vTaskSuspendAll(k) /\ Goto(t, "locked") /\ KeepDue /\ lastWake' = lastWake
    BY <1>4 DEF SuspendScheduler, Calling
  <2>2. "locked" \in {"locked", "reap"}
    OBVIOUS
  <2>3. QED
    BY <2>1, <2>2, LockKeeps
<1>5. QED
  BY <1>1, <1>2, <1>3, <1>4 DEF Call

\* Each step of a task inside the kernel keeps the invariant.
LEMMA ContinueKeeps == ASSUME IInv, NEW t \in Task, Continue(t) PROVE IInv'
<1>1. ASSUME ResumeAll(t, "locked", "app", "app") PROVE IInv'
  <2>1. "locked" \in Locking /\ "app" \in Places /\ "app" \notin Locking /\ "app" # "free" /\ "locked" # "resume"
    BY DEF Locking, Places
  <2>2. QED
    BY <1>1, <2>1, ResumeAllKeeps
<1>2. ASSUME ResumeAll(t, "resume", "app", "yield") PROVE IInv'
  <2>1. /\ "resume" \in Locking /\ "app" \in Places /\ "app" \notin Locking /\ "app" # "free"
        /\ "yield" \in Places /\ "yield" \notin Locking /\ "yield" # "free"
    BY DEF Locking, Places
  <2>2. QED
    BY <1>2, <2>1, ResumeAllKeeps
<1>3. ASSUME taskYIELD(t, "yield", "app") PROVE IInv'
  <2>1. /\ Runs(t, "yield") /\ k' = vTaskSwitchContext(k) /\ Goto(t, "app") /\ KeepDue /\ lastWake' = lastWake
    BY <1>3 DEF taskYIELD
  <2>2. "yield" \in Places \ Locking
    BY DEF Places, Locking
  <2>3. QED
    BY <2>1, <2>2, YieldKeeps
<1>4. QED
  BY <1>1, <1>2, <1>3 DEF Continue

\* Each step of the idle task keeps the invariant.
LEMMA IdleKeeps == ASSUME IInv, prvIdleTask PROVE IInv'
<1>1. ASSUME Runs(Idle, "app"), k' = vTaskSuspendAll(k), Goto(Idle, "reap"), KeepDue, lastWake' = lastWake PROVE IInv'
  <2>1. "reap" \in {"locked", "reap"}
    OBVIOUS
  <2>2. QED
    BY <1>1, <2>1, IdleIsTask, LockKeeps
<1>2. ASSUME NEW next, next = (IF k.terminating = <<>> THEN "round" ELSE "free"), ResumeAll(Idle, "reap", next, next)
      PROVE  IInv'
  <2>1. /\ "reap" \in Locking /\ next \in Places /\ next \notin Locking /\ "reap" # "resume"
    BY <1>2 DEF Locking, Places
  <2>2. k.terminating \in Seq(Task)
    BY DEF IInv, Good, Fit, Kernel
  <2>3. next = "free" => ToSet(k.terminating) # {}
    BY <1>2, <2>2, NotEmpty
  <2>4. QED
    BY <1>2, <2>1, <2>3, IdleIsTask, ResumeAllKeeps
<1>3. ASSUME Runs(Idle, "free"), Goto(Idle, "round"), KeepDue, lastWake' = lastWake,
             k' = [prvDeleteTCB(k, Head(k.terminating)) EXCEPT !.terminating = Tail(@), !.deleted = @ - 1]
      PROVE  IInv'
  BY <1>3, FreeKeeps
<1>4. ASSUME NEW from \in {"round", "app"}, Runs(Idle, from),
             k' = IF Len(k.ready[0]) > 1 THEN vTaskSwitchContext(k) ELSE k,
             Goto(Idle, "app"), KeepDue, lastWake' = lastWake
      PROVE  IInv'
  <2>1. CASE Len(k.ready[0]) > 1
    <3>1. from \in Places \ Locking
      BY DEF Places, Locking
    <3>2. k' = vTaskSwitchContext(k)
      BY <1>4, <2>1
    <3>3. QED
      BY <1>4, <3>1, <3>2, IdleIsTask, YieldKeeps
  <2>2. CASE ~(Len(k.ready[0]) > 1)
    <3>1. k' = k
      BY <1>4, <2>2
    <3>2. QED
      BY <1>4, <3>1, RoundKeeps
  <2>3. QED
    BY <2>1, <2>2
<1>5. QED
  BY <1>1, <1>2, <1>3, <1>4 DEF prvIdleTask, prvCheckTasksWaitingTermination

\* The invariant is inductive.
LEMMA NextKeeps == IInv /\ [Next]_vars => IInv'
<1> SUFFICES ASSUME IInv, [Next]_vars PROVE IInv'
  OBVIOUS
<1>1. CASE UNCHANGED vars
  BY <1>1 DEF vars, IInv, Good
<1>2. CASE Next
  BY <1>2, CallKeeps, ContinueKeeps, IdleKeeps, TickKeeps DEF Next
<1>3. QED
  BY <1>1, <1>2

\* main() creates each task once.
LEMMA CreatedFacts == Created \in Seq(Task) /\ ToSet(Created) = Task /\ NoDup(Created)
<1>1. Created \in Seq(Task) /\ \A i, j \in DOMAIN Created : i # j => Created[i] # Created[j]
  BY SchedAssumption
<1>2. NoDup(Created)
  BY <1>1 DEF NoDup
<1>3. QED
  BY <1>1, <1>2 DEF Task

\* A task of the last created ones of the highest priority is first.
LEMMA InitGood == Init => IInv
<1> SUFFICES ASSUME Init PROVE IInv
  OBVIOUS
<1> DEFINE c == [t \in Task |-> Clip(InitPriority[t])]
           ready == [p \in Priority |-> Select(Created, {t \in Task : Clip(InitPriority[t]) = p})]
           high == {t \in Task : \A x \in Task : Clip(InitPriority[x]) <= Clip(InitPriority[t])}
           P == {p \in Priority : \E t \in Task : c[t] = p}
           top == CHOOSE p \in Priority : /\ \E t \in Task : Clip(InitPriority[t]) = p
                                          /\ \A t \in Task : Clip(InitPriority[t]) <= p
           first == Last(Select(Created, high))
<1>1. c \in [Task -> Priority] /\ c[Idle] = 0 /\ 0 \in Priority /\ Idle \in Task
  <2>1. ASSUME NEW t \in Task PROVE c[t] \in Priority
    <3>1. InitPriority[t] \in Nat
      BY SchedAssumption
    <3>2. QED
      BY <3>1, ClipFacts
  <2>2. 0 \in Priority /\ Idle \in Task
    BY PriorityFacts, IdleIsTask
  <2>3. InitPriority[Idle] = 0
    BY SchedAssumption
  <2>4. Clip(0) \in Priority /\ Clip(0) <= 0
    BY ClipFacts
  <2>5. Clip(0) = 0
    BY <2>4, PriorityFacts
  <2>6. QED
    BY <2>1, <2>2, <2>3, <2>5
<1>2. /\ ready \in [Priority -> Seq(Task)]
      /\ \A p \in Priority : ToSet(ready[p]) = {t \in Task : c[t] = p} /\ NoDup(ready[p])
  <2>1. ASSUME NEW p \in Priority
        PROVE  /\ ready[p] \in Seq(Task) /\ ToSet(ready[p]) = {t \in Task : c[t] = p} /\ NoDup(ready[p])
    <3> DEFINE S == {t \in Task : Clip(InitPriority[t]) = p}
    <3>1. ready[p] = Select(Created, S)
      OBVIOUS
    <3>2. S = {t \in Task : c[t] = p} /\ S \subseteq Task
      OBVIOUS
    <3> HIDE DEF S
    <3>3. /\ Select(Created, S) \in Seq(Task)
          /\ ToSet(Select(Created, S)) = ToSet(Created) \cap S
          /\ NoDup(Created) => NoDup(Select(Created, S))
      BY CreatedFacts, SelectFacts
    <3>4. QED
      BY CreatedFacts, <3>1, <3>2, <3>3
  <2>2. QED
    BY <2>1, Zenon
<1>3. /\ top \in Priority /\ (\E t \in Task : c[t] = top) /\ \A t \in Task : c[t] <= top
  <2>1. P \in SUBSET (0..MaxPriorities-1) /\ P # {} /\ MaxPriorities - 1 \in Nat /\ Priority = 0..MaxPriorities-1
    BY <1>1, PriorityFacts
  <2> DEFINE m == CHOOSE p \in P : \A q \in P : q <= p
  <2>2. m \in P /\ \A q \in P : q <= m
    <3> HIDE DEF P
    <3>1. QED
      BY <2>1, Greatest, Zenon
  <2>3. m \in Priority /\ (\E t \in Task : c[t] = m) /\ \A t \in Task : c[t] <= m
    BY <1>1, <2>1, <2>2, Zenon
  <2> HIDE DEF m, P
  <2>4. \E p \in Priority : /\ \E t \in Task : Clip(InitPriority[t]) = p
                            /\ \A t \in Task : Clip(InitPriority[t]) <= p
    BY <2>3
  <2>5. QED
    BY <2>4
<1>4. first \in Task /\ c[first] = top
  <2>1. high \subseteq Task /\ high = {t \in Task : \A x \in Task : c[x] <= c[t]}
    BY Zenon
  <2> DEFINE s == Select(Created, high)
  <2> HIDE DEF high, c, top
  <2>2. s \in Seq(Task) /\ ToSet(s) = high
    BY <2>1, CreatedFacts, SelectFacts
  <2>3. high # {}
    BY <1>1, <1>3, <2>1
  <2> HIDE DEF s
  <2>4. s # <<>>
    BY <2>2, <2>3, NotEmpty
  <2>5. Last(s) \in ToSet(s)
    BY <2>2, <2>4 DEF Last, ToSet
  <2>6. first \in high
    BY <2>2, <2>5 DEF s
  <2>7. first \in Task /\ \A x \in Task : c[x] <= c[first]
    BY <2>1, <2>6
  <2>8. QED
    <3>1. c[first] \in Int /\ top \in Int
      BY <1>1, <1>3, <2>7, PriorityFacts
    <3>2. c[first] <= top /\ top <= c[first]
      BY <1>3, <2>7
    <3>3. QED
      BY <2>7, <3>1, <3>2
<1>5. k = [current |-> first, prio |-> c, base |-> c, item |-> c, ready |-> ready,
           delayed |-> <<>>, overflowed |-> <<>>, pending |-> <<>>, suspended |-> {},
           terminating |-> <<>>, deleted |-> 0, free |-> {},
           event |-> [l \in EventList |-> <<>>],
           wake |-> [t \in Task |-> 0],
           tick |-> 0, overflows |-> 0, missed |-> 0, missedYield |-> FALSE, susp |-> 0,
           top |-> top]
      /\ pc = [t \in Task |-> "app"] /\ lastWake = [t \in Task |-> 0] /\ due = [t \in Task |-> 0]
  BY DEF Init
<1> HIDE DEF c, ready, first, top, high, P
<1>6. 0 \in portTickType /\ 0 \in 0..OverflowMod-1 /\ 0 \in 0..MaxMissed /\ 0 \in 0..2*TickMod-1
  <2>1. TickMod \in Nat /\ TickMod >= 3
    BY TickModAssumption
  <2>2. OverflowMod \in Nat \ {0} /\ MaxMissed \in Nat \ {0}
    BY SchedAssumption
  <2>3. QED
    BY <2>1, <2>2 DEF portTickType
<1> DEFINE none == <<>>
           noEvent == [l \in EventList |-> none]
           noWake == [t \in Task |-> 0]
<1>7. none \in Seq(Task) /\ ToSet(none) = {} /\ Len(none) = 0 /\ NoDup(none)
  BY DEF ToSet, NoDup
<1>8. /\ k.current = first /\ k.prio = c /\ k.ready = ready /\ k.delayed = none /\ k.overflowed = none
      /\ k.pending = none /\ k.suspended = {} /\ k.terminating = none /\ k.deleted = 0 /\ k.free = {}
      /\ k.tick = 0 /\ k.susp = 0 /\ k.top = top
  BY <1>5
<1>9. k = [current |-> first, prio |-> c, base |-> c, item |-> c, ready |-> ready,
           delayed |-> none, overflowed |-> none, pending |-> none, suspended |-> {},
           terminating |-> none, deleted |-> 0, free |-> {},
           event |-> noEvent, wake |-> noWake,
           tick |-> 0, overflows |-> 0, missed |-> 0, missedYield |-> FALSE, susp |-> 0,
           top |-> top]
  BY <1>5
<1> HIDE DEF none
<1>10. noEvent \in [EventList -> Seq(Task)] /\ noWake \in [Task -> portTickType] /\ {} \in SUBSET Task /\ 0 \in Nat
  BY <1>6, <1>7
<1> HIDE DEF noEvent, noWake
<1>11. k \in Kernel
  BY <1>1, <1>2, <1>3, <1>4, <1>6, <1>7, <1>9, <1>10 DEF Kernel
<1>12. Placed(k, {})
  <2>1. NoDups(k)
    BY <1>2, <1>7, <1>8 DEF NoDups
  <2>2. ASSUME NEW t \in Task
        PROVE  OnePlace(k, t) /\ \A p \in Priority : t \in ToSet(k.ready[p]) => k.prio[t] = p
    <3>1. c[t] \in Priority
      BY <1>1
    <3>2. \A p \in Priority : t \in ToSet(k.ready[p]) <=> c[t] = p
      BY <1>2, <1>8
    <3>3. QED
      BY <1>7, <1>8, <3>1, <3>2 DEF OnePlace, IsReady
  <2>3. QED
    BY <2>1, <2>2 DEF Placed
<1>13. \A p \in Priority : k.ready[p] # <<>> => p <= top
  <2> SUFFICES ASSUME NEW p \in Priority, k.ready[p] # <<>> PROVE p <= top
    OBVIOUS
  <2>1. ready[p] \in Seq(Task) /\ k.ready[p] = ready[p]
    BY <1>2, <1>8
  <2>2. PICK t : t \in ToSet(ready[p])
    BY <2>1, NotEmpty
  <2>3. t \in Task /\ c[t] = p
    BY <1>2, <2>2
  <2>4. QED
    BY <1>3, <2>3
<1>14. Fit(k, {})
  BY <1>1, <1>2, <1>7, <1>8, <1>11, <1>12, <1>13 DEF Fit, TopCovers
<1>15. Chosen(k)
  <2>1. k.current \in ToSet(k.ready[k.prio[k.current]]) /\ k.prio[k.current] = top
    BY <1>2, <1>3, <1>4, <1>8
  <2>2. ASSUME NEW p \in Priority, p > top PROVE k.ready[p] = <<>>
    BY <1>3, <1>13, <2>2, PriorityFacts
  <2>3. QED
    BY <2>1, <2>2 DEF Chosen
<1>16. OnTime(k, due)
  BY <1>7, <1>8 DEF OnTime
<1>17. due \in [Task -> 0..2*TickMod-1] /\ lastWake \in [Task -> portTickType] /\ pc \in [Task -> Places]
  BY <1>5, <1>6 DEF Places
<1>18. \A t \in Task : pc[t] = "app" /\ "app" \notin Locking
  BY <1>5 DEF Locking
<1>19. QED
  BY <1>1, <1>4, <1>7, <1>8, <1>14, <1>15, <1>16, <1>17, <1>18 DEF IInv, Good

-----------------------------------------------------------------------------
(* What follows from it.                                                   *)

\* In a list without repetition a task occurs once or not at all.
LEMMA OccursOnce ==
  ASSUME NEW T, NEW s \in Seq(T), NEW t, NoDup(s)
  PROVE  Occurs(s, t) = IF t \in ToSet(s) THEN 1 ELSE 0
<1> DEFINE I == {i \in DOMAIN s : s[i] = t}
<1>1. CASE t \in ToSet(s)
  <2>1. PICK i \in DOMAIN s : s[i] = t
    BY <1>1 DEF ToSet
  <2>2. I = {i}
    BY <2>1 DEF NoDup
  <2>3. Cardinality({i}) = 1
    BY FS_Singleton, Zenon
  <2>4. QED
    BY <1>1, <2>2, <2>3, Zenon DEF Occurs
<1>2. CASE t \notin ToSet(s)
  <2>1. I = {}
    BY <1>2 DEF ToSet
  <2>2. QED
    BY <1>2, <2>1, FS_EmptySet, Zenon DEF Occurs
<1>3. QED
  BY <1>1, <1>2

\* The invariant gives the types.
LEMMA GoodTypes == IInv => TypeOK
  BY DEF IInv, Good, Fit, TypeOK, Places

\* The invariant puts each task in one list.
LEMMA GoodLists == IInv => OneList
<1> SUFFICES ASSUME IInv, NEW t \in Task
             PROVE  /\ Occurs(k.ready[k.prio[t]], t) + Occurs(k.delayed, t) + Occurs(k.overflowed, t)
                       + Occurs(k.terminating, t) + (IF t \in k.suspended THEN 1 ELSE 0)
                       = (IF t \in k.free THEN 0 ELSE 1)
                    /\ \A p \in Priority \ {k.prio[t]} : t \notin ToSet(k.ready[p])
  BY DEF OneList
<1>1. k \in Kernel /\ Placed(k, {})
  BY DEF IInv, Good, Fit
<1>2. /\ k.prio[t] \in Priority /\ k.ready[k.prio[t]] \in Seq(Task)
      /\ k.delayed \in Seq(Task) /\ k.overflowed \in Seq(Task) /\ k.terminating \in Seq(Task)
  BY <1>1 DEF Kernel
<1>3. OnePlace(k, t) /\ \A p \in Priority : t \in ToSet(k.ready[p]) => k.prio[t] = p
  BY <1>1 DEF Placed
<1>4. IsReady(k, t) <=> t \in ToSet(k.ready[k.prio[t]])
  BY <1>2, <1>3 DEF IsReady
<1>5. /\ Occurs(k.ready[k.prio[t]], t) = IF t \in ToSet(k.ready[k.prio[t]]) THEN 1 ELSE 0
      /\ Occurs(k.delayed, t) = IF t \in ToSet(k.delayed) THEN 1 ELSE 0
      /\ Occurs(k.overflowed, t) = IF t \in ToSet(k.overflowed) THEN 1 ELSE 0
      /\ Occurs(k.terminating, t) = IF t \in ToSet(k.terminating) THEN 1 ELSE 0
  BY <1>1, <1>2, OccursOnce DEF Placed, NoDups
<1>6. \A p \in Priority \ {k.prio[t]} : t \notin ToSet(k.ready[p])
  BY <1>3
<1>7. QED
  BY <1>3, <1>4, <1>5, <1>6 DEF OnePlace

\* The invariant makes the running task the right one.
LEMMA GoodChoice == IInv => HighestRuns
<1> SUFFICES ASSUME IInv, k.susp = 0, pc[k.current] \notin {"yield", "q_yield"} PROVE Chosen(k)
  BY DEF HighestRuns, Chosen
<1>1. /\ k.susp = 1 <=> pc[k.current] \in Locking
      /\ pc[k.current] \notin {"yield", "resume"} => Chosen(k)
  BY DEF IInv, Good
<1>2. pc[k.current] # "resume"
  BY <1>1 DEF Locking
<1>3. QED
  BY <1>1, <1>2

\* The invariant bounds the ready lists by uxTopReadyPriority.
LEMMA GoodTop == IInv => TopCoversReady
  BY DEF IInv, Good, Fit, TopCovers, TopCoversReady

\* The invariant keeps the delayed tasks on time.
LEMMA GoodTimes == IInv => NotOverdue
  BY DEF IInv, Good, OnTime, NotOverdue

\* The rest of the delay, from the values of the clock.
LEMMA AheadIs ==
  ASSUME NEW o \in Nat, NEW tick \in portTickType, NEW wake \in portTickType
  PROVE  /\ wake > tick => ((o % 2) * TickMod + wake + 2 * TickMod - ((o % 2) * TickMod + tick)) % (2 * TickMod)
                           = wake - tick
         /\ wake < tick => (((o + 1) % 2) * TickMod + wake + 2 * TickMod - ((o % 2) * TickMod + tick)) % (2 * TickMod)
                           = wake + TickMod - tick
<1> DEFINE b == o % 2
           c == (o + 1) % 2
           m == 2 * TickMod
<1>1. TickMod \in Nat /\ TickMod >= 3
  BY TickModAssumption
<1>2. b \in {0, 1} /\ c = 1 - b
  BY Mod2
<1>3. wake \in Nat /\ tick \in Nat /\ wake < TickMod /\ tick < TickMod /\ m \in Nat /\ m = TickMod + TickMod
  BY <1>1 DEF portTickType
<1> HIDE DEF b, c, m
<1>4. ASSUME wake > tick PROVE (b * TickMod + wake + m - (b * TickMod + tick)) % m = wake - tick
  <2> DEFINE a == b * TickMod + wake + m - (b * TickMod + tick)
  <2>1. a = m + (wake - tick) /\ wake - tick < TickMod /\ wake - tick \in Nat
    BY <1>1, <1>2, <1>3, <1>4
  <2> HIDE DEF a
  <2>2. a \in Nat /\ m <= a /\ a < 2 * m /\ a - m = wake - tick
    BY <1>1, <1>3, <2>1
  <2>3. a % m = a - m
    BY <1>3, <2>2, ModOnce
  <2>4. QED
    BY <2>2, <2>3 DEF a
<1>5. ASSUME wake < tick PROVE (c * TickMod + wake + m - (b * TickMod + tick)) % m = wake + TickMod - tick
  <2> DEFINE a == c * TickMod + wake + m - (b * TickMod + tick)
             e == wake + TickMod - tick
  <2>1. e \in Nat /\ e < TickMod /\ e < m
    BY <1>1, <1>3, <1>5
  <2>2. CASE b = 0
    <3>1. a = m + e
      BY <1>1, <1>2, <1>3, <2>2
    <3> HIDE DEF a, e
    <3>2. a \in Nat /\ m <= a /\ a < 2 * m /\ a - m = e
      BY <1>1, <1>3, <2>1, <3>1
    <3>3. a % m = a - m
      BY <1>3, <3>2, ModOnce
    <3>4. QED
      BY <3>2, <3>3 DEF a, e
  <2>3. CASE b = 1
    <3>1. a = e
      BY <1>1, <1>2, <1>3, <2>3
    <3> HIDE DEF a, e
    <3>2. a % m = e
      BY <1>3, <2>1, <3>1, ModSmall
    <3>3. QED
      BY <3>2 DEF a, e
  <2>4. QED
    BY <1>2, <2>2, <2>3
<1>6. QED
  BY <1>4, <1>5 DEF b, c, m

\* The invariant bounds each delay that is left by one that was asked for.
LEMMA GoodDelays == IInv => NeverLong
<1> SUFFICES ASSUME IInv, NEW t \in Task, Delayed(t) PROVE \E n \in Delays : Ahead(due[t]) <= n
  BY DEF NeverLong
<1>1. OnTime(k, due) /\ k \in Kernel
  BY DEF IInv, Good, Fit
<1>2. k.tick \in portTickType /\ k.wake[t] \in portTickType /\ k.overflows \in Nat
  BY <1>1, SchedAssumption DEF Kernel
<1>3. Clock(k) = (k.overflows % 2) * TickMod + k.tick
  BY DEF Clock
<1>4. CASE t \in ToSet(k.delayed)
  <2>1. /\ k.wake[t] > k.tick /\ due[t] = (k.overflows % 2) * TickMod + k.wake[t]
        /\ \E n \in Delays : k.wake[t] - k.tick <= n
    BY <1>1, <1>4 DEF OnTime
  <2>2. ((k.overflows % 2) * TickMod + k.wake[t] + 2 * TickMod - ((k.overflows % 2) * TickMod + k.tick)) % (2 * TickMod)
        = k.wake[t] - k.tick
    BY <1>2, <2>1, AheadIs
  <2>3. Ahead(due[t]) = k.wake[t] - k.tick
    BY <1>3, <2>1, <2>2 DEF Ahead
  <2>4. QED
    BY <2>1, <2>3
<1>5. CASE t \in ToSet(k.overflowed)
  <2>1. /\ k.wake[t] < k.tick /\ due[t] = ((k.overflows + 1) % 2) * TickMod + k.wake[t]
        /\ \E n \in Delays : k.wake[t] + TickMod - k.tick <= n
    BY <1>1, <1>5 DEF OnTime
  <2>2. (((k.overflows + 1) % 2) * TickMod + k.wake[t] + 2 * TickMod - ((k.overflows % 2) * TickMod + k.tick)) % (2 * TickMod)
        = k.wake[t] + TickMod - k.tick
    BY <1>2, <2>1, AheadIs
  <2>3. Ahead(due[t]) = k.wake[t] + TickMod - k.tick
    BY <1>3, <2>1, <2>2 DEF Ahead
  <2>4. QED
    BY <2>1, <2>3
<1>6. QED
  BY <1>4, <1>5 DEF Delayed, IsDelayed

\* IInv is an invariant of the scheduler.
THEOREM Invariance == Spec => []IInv
  BY InitGood, NextKeeps, PTL DEF Spec

\* The globals of tasks.c keep their types.
THEOREM TypeCorrect == Spec => []TypeOK
  BY Invariance, GoodTypes, PTL

\* The generic item of every task is in exactly one list of tasks.c, for every set
\* of tasks, priorities and calls.
THEOREM EachTaskInOneList == Spec => []OneList
  BY Invariance, GoodLists, PTL

\* Between kernel calls a ready task of the highest priority runs.
THEOREM HighestAlwaysRuns == Spec => []HighestRuns
  BY Invariance, GoodChoice, PTL

\* uxTopReadyPriority is never below a ready list that has a task.
THEOREM TopIsNeverTooLow == Spec => []TopCoversReady
  BY Invariance, GoodTop, PTL

\* No delayed task is overdue, and each is in the list of the round it is due in.
THEOREM NobodyOverdue == Spec => []NotOverdue
  BY Invariance, GoodTimes, PTL

\* No task sleeps longer than a delay somebody asked for.
THEOREM SleepsNeverTooLong == Spec => []NeverLong
  BY Invariance, GoodDelays, PTL

-----------------------------------------------------------------------------
(* What the functions of tasks.c do to tasks that wait for an event.       *)

\* Task t is in an event list.
Awaits(j, t) == \E l \in EventList : t \in ToSet(j.event[l])

\* No task is in an event list twice, or there and pending; those that are in
\* one sleep, with a limit or without; and only a suspended scheduler leaves
\* tasks pending.
Apart(j) ==
    /\ \A l \in EventList : NoDup(j.event[l])
    /\ \A t \in ToSet(j.pending) : ~Awaits(j, t)
    /\ \A t : Awaits(j, t) \/ t \in ToSet(j.pending) => IsDelayed(j, t) \/ t \in j.suspended
    /\ j.susp = 0 => ToSet(j.pending) = {}

\* From j to r tasks have left the event lists, and nobody has joined one or
\* changed places there.
Onward(j, r) ==
    /\ \A l \in EventList : /\ ToSet(r.event[l]) \subseteq ToSet(j.event[l])
                            /\ NoDup(j.event[l]) => NoDup(r.event[l])
                            /\ \A R : Ordered(j.event[l], R) => Ordered(r.event[l], R)
    /\ \A t \in ToSet(r.pending) : t \in ToSet(j.pending) \/ (Awaits(j, t) /\ ~Awaits(r, t))
    /\ \A t : Awaits(r, t) \/ t \in ToSet(r.pending) =>
          /\ IsDelayed(r, t) <=> IsDelayed(j, t)
          /\ t \in r.suspended <=> t \in j.suspended

\* Who waits has waited before.
LEMMA OnwardAwaits ==
  ASSUME NEW j, NEW r, Onward(j, r), NEW t, Awaits(r, t)
  PROVE  Awaits(j, t)
  BY DEF Onward, Awaits

\* Nobody has left or joined an event list that is as it was.
LEMMA OnwardSame ==
  ASSUME NEW j, NEW r, r.event = j.event, r.pending = j.pending, r.suspended = j.suspended,
         \A t : IsDelayed(r, t) <=> IsDelayed(j, t)
  PROVE  Onward(j, r)
  BY DEF Onward, Awaits

\* One step after another.
LEMMA OnwardOnward ==
  ASSUME NEW i, NEW j, NEW r, Onward(i, j), Onward(j, r)
  PROVE  Onward(i, r)
<1>1. ASSUME NEW l \in EventList
      PROVE  /\ ToSet(r.event[l]) \subseteq ToSet(i.event[l])
             /\ NoDup(i.event[l]) => NoDup(r.event[l])
             /\ \A R : Ordered(i.event[l], R) => Ordered(r.event[l], R)
  BY DEF Onward
<1>2. ASSUME NEW t \in ToSet(r.pending) PROVE t \in ToSet(i.pending) \/ (Awaits(i, t) /\ ~Awaits(r, t))
  <2>1. t \in ToSet(j.pending) \/ (Awaits(j, t) /\ ~Awaits(r, t))
    BY DEF Onward
  <2>2. t \in ToSet(j.pending) => t \in ToSet(i.pending) \/ (Awaits(i, t) /\ ~Awaits(j, t))
    BY DEF Onward
  <2>3. QED
    BY <2>1, <2>2, OnwardAwaits
<1>3. ASSUME NEW t, Awaits(r, t) \/ t \in ToSet(r.pending)
      PROVE  /\ IsDelayed(r, t) <=> IsDelayed(i, t)
             /\ t \in r.suspended <=> t \in i.suspended
  <2>1. Awaits(j, t) \/ t \in ToSet(j.pending)
    <3>1. t \in ToSet(r.pending) => t \in ToSet(j.pending) \/ Awaits(j, t)
      BY DEF Onward
    <3>2. QED
      BY <1>3, <3>1, OnwardAwaits
  <2>2. (IsDelayed(r, t) <=> IsDelayed(j, t)) /\ (t \in r.suspended <=> t \in j.suspended)
    BY <1>3, Zenon DEF Onward
  <2>3. (IsDelayed(j, t) <=> IsDelayed(i, t)) /\ (t \in j.suspended <=> t \in i.suspended)
    BY <2>1, Zenon DEF Onward
  <2>4. QED
    BY <2>2, <2>3
<1>4. QED
  BY <1>1, <1>2, <1>3, Zenon DEF Onward

\* The lists stay apart when tasks leave event lists.
LEMMA ApartOnward ==
  ASSUME NEW j, NEW r, Apart(j), Onward(j, r), r.susp = 0 => ToSet(r.pending) = {}
  PROVE  Apart(r)
<1>1. \A l \in EventList : NoDup(r.event[l])
  BY DEF Apart, Onward
<1>2. \A t \in ToSet(r.pending) : ~Awaits(r, t)
  <2> SUFFICES ASSUME NEW t \in ToSet(r.pending), Awaits(r, t) PROVE FALSE
    OBVIOUS
  <2>1. t \in ToSet(j.pending) \/ (Awaits(j, t) /\ ~Awaits(r, t))
    BY DEF Onward
  <2>2. t \in ToSet(j.pending) => ~Awaits(j, t)
    BY DEF Apart
  <2>3. QED
    BY <2>1, <2>2, OnwardAwaits
<1>3. ASSUME NEW t, Awaits(r, t) \/ t \in ToSet(r.pending) PROVE IsDelayed(r, t) \/ t \in r.suspended
  <2>1. Awaits(j, t) \/ t \in ToSet(j.pending)
    <3>1. t \in ToSet(r.pending) => t \in ToSet(j.pending) \/ Awaits(j, t)
      BY DEF Onward
    <3>2. QED
      BY <1>3, <3>1, OnwardAwaits
  <2>2. IsDelayed(j, t) \/ t \in j.suspended
    BY <2>1, Zenon DEF Apart
  <2>3. (IsDelayed(r, t) <=> IsDelayed(j, t)) /\ (t \in r.suspended <=> t \in j.suspended)
    BY <1>3, Zenon DEF Onward
  <2>4. QED
    BY <2>2, <2>3
<1>4. QED
  BY <1>1, <1>2, <1>3, Zenon DEF Apart

\* From j to r tasks have become ready, or pending, and nothing else about any
\* task has changed.
Woken(j, r) ==
    /\ Fit(r, {}) /\ Onward(j, r)
    /\ r.prio = j.prio /\ r.base = j.base /\ r.item = j.item
    /\ r.terminating = j.terminating /\ r.free = j.free
    /\ \A t : IsReady(j, t) => IsReady(r, t)

\* Neither time nor the suspension of the scheduler has changed.
Still(j, r) ==
    r.tick = j.tick /\ r.overflows = j.overflows /\ r.susp = j.susp /\ r.missed = j.missed

\* The right task runs, or the same one as before, if that was right.
Picks(j, r) == Chosen(r) \/ (r.current = j.current /\ (Chosen(j) => Chosen(r)))

\* One step after another.
LEMMA WokenWoken ==
  ASSUME NEW i, NEW j, NEW r, Woken(i, j), Woken(j, r)
  PROVE  Woken(i, r)
<1>1. Onward(i, r)
  BY OnwardOnward DEF Woken
<1>2. QED
  BY <1>1 DEF Woken

\* Tasks made ready leave the event lists.
LEMMA MakeReadyOnward ==
  ASSUME NEW j \in Kernel, NEW s \in Seq(Task)
  PROVE  LET r == MakeReady(j, s)
         IN /\ Onward(j, r)
            /\ \A l \in EventList : ToSet(r.event[l]) = ToSet(j.event[l]) \ ToSet(s)
<1> DEFINE r == MakeReady(j, s)
           S == ToSet(s)
<1>1. /\ r.pending = Without(j.pending, S)
      /\ r.event = [l \in EventList |-> Without(j.event[l], S)]
  BY MakeReadyFields, Zenon
<1>2. /\ ToSet(r.delayed) = ToSet(j.delayed) \ S
      /\ ToSet(r.overflowed) = ToSet(j.overflowed) \ S
      /\ ToSet(r.pending) = ToSet(j.pending) \ S
      /\ r.suspended = j.suspended \ S
  BY MakeReadyMembers, Zenon
<1> HIDE DEF r, S
<1>3. ASSUME NEW l \in EventList
      PROVE  /\ ToSet(r.event[l]) = ToSet(j.event[l]) \ S
             /\ NoDup(j.event[l]) => NoDup(r.event[l])
             /\ \A R : Ordered(j.event[l], R) => Ordered(r.event[l], R)
  <2>1. r.event[l] = Without(j.event[l], S) /\ j.event[l] \in Seq(Task)
    BY <1>1 DEF Kernel
  <2>2. QED
    BY <2>1, WithoutFacts
<1>4. \A t : Awaits(r, t) => t \notin S
  BY <1>3 DEF Awaits
<1>5. \A t : Awaits(r, t) \/ t \in ToSet(r.pending) =>
             /\ IsDelayed(r, t) <=> IsDelayed(j, t)
             /\ t \in r.suspended <=> t \in j.suspended
  BY <1>2, <1>4 DEF IsDelayed
<1>6. Onward(j, r)
  BY <1>2, <1>3, <1>5 DEF Onward
<1>7. QED
  BY <1>3, <1>6 DEF r, S

\* Tasks that were neither ready nor deleted are made ready.
LEMMA MakeReadyWoken ==
  ASSUME NEW j, NEW s, Wakeable(j, s)
  PROVE  LET r == MakeReady(j, s)
         IN /\ Woken(j, r) /\ Still(j, r) /\ r.current = j.current
            /\ ToSet(r.pending) = ToSet(j.pending) \ ToSet(s)
            /\ \A l \in EventList : ToSet(r.event[l]) = ToSet(j.event[l]) \ ToSet(s)
            /\ \A p \in Priority : ToSet(r.ready[p]) = (ToSet(j.ready[p]) \ ToSet(s)) \cup {t \in ToSet(s) : j.prio[t] = p}
<1> DEFINE r == MakeReady(j, s)
           S == ToSet(s)
<1>1. /\ s \in Seq(Task) /\ NoDup(s) /\ Fit(j, S) /\ Idle \notin S
      /\ S \cap j.free = {} /\ S \cap ToSet(j.terminating) = {}
  BY DEF Wakeable
<1>2. j \in Kernel
  BY <1>1 DEF Fit
<1>3. /\ Fit(r, {}) /\ r.terminating = j.terminating
      /\ ToSet(r.pending) = ToSet(j.pending) \ S
  BY <1>1, MakeReadyFit
<1>4. /\ r.current = j.current /\ r.prio = j.prio /\ r.base = j.base /\ r.item = j.item
      /\ r.free = j.free /\ r.tick = j.tick /\ r.overflows = j.overflows /\ r.missed = j.missed /\ r.susp = j.susp
  BY <1>1, <1>2, MakeReadyFields, Zenon
<1>5. \A p \in Priority : ToSet(r.ready[p]) = (ToSet(j.ready[p]) \ S) \cup {t \in S : j.prio[t] = p}
  BY <1>1, <1>2, MakeReadyMembers
<1>6. Onward(j, r) /\ \A l \in EventList : ToSet(r.event[l]) = ToSet(j.event[l]) \ S
  BY <1>1, <1>2, MakeReadyOnward
<1>7. \A t \in S : j.prio[t] \in Priority
  BY <1>1, <1>2 DEF Kernel, ToSet
<1> HIDE DEF r, S
<1>8. ASSUME NEW t, IsReady(j, t) PROVE IsReady(r, t)
  BY <1>5, <1>7, <1>8 DEF IsReady
<1>9. QED
  BY <1>3, <1>4, <1>5, <1>6, <1>8, Zenon DEF Woken, Still, r, S

\* A switch moves no task and takes the right one to run.
LEMMA SwitchWoken ==
  ASSUME NEW j, Fit(j, {})
  PROVE  LET r == vTaskSwitchContext(j)
         IN /\ Woken(j, r) /\ Still(j, r) /\ r.event = j.event /\ r.pending = j.pending /\ r.suspended = j.suspended
            /\ r.delayed = j.delayed /\ r.overflowed = j.overflowed
            /\ \A t : IsReady(r, t) <=> IsReady(j, t)
            /\ IF j.susp = 0 THEN Chosen(r) ELSE r.current = j.current /\ r.ready = j.ready
<1> DEFINE r == vTaskSwitchContext(j)
<1>1. j \in Kernel /\ j.susp \in {0, 1}
  BY Zenon DEF Fit, Kernel
<1>2. CASE j.susp = 0
  <2>1. /\ Fit(r, {}) /\ Chosen(r)
        /\ r.terminating = j.terminating /\ r.pending = j.pending /\ r.susp = 0
        /\ r.tick = j.tick /\ r.overflows = j.overflows /\ r.wake = j.wake
        /\ r.delayed = j.delayed /\ r.overflowed = j.overflowed
    BY <1>2, SwitchFacts
  <2>2. \E p \in Priority : p <= j.top /\ j.ready[p] # <<>>
    <3>1. \A p \in Priority : j.ready[p] \in Seq(Task)
      BY <1>1 DEF Kernel
    <3>2. Idle \in ToSet(j.ready[0]) /\ 0 \in Priority
      BY PriorityFacts DEF Fit
    <3>3. j.ready[0] # <<>>
      BY <3>1, <3>2, NotEmpty
    <3>4. QED
      BY <3>2, <3>3 DEF Fit, TopCovers
  <2>3. /\ r \in Kernel
        /\ r = [[[j EXCEPT !.top = r.top] EXCEPT !.current = r.current] EXCEPT !.ready = r.ready]
        /\ r.top <= j.top /\ j.ready[r.top] # <<>>
        /\ \A p \in Priority : p <= j.top /\ j.ready[p] # <<>> => p <= r.top
        /\ r.current \in ToSet(j.ready[r.top])
        /\ \A p \in Priority : ToSet(r.ready[p]) = ToSet(j.ready[p]) /\ (NoDup(j.ready[p]) => NoDup(r.ready[p]))
    BY <1>1, <1>2, <2>2, SwitchFields, Zenon
  <2> HIDE DEF r
  <2>4. /\ r.prio = j.prio /\ r.base = j.base /\ r.item = j.item /\ r.free = j.free
        /\ r.event = j.event /\ r.suspended = j.suspended /\ r.missed = j.missed
    <3> DEFINE c == r.current
               y == r.ready
               z == r.top
    <3>1. r = [[[j EXCEPT !.top = z] EXCEPT !.current = c] EXCEPT !.ready = y]
      BY <2>3
    <3> HIDE DEF c, y, z
    <3>2. QED
      BY <1>1, <3>1 DEF Kernel
  <2>5. \A t : IsReady(r, t) <=> IsReady(j, t)
    BY <2>3 DEF IsReady
  <2>6. Onward(j, r)
    BY <2>1, <2>4, OnwardSame DEF IsDelayed
  <2>7. QED
    BY <1>2, <2>1, <2>4, <2>5, <2>6, Zenon DEF r, Woken, Still
<1>3. CASE j.susp = 1
  <2>1. /\ Fit(r, {}) /\ r.susp = j.susp /\ r.current = j.current /\ r.prio = j.prio /\ r.ready = j.ready
        /\ r.terminating = j.terminating /\ r.pending = j.pending
        /\ r.tick = j.tick /\ r.overflows = j.overflows /\ r.wake = j.wake
        /\ r.delayed = j.delayed /\ r.overflowed = j.overflowed
    BY <1>3, SwitchLater
  <2>2. r = [j EXCEPT !.missedYield = TRUE]
    BY <1>3 DEF vTaskSwitchContext
  <2> HIDE DEF r
  <2>3. /\ r.base = j.base /\ r.item = j.item /\ r.free = j.free
        /\ r.event = j.event /\ r.suspended = j.suspended /\ r.missed = j.missed
    BY <1>1, <2>2 DEF Kernel
  <2>4. Onward(j, r)
    BY <2>1, <2>3, OnwardSame DEF IsDelayed
  <2>5. j.susp # 0 /\ \A t : IsReady(r, t) <=> IsReady(j, t)
    BY <1>3, <2>1 DEF IsReady
  <2>6. QED
    BY <2>1, <2>3, <2>4, <2>5, Zenon DEF r, Woken, Still
<1>4. QED
  BY <1>1, <1>2, <1>3

-----------------------------------------------------------------------------
(* Time.                                                                   *)

\* Absolute time, modulo the rounds that xNumOfOverflows counts.
Now(j) == j.overflows * TickMod + j.tick
Round == OverflowMod * TickMod

\* From j to r the time has gone on by n ticks.
Passed(j, r, n) ==
    /\ Now(r) = Now(j) + n \/ Now(r) = Now(j) + n - Round
    /\ Clock(r) = Clock(j) + n \/ Clock(r) = Clock(j) + n - 2 * TickMod

\* From j to r the time has gone on by as many ticks as one step makes up for.
Elapses(j, r) == FewMissed => \E n \in 0..MaxMissed : Passed(j, r, n)

\* The tick count and the clock in numbers.
LEMMA TimeFacts ==
  ASSUME NEW j \in Kernel
  PROVE  /\ Round \in Nat /\ Round >= 2 * TickMod /\ Now(j) \in 0..Round-1 /\ Clock(j) \in 0..2*TickMod-1
         /\ TickMod \in Nat /\ TickMod >= 3 /\ j.tick \in 0..TickMod-1 /\ j.overflows \in 0..OverflowMod-1
         /\ OverflowMod \in Nat /\ OverflowMod >= 2 /\ OverflowMod % 2 = 0
<1>1. /\ TickMod \in Nat /\ TickMod >= 3 /\ j.tick \in 0..TickMod-1 /\ j.overflows \in 0..OverflowMod-1
      /\ OverflowMod \in Nat \ {0} /\ OverflowMod % 2 = 0
  BY TickModAssumption, SchedAssumption DEF Kernel, portTickType
<1>2. OverflowMod >= 2
  <2>1. OverflowMod # 1
    BY <1>1
  <2>2. QED
    BY <1>1, <2>1
<1>3. \A a, b \in Nat : a <= b => a * TickMod <= b * TickMod /\ a * TickMod \in Nat
  BY <1>1, SMT
<1>4. 2 * TickMod <= Round /\ Round \in Nat
  BY <1>1, <1>2, <1>3 DEF Round
<1>5. Now(j) \in 0..Round-1
  <2> DEFINE o == j.overflows
             m == OverflowMod - 1
  <2>1. o \in Nat /\ m \in Nat /\ o <= m
    BY <1>1, <1>2
  <2>2. o * TickMod <= m * TickMod /\ o * TickMod \in Nat /\ m * TickMod \in Nat
    BY <1>3, <2>1
  <2>3. Round = m * TickMod + TickMod
    BY <1>1 DEF Round
  <2>4. Now(j) = o * TickMod + j.tick
    BY DEF Now
  <2> HIDE DEF o, m
  <2> DEFINE x == o * TickMod
             y == m * TickMod
  <2> HIDE DEF x, y
  <2>5. x \in Nat /\ y \in Nat /\ x <= y /\ Round = y + TickMod /\ Now(j) = x + j.tick
    BY <2>2, <2>3, <2>4 DEF x, y
  <2>6. QED
    BY <1>1, <2>5
<1>6. Clock(j) \in 0..2*TickMod-1
  <2>1. j.overflows % 2 \in {0, 1}
    <3>1. j.overflows \in Nat
      BY <1>1
    <3>2. QED
      BY <3>1, Mod2
  <2>2. QED
    BY <1>1, <2>1 DEF Clock
<1>7. QED
  BY <1>1, <1>2, <1>4, <1>5, <1>6

\* No time passes while the tick count stays.
LEMMA StillPassed ==
  ASSUME NEW j \in Kernel, NEW r, r.tick = j.tick, r.overflows = j.overflows
  PROVE  Passed(j, r, 0) /\ Elapses(j, r)
<1>1. Now(r) = Now(j) /\ Clock(r) = Clock(j) /\ Now(j) \in Int /\ Clock(j) \in Int
  BY TimeFacts DEF Now, Clock
<1>2. Passed(j, r, 0)
  BY <1>1 DEF Passed
<1>3. 0 \in 0..MaxMissed
  BY SchedAssumption
<1>4. QED
  BY <1>2, <1>3 DEF Elapses

\* A tick is one tick of the clock.
LEMMA TickedPassed ==
  ASSUME NEW j \in Kernel, NEW u \in Kernel, Ticked(j, u)
  PROVE  Passed(j, u, 1)
<1>1. /\ Round \in Nat /\ Round >= 2 * TickMod /\ Now(j) \in 0..Round-1 /\ Clock(j) \in 0..2*TickMod-1
      /\ TickMod \in Nat /\ TickMod >= 3 /\ j.tick \in 0..TickMod-1 /\ j.overflows \in 0..OverflowMod-1
      /\ OverflowMod \in Nat /\ OverflowMod >= 2 /\ OverflowMod % 2 = 0
  BY TimeFacts
<1>2. u.tick = IF j.tick + 1 < TickMod THEN j.tick + 1 ELSE j.tick + 1 - TickMod
  BY DEF Ticked, Plus
<1>3. CASE u.tick # 0
  <2>1. u.overflows = j.overflows /\ u.tick = j.tick + 1
    BY <1>1, <1>2, <1>3 DEF Ticked
  <2>2. Now(u) = Now(j) + 1
    <3> DEFINE x == j.overflows * TickMod
    <3>1. x \in Int
      BY <1>1, SMT
    <3>2. Now(j) = x + j.tick /\ Now(u) = x + (j.tick + 1)
      BY <2>1 DEF Now
    <3> HIDE DEF x
    <3>3. QED
      BY <1>1, <3>1, <3>2
  <2>3. Clock(u) = Clock(j) + 1
    <3> DEFINE x == (j.overflows % 2) * TickMod
    <3>1. x \in Int
      <4>1. j.overflows % 2 \in {0, 1}
        BY <1>1, Mod2
      <4>2. QED
        BY <1>1, <4>1
    <3>2. Clock(j) = x + j.tick /\ Clock(u) = x + (j.tick + 1)
      BY <2>1 DEF Clock
    <3> HIDE DEF x
    <3>3. QED
      BY <1>1, <3>1, <3>2
  <2>4. QED
    BY <2>2, <2>3 DEF Passed
<1>4. CASE u.tick = 0
  <2>1. j.tick + 1 = TickMod /\ u.overflows = (j.overflows + 1) % OverflowMod
    BY <1>1, <1>2, <1>4 DEF Ticked
  <2>2. u.overflows % 2 = 1 - (j.overflows % 2) /\ j.overflows % 2 \in {0, 1}
    <3>1. u.overflows % 2 = 1 - (j.overflows % 2)
      BY <1>1, <2>1, Par
    <3>2. QED
      BY <1>1, <3>1, Mod2
  <2>3. Clock(u) = Clock(j) + 1 \/ Clock(u) = Clock(j) + 1 - 2 * TickMod
    <3> DEFINE b == j.overflows % 2
               c == u.overflows % 2
    <3>1. Clock(j) = b * TickMod + j.tick /\ Clock(u) = c * TickMod /\ c = 1 - b /\ b \in {0, 1}
      BY <1>1, <1>4, <2>2 DEF Clock
    <3> HIDE DEF b, c
    <3>2. CASE b = 0
      BY <1>1, <2>1, <3>1, <3>2
    <3>3. CASE b = 1
      BY <1>1, <2>1, <3>1, <3>3
    <3>4. QED
      BY <3>1, <3>2, <3>3
  <2>4. Now(u) = Now(j) + 1 \/ Now(u) = Now(j) + 1 - Round
    <3>1. CASE j.overflows + 1 < OverflowMod
      <4>1. u.overflows = j.overflows + 1
        BY <1>1, <2>1, <3>1, ModSmall
      <4>2. Now(u) = (j.overflows + 1) * TickMod /\ Now(j) = j.overflows * TickMod + j.tick
        BY <1>1, <1>4, <4>1 DEF Now
      <4>3. (j.overflows + 1) * TickMod = j.overflows * TickMod + TickMod
        BY <1>1, SMT
      <4>4. j.overflows * TickMod \in Int
        BY <1>1, SMT
      <4>5. QED
        BY <1>1, <2>1, <4>2, <4>3, <4>4
    <3>2. CASE j.overflows + 1 = OverflowMod
      <4>1. u.overflows = 0
        BY <1>1, <2>1, <3>2, ModOnce
      <4>2. Now(u) = 0 /\ Now(j) = j.overflows * TickMod + j.tick
        BY <1>1, <1>4, <4>1 DEF Now
      <4>3. Round = j.overflows * TickMod + TickMod
        <5>1. Round = (j.overflows + 1) * TickMod
          BY <3>2 DEF Round
        <5>2. QED
          BY <1>1, <5>1, SMT
      <4>4. j.overflows * TickMod \in Int
        BY <1>1, SMT
      <4>5. QED
        BY <1>1, <2>1, <4>2, <4>3, <4>4
    <3>3. QED
      BY <1>1, <3>1, <3>2
  <2>5. QED
    BY <2>3, <2>4 DEF Passed
<1>5. QED
  BY <1>3, <1>4

\* The ticks of two steps add up.
LEMMA PassedPassed ==
  ASSUME NEW i \in Kernel, NEW j \in Kernel, NEW r \in Kernel, NEW n \in Nat, NEW m \in Nat, n + m < 2 * TickMod,
         Passed(i, j, n), Passed(j, r, m)
  PROVE  Passed(i, r, n + m)
<1>1. /\ Round \in Nat /\ Round >= 2 * TickMod /\ TickMod \in Nat
      /\ Now(i) \in 0..Round-1 /\ Clock(i) \in 0..2*TickMod-1
      /\ Now(j) \in 0..Round-1 /\ Clock(j) \in 0..2*TickMod-1
      /\ Now(r) \in 0..Round-1 /\ Clock(r) \in 0..2*TickMod-1
  BY TimeFacts
<1>2. Now(r) = Now(i) + (n + m) \/ Now(r) = Now(i) + (n + m) - Round
  BY <1>1 DEF Passed
<1>3. Clock(r) = Clock(i) + (n + m) \/ Clock(r) = Clock(i) + (n + m) - 2 * TickMod
  BY <1>1 DEF Passed
<1>4. QED
  BY <1>2, <1>3 DEF Passed

-----------------------------------------------------------------------------
(* The tick interrupt and xTaskResumeAll.                                  *)

\* Looking at the delayed tasks wakes those whose time has come.
LEMMA CheckWoken ==
  ASSUME NEW j, Fit(j, {})
  PROVE  LET r == prvCheckDelayedTasks(j)
         IN /\ Woken(j, r) /\ Still(j, r) /\ r.current = j.current
            /\ ToSet(r.pending) \subseteq ToSet(j.pending)
<1> DEFINE r == prvCheckDelayedTasks(j)
<1>1. PICK s : Wakeable(j, s) /\ r = MakeReady(j, s)
  BY CheckIs
<1> HIDE DEF r
<1>2. /\ Woken(j, r) /\ Still(j, r) /\ r.current = j.current
      /\ ToSet(r.pending) = ToSet(j.pending) \ ToSet(s)
  BY <1>1, MakeReadyWoken
<1>3. QED
  BY <1>2 DEF r

\* The tick interrupt wakes them after the tick.
LEMMA IncrementWoken ==
  ASSUME NEW j, Fit(j, {}), j.susp = 0
  PROVE  LET r == vTaskIncrementTick(j)
         IN /\ Woken(j, r) /\ Passed(j, r, 1) /\ r.susp = 0 /\ r.missed = j.missed /\ r.current = j.current
            /\ ToSet(r.pending) \subseteq ToSet(j.pending)
<1> DEFINE r == vTaskIncrementTick(j)
<1>1. PICK u : Ticked(j, u) /\ r = prvCheckDelayedTasks(u)
  BY IncrementIs
<1> HIDE DEF r
<1>2. j \in Kernel /\ u \in Kernel /\ Fit(u, {})
  BY <1>1 DEF Fit, Ticked
<1>3. Woken(j, u)
  <2>1. \A t : IsDelayed(u, t) <=> IsDelayed(j, t)
    BY <1>1 DEF Ticked, IsDelayed
  <2>2. Onward(j, u)
    BY <1>1, <2>1, OnwardSame DEF Ticked
  <2>3. \A t : IsReady(j, t) => IsReady(u, t)
    BY <1>1 DEF Ticked, IsReady
  <2>4. QED
    BY <1>1, <1>2, <2>2, <2>3, Zenon DEF Woken, Ticked
<1>4. /\ Woken(u, r) /\ Still(u, r) /\ r.current = u.current
      /\ ToSet(r.pending) \subseteq ToSet(u.pending)
  BY <1>1, <1>2, CheckWoken
<1>5. Passed(j, u, 1)
  BY <1>1, <1>2, TickedPassed
<1>6. Passed(j, r, 1)
  BY <1>4, <1>5 DEF Passed, Still, Now, Clock
<1>7. Woken(j, r)
  BY <1>3, <1>4, WokenWoken
<1>8. QED
  BY <1>1, <1>4, <1>6, <1>7 DEF Still, Ticked, r

\* Made up for one by one, the missed ticks pass.
LEMMA CaughtUpWoken ==
  ASSUME NEW moved, Fit(moved, {}), moved.susp = 0, ToSet(moved.pending) = {}, NEW m \in 0..MaxMissed
  PROVE  LET caught[n \in 0..m] == IF n = 0 THEN moved ELSE vTaskIncrementTick(caught[n-1])
             r == caught[m]
         IN /\ Woken(moved, r) /\ Elapses(moved, r) /\ r.susp = 0 /\ r.current = moved.current
            /\ ToSet(r.pending) = {}
            /\ m = 0 => r = moved
<1> DEFINE caught[n \in 0..m] == IF n = 0 THEN moved ELSE vTaskIncrementTick(caught[n-1])
           good(j) == Woken(moved, j) /\ j.susp = 0 /\ j.current = moved.current /\ ToSet(j.pending) = {}
           X == {j \in Kernel : good(j)}
<1>0. m \in Nat /\ MaxMissed \in Nat /\ moved \in Kernel
  BY SchedAssumption DEF Fit
<1>1. moved \in X
  <2>1. Onward(moved, moved)
    BY OnwardSame
  <2>2. Woken(moved, moved)
    BY <2>1 DEF Woken
  <2>3. QED
    BY <1>0, <2>2
<1>2. ASSUME NEW j \in X
      PROVE  vTaskIncrementTick(j) \in X /\ Passed(j, vTaskIncrementTick(j), 1)
  <2> DEFINE r == vTaskIncrementTick(j)
  <2>1. Woken(moved, j) /\ j.susp = 0 /\ j.current = moved.current /\ ToSet(j.pending) = {}
    OBVIOUS
  <2>2. Fit(j, {})
    BY <2>1 DEF Woken
  <2>3. /\ Woken(j, r) /\ Passed(j, r, 1) /\ r.susp = 0 /\ r.missed = j.missed /\ r.current = j.current
        /\ ToSet(r.pending) \subseteq ToSet(j.pending)
    BY <2>1, <2>2, IncrementWoken
  <2> HIDE DEF r
  <2>4. Woken(moved, r)
    BY <2>1, <2>3, WokenWoken
  <2>5. r \in Kernel
    BY <2>3 DEF Woken, Fit
  <2>6. good(r)
    BY <2>1, <2>3, <2>4
  <2>7. QED
    BY <2>3, <2>5, <2>6 DEF r
<1> HIDE DEF X
<1>3. /\ caught[0] = moved
      /\ \A n \in 1..m : caught[n] = vTaskIncrementTick(caught[n-1])
      /\ \A n \in 0..m : caught[n] \in X
  BY <1>0, <1>1, <1>2, CatchUp
<1> HIDE DEF caught
<1>4. good(caught[m]) /\ (m = 0 => caught[m] = moved)
  BY <1>0, <1>3 DEF X
<1>5. ASSUME FewMissed PROVE \E n \in 0..MaxMissed : Passed(moved, caught[m], n)
  <2> DEFINE P == {n \in 0..m : Passed(moved, caught[n], n)}
  <2>1. 0 \in P
    BY <1>0, <1>3, StillPassed
  <2>2. ASSUME NEW n \in 1..m, n - 1 \in P PROVE n \in P
    <3>1. n - 1 \in 0..m /\ Passed(moved, caught[n-1], n-1)
      BY <2>2
    <3>2. caught[n-1] \in X /\ caught[n] \in X /\ caught[n] = vTaskIncrementTick(caught[n-1]) /\ n \in 0..m
      BY <1>3, <3>1
    <3>3. caught[n-1] \in Kernel /\ caught[n] \in Kernel
      BY <3>2 DEF X
    <3>4. Passed(caught[n-1], caught[n], 1)
      BY <1>2, <3>2
    <3>5. n - 1 \in Nat /\ 1 \in Nat /\ (n - 1) + 1 < 2 * TickMod /\ (n - 1) + 1 = n
      BY <1>0, <1>5, TickModAssumption DEF FewMissed
    <3> DEFINE x == n - 1
               y == caught[x]
               z == caught[n]
    <3> HIDE DEF P, x, y, z
    <3>6. Passed(moved, z, x + 1)
      BY <1>0, <3>1, <3>3, <3>4, <3>5, PassedPassed DEF x, y, z
    <3>7. QED
      BY <3>2, <3>5, <3>6 DEF P, x, z
  <2> HIDE DEF P
  <2>3. m \in P
    <3>1. m \in 0..m
      BY <1>0
    <3>2. QED
      BY <1>0, <2>1, <2>2, <3>1, UpTo
  <2>4. QED
    BY <2>3 DEF P
<1>6. QED
  BY <1>4, <1>5, Zenon DEF caught, Elapses

\* A task that waits for an event, or that is pending, is neither ready nor
\* deleted.
LEMMA AwaitingFacts ==
  ASSUME NEW j, Fit(j, {}), Apart(j), NEW t, Awaits(j, t) \/ t \in ToSet(j.pending)
  PROVE  /\ t \in Task /\ t # Idle /\ ~IsReady(j, t) /\ t \notin j.free \cup ToSet(j.terminating)
         /\ IsDelayed(j, t) \/ t \in j.suspended
<1>1. j \in Kernel /\ Placed(j, {}) /\ Idle \in ToSet(j.ready[0])
  BY DEF Fit
<1>2. IsDelayed(j, t) \/ t \in j.suspended
  BY Zenon DEF Apart
<1>3. t \in Task
  <2>1. j.delayed \in Seq(Task) /\ j.overflowed \in Seq(Task) /\ j.suspended \subseteq Task
    BY <1>1 DEF Kernel
  <2>2. QED
    BY <1>2, <2>1 DEF IsDelayed, ToSet
<1>4. OnePlace(j, t)
  BY <1>1, <1>3 DEF Placed
<1>5. ~IsReady(j, t) /\ t \notin j.free \cup ToSet(j.terminating)
  BY <1>2, <1>4 DEF OnePlace, IsDelayed
<1>6. IsReady(j, Idle)
  BY <1>1, PriorityFacts DEF IsReady
<1>7. QED
  BY <1>2, <1>3, <1>5, <1>6

\* xTaskResumeAll makes the pending tasks ready and lets the missed ticks pass.
LEMMA ResumeWoken ==
  ASSUME NEW j, Fit(j, {}), Apart(j), j.susp = 1
  PROVE  LET r == xTaskResumeAll(j)
         IN /\ Woken(j, r.k) /\ Elapses(j, r.k) /\ r.k.susp = 0 /\ ToSet(r.k.pending) = {}
            /\ r.yielded \in BOOLEAN
            /\ IF r.yielded THEN Chosen(r.k) ELSE r.k.current = j.current /\ (Chosen(j) => Chosen(r.k))
<1> DEFINE u == [j EXCEPT !.susp = @ - 1]
           s == j.pending
           S == ToSet(s)
           moved == MakeReady(u, s)
           m == j.missed
           caught[n \in 0..m] == IF n = 0 THEN moved ELSE vTaskIncrementTick(caught[n-1])
           c == caught[m]
           done == [c EXCEPT !.missed = 0]
           r == xTaskResumeAll(j)
<1>1. r = IF YieldRequired(j)
          THEN [k |-> vTaskSwitchContext([done EXCEPT !.missedYield = FALSE]), yielded |-> TRUE]
          ELSE [k |-> done, yielded |-> FALSE]
  BY DEF xTaskResumeAll
<1>2. j \in Kernel /\ s \in Seq(Task) /\ NoDup(s) /\ m \in 0..MaxMissed /\ MaxMissed \in Nat
  <2>1. j \in Kernel /\ NoDup(s)
    BY DEF Fit, Placed, NoDups
  <2>2. MaxMissed \in Nat
    BY SchedAssumption
  <2>3. QED
    BY <2>1, <2>2, Zenon DEF Kernel
<1> HIDE DEF r, caught
<1>3. /\ u \in Kernel /\ u.susp = 0 /\ u.current = j.current /\ u.base = j.base /\ u.item = j.item /\ u.event = j.event
      /\ u.prio = j.prio /\ u.ready = j.ready /\ u.delayed = j.delayed /\ u.overflowed = j.overflowed
      /\ u.pending = j.pending /\ u.suspended = j.suspended /\ u.terminating = j.terminating
      /\ u.deleted = j.deleted /\ u.free = j.free /\ u.wake = j.wake /\ u.tick = j.tick
      /\ u.overflows = j.overflows /\ u.top = j.top
  <2>1. u = [j EXCEPT !.susp = 0]
    BY <1>2 DEF Kernel
  <2> HIDE DEF u
  <2>2. QED
    BY ZenonT(60), <1>2, <2>1 DEF Kernel
<1> HIDE DEF u
<1>4. Fit(u, {}) /\ Woken(j, u)
  <2>1. Fit(u, {})
    BY <1>3 DEF Fit, Placed, NoDups, OnePlace, IsReady, TopCovers
  <2>2. Onward(j, u)
    BY <1>3, OnwardSame DEF IsDelayed
  <2>3. QED
    BY <1>3, <2>1, <2>2 DEF Woken, IsReady
<1>5. Wakeable(u, s)
  <2>1. \A t \in S : t # Idle /\ t \notin j.free \cup ToSet(j.terminating)
    BY AwaitingFacts
  <2>2. Fit(u, S)
    BY <1>4 DEF Fit, Placed
  <2>3. QED
    BY <1>2, <1>3, <2>1, <2>2 DEF Wakeable
<1>6. /\ Woken(u, moved) /\ Still(u, moved) /\ moved.current = u.current
      /\ ToSet(moved.pending) = ToSet(u.pending) \ S
      /\ \A l \in EventList : ToSet(moved.event[l]) = ToSet(u.event[l]) \ S
      /\ \A p \in Priority : ToSet(moved.ready[p]) = (ToSet(u.ready[p]) \ S) \cup {t \in S : u.prio[t] = p}
  BY <1>5, MakeReadyWoken
<1> HIDE DEF moved
<1>7. Fit(moved, {}) /\ moved.susp = 0 /\ ToSet(moved.pending) = {}
  BY <1>3, <1>6 DEF Woken, Still
<1>8. /\ Woken(moved, c) /\ Elapses(moved, c) /\ c.susp = 0 /\ c.current = moved.current
      /\ ToSet(c.pending) = {}
      /\ m = 0 => c = moved
  <2> HIDE DEF m
  <2>1. QED
    BY <1>2, <1>7, CaughtUpWoken, Zenon DEF caught
<1> HIDE DEF c
<1>9. /\ done \in Kernel /\ done.susp = c.susp /\ done.current = c.current
      /\ done.prio = c.prio /\ done.base = c.base /\ done.item = c.item /\ done.event = c.event
      /\ done.ready = c.ready /\ done.delayed = c.delayed /\ done.overflowed = c.overflowed
      /\ done.pending = c.pending /\ done.suspended = c.suspended /\ done.terminating = c.terminating
      /\ done.deleted = c.deleted /\ done.free = c.free /\ done.wake = c.wake /\ done.tick = c.tick
      /\ done.overflows = c.overflows /\ done.top = c.top
  <2>1. c \in Kernel /\ 0 \in 0..MaxMissed
    BY <1>2, <1>8 DEF Fit, Woken
  <2>2. QED
    BY ZenonT(60), <2>1 DEF Kernel
<1> HIDE DEF done
<1>10. Fit(done, {}) /\ Woken(c, done)
  <2>1. Fit(c, {})
    BY <1>8 DEF Woken
  <2>2. Fit(done, {})
    BY <1>9, <2>1 DEF Fit, Placed, NoDups, OnePlace, IsReady, TopCovers
  <2>3. Onward(c, done)
    BY <1>9, OnwardSame DEF IsDelayed
  <2>4. QED
    BY <1>9, <2>2, <2>3 DEF Woken, IsReady
<1>11. Woken(j, done)
  <2>1. Woken(j, moved)
    BY <1>4, <1>6, WokenWoken
  <2>2. Woken(j, c)
    BY <1>8, <2>1, WokenWoken
  <2>3. QED
    BY <1>10, <2>2, WokenWoken
<1>12. Elapses(j, done) /\ done.susp = 0 /\ ToSet(done.pending) = {} /\ done.current = j.current
  <2>1. Now(moved) = Now(j) /\ Clock(moved) = Clock(j) /\ Now(done) = Now(c) /\ Clock(done) = Clock(c)
    BY <1>3, <1>6, <1>9 DEF Now, Clock, Still
  <2>2. Elapses(j, done)
    BY <1>8, <2>1 DEF Elapses, Passed
  <2>3. QED
    BY <1>3, <1>6, <1>8, <1>9, <2>2
<1>13. CASE YieldRequired(j)
  <2> DEFINE v == [done EXCEPT !.missedYield = FALSE]
             w == vTaskSwitchContext(v)
  <2>1. r.k = w /\ r.yielded = TRUE
    BY <1>1, <1>13
  <2>2. /\ v \in Kernel /\ v.susp = done.susp /\ v.current = done.current
        /\ v.prio = done.prio /\ v.base = done.base /\ v.item = done.item /\ v.event = done.event
        /\ v.ready = done.ready /\ v.delayed = done.delayed /\ v.overflowed = done.overflowed
        /\ v.pending = done.pending /\ v.suspended = done.suspended /\ v.terminating = done.terminating
        /\ v.deleted = done.deleted /\ v.free = done.free /\ v.wake = done.wake /\ v.tick = done.tick
        /\ v.overflows = done.overflows /\ v.top = done.top
    BY ZenonT(60), <1>9 DEF Kernel
  <2> HIDE DEF v
  <2>3. Fit(v, {}) /\ Woken(done, v)
    <3>1. Fit(v, {})
      BY SMTT(30), <1>10, <2>2 DEF Fit, Placed, NoDups, OnePlace, IsReady, TopCovers
    <3>2. Onward(done, v)
      BY <2>2, OnwardSame DEF IsDelayed
    <3>3. QED
      BY <2>2, <3>1, <3>2 DEF Woken, IsReady
  <2>4. /\ Woken(v, w) /\ Still(v, w) /\ w.event = v.event /\ w.pending = v.pending /\ w.suspended = v.suspended
        /\ w.delayed = v.delayed /\ w.overflowed = v.overflowed
        /\ \A t : IsReady(w, t) <=> IsReady(v, t)
        /\ IF v.susp = 0 THEN Chosen(w) ELSE w.current = v.current /\ w.ready = v.ready
    BY <2>3, SwitchWoken
  <2> HIDE DEF w
  <2>5. Woken(j, w)
    BY <1>11, <2>3, <2>4, WokenWoken
  <2>6. Now(w) = Now(done) /\ Clock(w) = Clock(done) /\ w.susp = 0 /\ w.pending = done.pending /\ Chosen(w)
    BY <1>12, <2>2, <2>4 DEF Still, Now, Clock
  <2>7. Elapses(j, w)
    BY <1>12, <2>6 DEF Elapses, Passed
  <2>8. QED
    BY <1>12, <2>1, <2>5, <2>6, <2>7, Zenon DEF r
<1>14. CASE ~YieldRequired(j)
  <2>1. r.k = done /\ r.yielded = FALSE
    BY <1>1, <1>14
  <2>2. m = 0 /\ \A t \in S : ~(j.prio[t] >= j.prio[j.current])
    BY <1>2, <1>14 DEF YieldRequired, YieldForPending
  <2>3. c = moved
    BY <1>8, <2>2
  <2>4. ASSUME Chosen(j) PROVE Chosen(done)
    <3>0. \A t \in S : t \in Task
      BY <1>2 DEF ToSet
    <3> HIDE DEF S
    <3>1. /\ done.current = j.current /\ done.prio = j.prio /\ done.ready = moved.ready
          /\ j.current \in Task /\ j.prio[j.current] \in Priority /\ \A t \in S : t \in Task /\ j.prio[t] \in Priority
      <4>1. j.current \in Task /\ j.prio \in [Task -> Priority]
        BY <1>2 DEF Kernel
      <4>2. done.prio = j.prio
        BY <1>11 DEF Woken
      <4>3. QED
        BY <1>9, <1>12, <2>3, <3>0, <4>1, <4>2
    <3>2. j.current \notin S
      BY <2>2, <3>1, PriorityFacts
    <3>3. done.current \in ToSet(done.ready[done.prio[done.current]])
      BY <1>3, <1>6, <2>4, <3>1, <3>2 DEF Chosen
    <3>4. ASSUME NEW p \in Priority, p > j.prio[j.current] PROVE done.ready[p] = <<>>
      <4>1. j.ready[p] = <<>> /\ j.ready[p] \in Seq(Task) /\ done.ready[p] \in Seq(Task)
        BY <1>2, <1>9, <2>4, <3>4, Zenon DEF Chosen, Kernel
      <4>2. \A t \in S : j.prio[t] # p
        BY <2>2, <3>1, <3>4, PriorityFacts
      <4>3. ToSet(j.ready[p]) = {}
        BY <4>1, NotEmpty, Zenon
      <4>4. ToSet(done.ready[p]) = (ToSet(j.ready[p]) \ S) \cup {t \in S : j.prio[t] = p}
        BY <1>3, <1>6, <3>1
      <4>5. ToSet(done.ready[p]) = {}
        BY <4>2, <4>3, <4>4
      <4>6. QED
        BY <4>1, <4>5, NotEmpty
    <3>5. QED
      BY <3>1, <3>3, <3>4 DEF Chosen
  <2>5. QED
    BY <1>11, <1>12, <2>1, <2>4, Zenon DEF r
<1>15. QED
  BY <1>13, <1>14

-----------------------------------------------------------------------------
(* Tasks that also call a queue (RtosQueue): what the invariant of such a  *)
(* system says of the kernel, and what a step of the scheduler alone does  *)
(* to it.  A call to the queue has places and locals of its own.           *)

\* Where a task can be in a call to the queue.
QPlaces == {"q_top", "q_suspend", "q_lock", "q_check", "q_test", "q_place",
            "q_unlock", "q_unlock_rx", "q_resume", "q_yield"}

\* Where it has suspended the scheduler, and where it has locked the queue.
QLocking == {"q_lock", "q_check", "q_test", "q_place", "q_unlock", "q_unlock_rx", "q_resume"}
QLocked == {"q_check", "q_test", "q_place", "q_unlock"}

\* On the way from the list it has joined to the loop.
Parting == {"q_unlock", "q_unlock_rx", "q_resume"}

CallType == [op : {"none", "send", "receive", "peek"}, wait : portTickType,
             timeSet : BOOLEAN, path : {"block", "retry", "fail"},
             timeout : [overflows : 0..OverflowMod-1, entered : portTickType]]

\* Task t is about to yield, and need not be ready any more.
Leaving(at, c, t) == at[t] \in {"yield", "resume", "q_yield"} \/ (at[t] \in Parting /\ c[t].path = "block")

\* The scheduler is suspended where the running task has suspended it; the
\* running task is ready up to the point where it blocks.
Core(j, at, c) ==
    /\ at \in [Task -> Places \cup QPlaces] /\ c \in [Task -> CallType]
    /\ Fit(j, {}) /\ Apart(j)
    /\ j.susp = 1 <=> at[j.current] \in Locking \cup QLocking
    /\ \A t \in Task \ {j.current} : at[t] \notin Locking \cup QLocking
    /\ ~Leaving(at, c, j.current) => IsReady(j, j.current)
    /\ at[Idle] \in Places /\ (at[Idle] = "free" => ToSet(j.terminating) # {})

\* What a step of the scheduler, the idle task or the tick interrupt leaves of
\* the kernel, of where the tasks are and of their wake times.
Outside(c, j, at, d, r, bt, e) ==
    /\ Core(r, bt, c) /\ Onward(j, r) /\ Elapses(j, r)
    /\ e \in [Task -> 0..2*TickMod-1]
    /\ \A t \in Task : Awaits(r, t) /\ IsDelayed(r, t) => e[t] = d[t]
    /\ \A t \in Task : bt[t] = at[t] \/ (bt[t] \in Places /\ (NoCreation => at[t] \in Places))
    /\ \/ r.current = j.current /\ bt[r.current] = at[j.current]
       \/ at[j.current] \notin QLocking /\ bt[r.current] \notin QLocking
    /\ at[j.current] \in QLocking => r.tick = j.tick /\ r.overflows = j.overflows
    /\ \/ Leaving(bt, c, r.current) \/ Chosen(r)
       \/ r.current = j.current /\ ~Leaving(at, c, j.current) /\ (Chosen(j) => Chosen(r))
    /\ \A t \in Task : \/ r.prio[t] = j.prio[t] /\ r.base[t] = j.base[t] /\ r.item[t] = j.item[t]
                       \/ ~FixedPriorities /\ r.item[t] = r.base[t] /\ (j.prio[t] = j.base[t] => r.prio[t] = r.base[t])
    /\ MildCalls => \A t : IsReady(j, t) => IsReady(r, t) \/ (t = j.current /\ at[t] \in Places)

\* What a caller of the API finds.
LEMMA Caller ==
  ASSUME NEW calls, Core(k, pc, calls), NEW t \in Task, NEW f, Calling(t, f)
  PROVE  /\ k \in Kernel /\ Fit(k, {}) /\ Apart(k) /\ k.current = t /\ pc[t] = "app" /\ t # Idle /\ k.susp = 0
         /\ IsReady(k, t) /\ t \in ToSet(k.ready[k.prio[t]]) /\ k.prio[t] \in Priority
         /\ t \notin k.free \cup ToSet(k.terminating) /\ t \notin k.suspended /\ ~IsDelayed(k, t)
         /\ ToSet(k.pending) = {} /\ ~Awaits(k, t) /\ ~Leaving(pc, calls, t)
<1>1. k.current = t /\ pc[t] = "app" /\ t # Idle
  BY DEF Calling, Runs
<1>2. /\ k \in Kernel /\ Placed(k, {}) /\ k.susp \in {0, 1} /\ k.prio[t] \in Priority /\ Fit(k, {}) /\ Apart(k)
  BY Zenon DEF Core, Fit, Kernel
<1>3. pc[t] \notin Locking \cup QLocking /\ ~Leaving(pc, calls, t)
  BY <1>1 DEF Locking, QLocking, Leaving, Parting
<1>4. k.susp = 0 /\ IsReady(k, t)
  BY <1>1, <1>2, <1>3 DEF Core
<1>5. t \in ToSet(k.ready[k.prio[t]])
  BY <1>2, <1>4 DEF Placed, IsReady
<1>6. OnePlace(k, t)
  BY <1>2 DEF Placed
<1>7. t \notin k.free \cup ToSet(k.terminating) /\ t \notin k.suspended /\ ~IsDelayed(k, t)
  BY <1>4, <1>6 DEF OnePlace, IsDelayed
<1>8. ToSet(k.pending) = {} /\ ~Awaits(k, t)
  BY <1>4, <1>7, <1>2 DEF Apart
<1>9. QED
  BY <1>1, <1>2, <1>3, <1>4, <1>5, <1>7, <1>8

\* A call of the running task, which may bring a new task to its start.
LEMMA OutsideCaller ==
  ASSUME NEW calls, Core(k, pc, calls), NEW t \in Task, NEW f, Calling(t, f),
         NEW p \in Places, pc' \in [Task -> Places \cup QPlaces], pc'[t] = p,
         \A y \in Task \ {t} : pc'[y] = pc[y] \/ (y # Idle /\ pc'[y] = "app" /\ ~NoCreation),
         Fit(k', {}), Apart(k'), Onward(k, k'), k'.tick = k.tick, k'.overflows = k.overflows,
         ToSet(k.terminating) \subseteq ToSet(k'.terminating),
         k'.susp = 1 <=> p \in Locking, k'.susp = 1 => k'.current = t,
         \/ p \in {"yield", "resume"} /\ k'.current = t
         \/ Chosen(k')
         \/ k'.current = t /\ IsReady(k', t) /\ (Chosen(k) => Chosen(k')),
         due' \in [Task -> 0..2*TickMod-1],
         \A x \in Task : Awaits(k', x) /\ IsDelayed(k', x) => due'[x] = due[x],
         \A x \in Task :
            \/ k'.prio[x] = k.prio[x] /\ k'.base[x] = k.base[x] /\ k'.item[x] = k.item[x]
            \/ ~FixedPriorities /\ k'.item[x] = k'.base[x] /\ (k.prio[x] = k.base[x] => k'.prio[x] = k'.base[x]),
         MildCalls => \A x : IsReady(k, x) => IsReady(k', x) \/ x = t
  PROVE  Outside(calls, k, pc, due, k', pc', due')
<1>1. /\ k \in Kernel /\ Fit(k, {}) /\ Apart(k) /\ k.current = t /\ pc[t] = "app" /\ t # Idle /\ k.susp = 0
      /\ ~Leaving(pc, calls, t)
  BY Caller
<1>2. k' \in Kernel /\ k'.current \in Task /\ k'.susp \in {0, 1} /\ k'.prio[k'.current] \in Priority
  BY Zenon DEF Fit, Kernel
<1>3. /\ pc \in [Task -> Places \cup QPlaces] /\ calls \in [Task -> CallType]
      /\ \A x \in Task : pc[x] \notin Locking \cup QLocking
      /\ pc[Idle] \in Places /\ (pc[Idle] = "free" => ToSet(k.terminating) # {})
  BY <1>1 DEF Core
<1>4. /\ pc' \in [Task -> Places \cup QPlaces] /\ pc'[t] = p
      /\ \A x \in Task \ {t} : pc'[x] = pc[x] \/ pc'[x] = "app"
  OBVIOUS
<1>5. p \notin QLocking /\ p \notin Parting /\ "app" \in Places /\ "app" \notin Locking \cup QLocking
  BY DEF Places, Locking, QLocking, Parting
<1>6. Chosen(k') => IsReady(k', k'.current)
  BY <1>2 DEF Chosen, IsReady
<1>7. /\ k'.susp = 1 <=> pc'[k'.current] \in Locking \cup QLocking
      /\ \A x \in Task \ {k'.current} : pc'[x] \notin Locking \cup QLocking
  BY <1>2, <1>3, <1>4, <1>5
<1>8. ~Leaving(pc', calls, k'.current) => IsReady(k', k'.current)
  <2>1. p \in {"yield", "resume"} /\ k'.current = t => Leaving(pc', calls, k'.current)
    BY <1>4 DEF Leaving
  <2>2. QED
    BY <1>6, <2>1
<1>9. Core(k', pc', calls)
  <2>1. pc'[Idle] = pc[Idle]
    BY <1>1, IdleIsTask
  <2>2. QED
    BY <1>3, <1>4, <1>7, <1>8, <2>1 DEF Core
<1>10. Elapses(k, k')
  BY <1>1, StillPassed
<1>11. \A x \in Task : pc'[x] = pc[x] \/ (pc'[x] \in Places /\ (NoCreation => pc[x] \in Places))
  BY <1>1, <1>4, <1>5
<1>12. pc[k.current] \notin QLocking /\ pc'[k'.current] \notin QLocking
  BY <1>1, <1>2, <1>3, <1>4, <1>5
<1>13. \/ Leaving(pc', calls, k'.current) \/ Chosen(k')
       \/ k'.current = k.current /\ ~Leaving(pc, calls, k.current) /\ (Chosen(k) => Chosen(k'))
  <2>1. p \in {"yield", "resume"} /\ k'.current = t => Leaving(pc', calls, k'.current)
    BY <1>4 DEF Leaving
  <2>2. QED
    BY <1>1, <2>1
<1>14. MildCalls => \A x : IsReady(k, x) => IsReady(k', x) \/ (x = k.current /\ pc[x] \in Places)
  BY <1>1, <1>5
<1>15. QED
  BY <1>9, <1>10, <1>11, <1>12, <1>13, <1>14 DEF Outside

\* A call of the running task that moves it alone.
LEMMA OutsideCall ==
  ASSUME NEW calls, Core(k, pc, calls), NEW t \in Task, NEW f, Calling(t, f),
         NEW p \in Places, pc' = [pc EXCEPT ![t] = p],
         Fit(k', {}), Apart(k'), Onward(k, k'), k'.tick = k.tick, k'.overflows = k.overflows,
         ToSet(k.terminating) \subseteq ToSet(k'.terminating),
         k'.susp = 1 <=> p \in Locking, k'.susp = 1 => k'.current = t,
         \/ p \in {"yield", "resume"} /\ k'.current = t
         \/ Chosen(k')
         \/ k'.current = t /\ IsReady(k', t) /\ (Chosen(k) => Chosen(k')),
         due' \in [Task -> 0..2*TickMod-1],
         \A x \in Task : Awaits(k', x) /\ IsDelayed(k', x) => due'[x] = due[x],
         \A x \in Task :
            \/ k'.prio[x] = k.prio[x] /\ k'.base[x] = k.base[x] /\ k'.item[x] = k.item[x]
            \/ ~FixedPriorities /\ k'.item[x] = k'.base[x] /\ (k.prio[x] = k.base[x] => k'.prio[x] = k'.base[x]),
         MildCalls => \A x : IsReady(k, x) => IsReady(k', x) \/ x = t
  PROVE  Outside(calls, k, pc, due, k', pc', due')
<1>1. pc \in [Task -> Places \cup QPlaces]
  BY DEF Core
<1>2. /\ pc' \in [Task -> Places \cup QPlaces] /\ pc'[t] = p
      /\ \A y \in Task \ {t} : pc'[y] = pc[y]
  BY <1>1
<1>3. QED
  BY <1>2, OutsideCaller, Zenon

\* A step that keeps the times of the delayed tasks.
LEMMA KeepDueSame ==
  ASSUME due \in [Task -> 0..2*TickMod-1], KeepDue
  PROVE  /\ due' \in [Task -> 0..2*TickMod-1]
         /\ \A x \in Task : Awaits(k', x) /\ IsDelayed(k', x) => due'[x] = due[x]
<1>1. 0 \in 0..2*TickMod-1
  BY TickModAssumption
<1>2. QED
  BY <1>1 DEF KeepDue

\* vTaskSuspendAll leaves every list as it is.
LEMMA SuspendAllOnward ==
  ASSUME NEW j, Fit(j, {}), j.susp = 0
  PROVE  LET r == vTaskSuspendAll(j)
         IN /\ Woken(j, r) /\ r.susp = 1 /\ r.current = j.current /\ r.tick = j.tick /\ r.overflows = j.overflows
            /\ r.ready = j.ready /\ r.event = j.event /\ r.pending = j.pending /\ r.suspended = j.suspended
            /\ r.delayed = j.delayed /\ r.overflowed = j.overflowed /\ r.missed = j.missed /\ r.wake = j.wake
            /\ Apart(j) => Apart(r)
            /\ Chosen(j) => Chosen(r)
<1> DEFINE r == vTaskSuspendAll(j)
<1>1. j \in Kernel
  BY DEF Fit
<1>2. r = [j EXCEPT !.susp = 1]
  BY <1>1 DEF vTaskSuspendAll, Kernel
<1> HIDE DEF r
<1>3. /\ r \in Kernel /\ r.susp = 1 /\ r.current = j.current
      /\ r.prio = j.prio /\ r.base = j.base /\ r.item = j.item /\ r.event = j.event
      /\ r.ready = j.ready /\ r.delayed = j.delayed /\ r.overflowed = j.overflowed
      /\ r.pending = j.pending /\ r.suspended = j.suspended /\ r.terminating = j.terminating
      /\ r.deleted = j.deleted /\ r.free = j.free /\ r.wake = j.wake /\ r.tick = j.tick
      /\ r.overflows = j.overflows /\ r.top = j.top /\ r.missed = j.missed
  BY ZenonT(60), <1>1, <1>2 DEF Kernel
<1>4. Fit(r, {})
  BY SMTT(30), <1>3 DEF Fit, Placed, NoDups, OnePlace, IsReady, TopCovers
<1>5. Onward(j, r)
  BY <1>3, OnwardSame DEF IsDelayed
<1>6. Woken(j, r)
  BY <1>3, <1>4, <1>5 DEF Woken, IsReady
<1>7. Apart(j) => Apart(r)
  BY <1>3, <1>5, ApartOnward
<1>8. Chosen(j) => Chosen(r)
  BY <1>3 DEF Chosen
<1>9. QED
  BY <1>3, <1>6, <1>7, <1>8 DEF r

\* A ready task that blocks for a time waits for no event.
LEMMA BlockedOnward ==
  ASSUME NEW j, Apart(j), NEW t \in Task, ~Awaits(j, t), t \notin ToSet(j.pending),
         NEW wake, NEW r, Blocked(j, r, t, wake)
  PROVE  /\ Fit(r, {}) /\ Onward(j, r) /\ Apart(r)
         /\ \A x : IsReady(j, x) => IsReady(r, x) \/ x = t
<1>1. /\ r.event = j.event /\ r.pending = j.pending /\ r.susp = j.susp
      /\ \A p \in Priority : ToSet(r.ready[p]) = ToSet(j.ready[p]) \ {t}
      /\ r.suspended = j.suspended \ {t}
  BY DEF Blocked
<1>2. \A x : x # t => (IsDelayed(r, x) <=> IsDelayed(j, x))
  BY DEF Blocked, IsDelayed
<1>3. Onward(j, r)
  <2>1. \A x : Awaits(r, x) => Awaits(j, x)
    BY <1>1 DEF Awaits
  <2>2. \A x : Awaits(r, x) \/ x \in ToSet(r.pending) => x # t
    BY <1>1, <2>1
  <2>3. \A x : x # t => (x \in r.suspended <=> x \in j.suspended)
    BY <1>1
  <2>4. QED
    BY <1>1, <1>2, <2>2, <2>3 DEF Onward
<1>4. Apart(r)
  BY <1>1, <1>3, ApartOnward DEF Apart
<1>5. \A x : IsReady(j, x) => IsReady(r, x) \/ x = t
  BY <1>1 DEF IsReady
<1>6. QED
  BY <1>3, <1>4, <1>5 DEF Blocked

\* A time modulo two rounds of the tick count.
LEMMA LaterType ==
  ASSUME NEW j \in Kernel, NEW n \in Nat
  PROVE  Later(Clock(j), n) \in 0..2*TickMod-1
<1>1. TickMod \in Nat /\ TickMod >= 3 /\ Clock(j) \in 0..2*TickMod-1
  BY TimeFacts
<1>2. 2 * TickMod \in Nat \ {0} /\ Clock(j) + n \in Nat
  BY <1>1
<1>3. QED
  BY <1>2, ModType, Zenon DEF Later

\* The running task blocks for a time.
LEMMA OutsideBlock ==
  ASSUME NEW calls, Core(k, pc, calls), NEW t \in Task, NEW f, Calling(t, f), NEW wake \in portTickType, NEW n \in Nat,
         due \in [Task -> 0..2*TickMod-1],
         k' = DelayTask(vTaskSuspendAll(k), t, wake), due' = [due EXCEPT ![t] = Later(Clock(k), n)], Goto(t, "resume")
  PROVE  Outside(calls, k, pc, due, k', pc', due')
<1> DEFINE u == vTaskSuspendAll(k)
           r == DelayTask(u, t, wake)
<1>1. /\ k \in Kernel /\ Fit(k, {}) /\ Apart(k) /\ k.current = t /\ t # Idle /\ k.susp = 0
      /\ t \notin k.free \cup ToSet(k.terminating)
      /\ ToSet(k.pending) = {} /\ ~Awaits(k, t)
  BY Caller
<1>2. /\ Woken(k, u) /\ u.susp = 1 /\ u.current = k.current /\ u.tick = k.tick /\ u.overflows = k.overflows
      /\ u.ready = k.ready /\ u.event = k.event /\ u.pending = k.pending /\ u.suspended = k.suspended
      /\ u.delayed = k.delayed /\ u.overflowed = k.overflowed /\ u.missed = k.missed
      /\ Apart(u)
  BY <1>1, SuspendAllOnward
<1> HIDE DEF u
<1>3. /\ Fit(u, {}) /\ t \notin u.free \cup ToSet(u.terminating) /\ ~Awaits(u, t) /\ t \notin ToSet(u.pending)
      /\ u.terminating = k.terminating /\ u.prio = k.prio /\ u.base = k.base /\ u.item = k.item
  BY <1>1, <1>2 DEF Woken, Awaits
<1>4. Blocked(u, r, t, wake)
  BY <1>1, <1>3, DelayTaskPlace
<1> HIDE DEF r
<1>5. /\ Fit(r, {}) /\ Onward(u, r) /\ Apart(r)
      /\ \A x : IsReady(u, x) => IsReady(r, x) \/ x = t
  BY <1>2, <1>3, <1>4, BlockedOnward
<1>6. /\ r.terminating = k.terminating /\ r.current = k.current /\ r.susp = 1
      /\ r.tick = k.tick /\ r.overflows = k.overflows
      /\ r.prio = k.prio /\ r.base = k.base /\ r.item = k.item /\ r.event = k.event
  BY <1>2, <1>3, <1>4 DEF Blocked
<1>7. Onward(k, r) /\ \A x : IsReady(k, x) => IsReady(r, x) \/ x = t
  BY <1>2, <1>5, OnwardOnward DEF Woken
<1>8. k' = r
  BY DEF u, r
<1>9. due' \in [Task -> 0..2*TickMod-1] /\ \A x \in Task \ {t} : due'[x] = due[x]
  BY <1>1, LaterType
<1>10. ~Awaits(r, t)
  BY <1>1, <1>6 DEF Awaits
<1>11. pc' = [pc EXCEPT ![t] = "resume"] /\ "resume" \in Places /\ "resume" \in Locking
  BY DEF Goto, Places, Locking
<1>12. /\ Fit(k', {}) /\ Apart(k') /\ Onward(k, k') /\ k'.tick = k.tick /\ k'.overflows = k.overflows
       /\ ToSet(k.terminating) \subseteq ToSet(k'.terminating)
       /\ k'.susp = 1 <=> "resume" \in Locking
       /\ k'.current = t /\ "resume" \in {"yield", "resume"}
  BY <1>1, <1>5, <1>6, <1>7, <1>8, <1>11
<1>13. \A x \in Task : Awaits(k', x) /\ IsDelayed(k', x) => due'[x] = due[x]
  BY <1>8, <1>9, <1>10
<1>14. \A x \in Task : k'.prio[x] = k.prio[x] /\ k'.base[x] = k.base[x] /\ k'.item[x] = k.item[x]
  BY <1>6, <1>8
<1>15. \A x : IsReady(k, x) => IsReady(k', x) \/ x = t
  BY <1>7, <1>8
<1> DEFINE p == "resume"
<1> HIDE DEF p
<1>16. QED
  BY <1>9, <1>11, <1>12, <1>13, <1>14, <1>15, OutsideCall, Zenon DEF p

\* vTaskDelay.
LEMMA OutsideDelay ==
  ASSUME NEW calls, Core(k, pc, calls), due \in [Task -> 0..2*TickMod-1],
         NEW t \in Task, NEW n \in Delays, vTaskDelay(t, n)
  PROVE  Outside(calls, k, pc, due, k', pc', due')
<1>1. Calling(t, "vTaskDelay")
  BY DEF vTaskDelay
<1>2. /\ k \in Kernel /\ Fit(k, {}) /\ Apart(k) /\ k.current = t /\ t # Idle /\ k.susp = 0
  BY <1>1, Caller
<1>3. TickMod \in Nat /\ n \in portTickType /\ n \in Nat /\ k.tick \in portTickType
  BY <1>2, TickModAssumption, SchedAssumption DEF portTickType, Kernel
<1>4. CASE n = 0
  <2>1. k' = k /\ due' = due /\ pc' = [pc EXCEPT ![t] = "yield"]
    BY <1>4 DEF vTaskDelay, Goto
  <2>2. "yield" \in Places /\ "yield" \notin Locking
    BY DEF Places, Locking
  <2>3. Onward(k, k)
    BY OnwardSame
  <2> DEFINE p == "yield"
  <2>4. /\ p \in Places /\ pc' = [pc EXCEPT ![t] = p]
        /\ Fit(k', {}) /\ Apart(k') /\ Onward(k, k') /\ k'.tick = k.tick /\ k'.overflows = k.overflows
        /\ ToSet(k.terminating) \subseteq ToSet(k'.terminating)
        /\ k'.susp = 1 <=> p \in Locking
        /\ k'.current = t /\ p \in {"yield", "resume"}
    BY <1>2, <2>1, <2>2, <2>3
  <2>5. /\ due' \in [Task -> 0..2*TickMod-1]
        /\ \A x \in Task : Awaits(k', x) /\ IsDelayed(k', x) => due'[x] = due[x]
        /\ \A x \in Task : k'.prio[x] = k.prio[x] /\ k'.base[x] = k.base[x] /\ k'.item[x] = k.item[x]
        /\ \A x : IsReady(k, x) => IsReady(k', x) \/ x = t
    BY <2>1
  <2> HIDE DEF p
  <2>6. QED
    BY <1>1, <2>4, <2>5, OutsideCall, Zenon
<1>5. CASE n # 0
  <2>1. /\ k' = DelayTask(vTaskSuspendAll(k), t, Plus(k.tick, n))
        /\ due' = [due EXCEPT ![t] = Later(Clock(k), n)] /\ Goto(t, "resume")
    BY <1>5 DEF vTaskDelay
  <2>2. Plus(k.tick, n) \in portTickType
    BY <1>3 DEF Plus, portTickType
  <2>3. QED
    BY <1>1, <1>3, <2>1, <2>2, OutsideBlock, Zenon
<1>6. QED
  BY <1>4, <1>5

\* A task suspends the scheduler for a section, or finds its period over.
LEMMA OutsideLock ==
  ASSUME NEW calls, Core(k, pc, calls), due \in [Task -> 0..2*TickMod-1],
         NEW t \in Task, NEW f, Calling(t, f), NEW p \in Places, p \in Locking, k' = vTaskSuspendAll(k),
         Goto(t, p), due' = due \/ KeepDue
  PROVE  Outside(calls, k, pc, due, k', pc', due')
<1>1. /\ k \in Kernel /\ Fit(k, {}) /\ Apart(k) /\ k.current = t /\ t # Idle /\ k.susp = 0 /\ IsReady(k, t)
  BY Caller
<1> DEFINE u == vTaskSuspendAll(k)
<1>2. /\ Woken(k, u) /\ u.susp = 1 /\ u.current = k.current /\ u.tick = k.tick /\ u.overflows = k.overflows
      /\ Apart(u) /\ (Chosen(k) => Chosen(u))
  BY <1>1, SuspendAllOnward
<1> HIDE DEF u
<1>3. /\ k' = u /\ pc' = [pc EXCEPT ![t] = p]
  BY DEF u, Goto
<1>4. /\ due' \in [Task -> 0..2*TickMod-1]
      /\ \A x \in Task : Awaits(k', x) /\ IsDelayed(k', x) => due'[x] = due[x]
  BY KeepDueSame
<1>5. /\ Fit(k', {}) /\ Apart(k') /\ Onward(k, k') /\ k'.tick = k.tick /\ k'.overflows = k.overflows
      /\ ToSet(k.terminating) \subseteq ToSet(k'.terminating)
      /\ k'.susp = 1 <=> p \in Locking
      /\ k'.current = t /\ IsReady(k', t) /\ (Chosen(k) => Chosen(k'))
      /\ \A x \in Task : k'.prio[x] = k.prio[x] /\ k'.base[x] = k.base[x] /\ k'.item[x] = k.item[x]
      /\ \A x : IsReady(k, x) => IsReady(k', x) \/ x = t
  BY <1>1, <1>2, <1>3 DEF Woken
<1>6. QED
  BY <1>3, <1>4, <1>5, OutsideCall, Zenon

\* vTaskDelayUntil.
LEMMA OutsideDelayUntil ==
  ASSUME NEW calls, Core(k, pc, calls), due \in [Task -> 0..2*TickMod-1], lastWake \in [Task -> portTickType],
         NEW t \in Task, NEW n \in Delays, vTaskDelayUntil(t, n)
  PROVE  Outside(calls, k, pc, due, k', pc', due') /\ lastWake' \in [Task -> portTickType]
<1> DEFINE wake == Plus(lastWake[t], n)
<1>1. Calling(t, "vTaskDelayUntil")
  BY DEF vTaskDelayUntil
<1>2. k \in Kernel
  BY <1>1, Caller
<1>3. TickMod \in Nat /\ n \in portTickType /\ k.tick \in portTickType /\ lastWake[t] \in portTickType
  BY <1>2, TickModAssumption, SchedAssumption DEF Kernel
<1>4. wake \in portTickType
  BY <1>3 DEF Plus, portTickType
<1>5. lastWake' \in [Task -> portTickType]
  BY <1>4 DEF vTaskDelayUntil
<1>6. CASE xShouldDelay(lastWake[t], n, k.tick)
  <2>1. /\ k' = DelayTask(vTaskSuspendAll(k), t, wake)
        /\ due' = [due EXCEPT ![t] = Later(Clock(k), Minus(wake, k.tick))] /\ Goto(t, "resume")
    BY <1>6 DEF vTaskDelayUntil
  <2> HIDE DEF wake
  <2>2. Minus(wake, k.tick) \in Nat
    BY <1>3, <1>4 DEF Minus, portTickType
  <2>3. QED
    BY <1>1, <1>4, <1>5, <2>1, <2>2, OutsideBlock, Zenon
<1>7. CASE ~xShouldDelay(lastWake[t], n, k.tick)
  <2>1. k' = vTaskSuspendAll(k) /\ due' = due /\ Goto(t, "resume")
    BY <1>7 DEF vTaskDelayUntil
  <2> DEFINE p == "resume"
  <2>2. p \in Places /\ p \in Locking /\ Goto(t, p)
    BY <2>1 DEF Places, Locking
  <2> HIDE DEF p
  <2>3. QED
    BY <1>1, <1>5, <2>1, <2>2, OutsideLock
<1>8. QED
  BY <1>6, <1>7

\* A section with the scheduler suspended.
LEMMA OutsideSection ==
  ASSUME NEW calls, Core(k, pc, calls), due \in [Task -> 0..2*TickMod-1], NEW t \in Task, SuspendScheduler(t)
  PROVE  Outside(calls, k, pc, due, k', pc', due')
<1> DEFINE p == "locked"
<1>1. Calling(t, "vTaskSuspendAll") /\ k' = vTaskSuspendAll(k) /\ Goto(t, p) /\ KeepDue
  BY DEF SuspendScheduler
<1>2. p \in Places /\ p \in Locking
  BY DEF Places, Locking
<1> HIDE DEF p
<1>3. QED
  BY <1>1, <1>2, OutsideLock

\* A task that suspends or deletes a task.
LEMMA OutsideGone ==
  ASSUME NEW calls, Core(k, pc, calls), due \in [Task -> 0..2*TickMod-1],
         NEW t \in Task, NEW f \in {"vTaskSuspend", "vTaskDelete"}, Calling(t, f), NEW x \in Task, Gone(k, k', x),
         Goto(t, IF x = t THEN "yield" ELSE "app"), KeepDue
  PROVE  Outside(calls, k, pc, due, k', pc', due')
<1> DEFINE p == IF x = t THEN "yield" ELSE "app"
<1>1. /\ k \in Kernel /\ Fit(k, {}) /\ Apart(k) /\ k.current = t /\ pc[t] = "app" /\ t # Idle /\ k.susp = 0
      /\ IsReady(k, t) /\ t \in ToSet(k.ready[k.prio[t]]) /\ k.prio[t] \in Priority
      /\ ToSet(k.pending) = {}
  BY Caller
<1>2. /\ p \in Places /\ pc' = [pc EXCEPT ![t] = p] /\ p \notin Locking
      /\ x = t => p \in {"yield", "resume"}
  BY DEF Goto, Places, Locking
<1> HIDE DEF p
<1>3. /\ Fit(k', {}) /\ ToSet(k.terminating) \subseteq ToSet(k'.terminating)
      /\ \A y \in Priority : ToSet(k'.ready[y]) = ToSet(k.ready[y]) \ {x}
      /\ k'.current = t /\ k'.susp = 0 /\ k'.tick = k.tick /\ k'.overflows = k.overflows
      /\ k'.prio = k.prio /\ k'.base = k.base /\ k'.item = k.item
      /\ ToSet(k'.pending) = {} /\ k' \in Kernel
  BY <1>1, Zenon DEF Gone, Fit
<1>4. Onward(k, k')
  <2>1. \A l \in EventList : /\ ToSet(k'.event[l]) = ToSet(k.event[l]) \ {x}
                             /\ NoDup(k.event[l]) => NoDup(k'.event[l])
                             /\ \A R : Ordered(k.event[l], R) => Ordered(k'.event[l], R)
    BY Zenon DEF Gone
  <2>2. \A y : Awaits(k', y) => y # x
    BY <2>1, Zenon DEF Awaits
  <2>3. \A y : y # x => (IsDelayed(k', y) <=> IsDelayed(k, y)) /\ (y \in k'.suspended <=> y \in k.suspended)
    BY DEF Gone, IsDelayed
  <2>4. QED
    BY <1>3, <2>1, <2>2, <2>3, Zenon DEF Onward
<1>5. Apart(k')
  BY <1>1, <1>3, <1>4, ApartOnward
<1>6. x # t => (IsReady(k', t) /\ Chosen(k) => Chosen(k'))
  <2> SUFFICES ASSUME x # t, Chosen(k) PROVE Chosen(k')
    OBVIOUS
  <2>1. k' \in Kernel /\ k'.current = k.current /\ k'.prio[k'.current] = k.prio[k.current]
    BY <1>1, <1>3
  <2>2. k.current \in ToSet(k'.ready[k'.prio[k'.current]])
    BY <1>1, <1>3, <2>1
  <2>3. \A y \in Priority : y > k'.prio[k'.current] => ToSet(k'.ready[y]) \subseteq ToSet(k.ready[y])
    BY <1>3
  <2>4. k'.prio[k'.current] >= k.prio[k.current]
    BY <1>1, <2>1, PriorityFacts
  <2>5. QED
    BY <1>1, <2>1, <2>2, <2>3, <2>4, ChosenKept, Zenon
<1>7. x # t => IsReady(k', t)
  BY <1>1, <1>3 DEF IsReady
<1>8. ~MildCalls
  <2>1. f \in Calls[t]
    BY DEF Calling
  <2>2. QED
    BY <2>1 DEF MildCalls
<1>9. /\ due' \in [Task -> 0..2*TickMod-1]
      /\ \A y \in Task : Awaits(k', y) /\ IsDelayed(k', y) => due'[y] = due[y]
  BY KeepDueSame
<1>10. /\ k'.susp = 1 <=> p \in Locking
       /\ \/ p \in {"yield", "resume"} /\ k'.current = t
          \/ k'.current = t /\ IsReady(k', t) /\ (Chosen(k) => Chosen(k'))
  BY <1>2, <1>3, <1>6, <1>7
<1>11. \A y \in Task : k'.prio[y] = k.prio[y] /\ k'.base[y] = k.base[y] /\ k'.item[y] = k.item[y]
  BY <1>3
<1>12. QED
  BY <1>2, <1>3, <1>4, <1>5, <1>8, <1>9, <1>10, <1>11, OutsideCall, Zenon

\* vTaskSuspend.
LEMMA OutsideSuspend ==
  ASSUME NEW calls, Core(k, pc, calls), due \in [Task -> 0..2*TickMod-1], NEW t \in Task, NEW x \in Task, vTaskSuspend(t, x)
  PROVE  Outside(calls, k, pc, due, k', pc', due')
<1>1. /\ Calling(t, "vTaskSuspend") /\ x # Idle /\ x \notin k.free /\ x \notin ToSet(k.terminating)
      /\ k' = [RemoveEvent(RemoveGeneric(k, {x}), {x}) EXCEPT !.suspended = @ \cup {x}]
      /\ Goto(t, IF x = t THEN "yield" ELSE "app") /\ KeepDue
  BY DEF vTaskSuspend, Alive
<1>2. Gone(k, k', x)
  BY <1>1, SuspendGone, Zenon DEF Core
<1>3. "vTaskSuspend" \in {"vTaskSuspend", "vTaskDelete"}
  OBVIOUS
<1>4. QED
  BY <1>1, <1>2, <1>3, OutsideGone, Zenon

\* vTaskDelete.
LEMMA OutsideDelete ==
  ASSUME NEW calls, Core(k, pc, calls), due \in [Task -> 0..2*TickMod-1], NEW t \in Task, NEW x \in Task, vTaskDelete(t, x)
  PROVE  Outside(calls, k, pc, due, k', pc', due')
<1>1. /\ Calling(t, "vTaskDelete") /\ x # Idle /\ x \notin k.free /\ x \notin ToSet(k.terminating)
      /\ k' = [RemoveEvent(RemoveGeneric(k, {x}), {x}) EXCEPT !.terminating = Append(@, x), !.deleted = @ + 1]
      /\ Goto(t, IF x = t THEN "yield" ELSE "app") /\ KeepDue
  BY DEF vTaskDelete, Alive
<1>2. Gone(k, k', x)
  BY <1>1, DeleteGone, Zenon DEF Core
<1>3. "vTaskDelete" \in {"vTaskSuspend", "vTaskDelete"}
  OBVIOUS
<1>4. QED
  BY <1>1, <1>2, <1>3, OutsideGone

\* vTaskResume, which may switch to the task.
LEMMA OutsideResume ==
  ASSUME NEW calls, Core(k, pc, calls), due \in [Task -> 0..2*TickMod-1], NEW t \in Task, NEW x \in Task, vTaskResume(t, x)
  PROVE  Outside(calls, k, pc, due, k', pc', due')
<1> DEFINE s == <<x>>
           u == MakeReady(k, s)
           p == "app"
<1>0. Calling(t, "vTaskResume") /\ x # t /\ x \in k.suspended /\ KeepDue /\ pc' = pc
  BY DEF vTaskResume, xTaskIsTaskSuspended
<1>1. /\ k \in Kernel /\ Fit(k, {}) /\ Apart(k) /\ k.current = t /\ pc[t] = "app" /\ t # Idle /\ k.susp = 0
      /\ IsReady(k, t) /\ t \in ToSet(k.ready[k.prio[t]]) /\ k.prio[t] \in Priority
      /\ ToSet(k.pending) = {}
  BY <1>0, Caller
<1>2. /\ p \in Places /\ pc' = [pc EXCEPT ![t] = p] /\ p \notin Locking
  BY <1>0, <1>1 DEF Places, Locking, Core
<1> HIDE DEF p
<1>3. s \in Seq(Task) /\ ToSet(s) = {x} /\ NoDup(s)
  BY OneFacts
<1>4. ~IsReady(k, x) /\ x \notin k.free \cup ToSet(k.terminating) /\ x # Idle /\ k.prio[x] \in Priority
  <2>1. Placed(k, {}) /\ OnePlace(k, x) /\ IsReady(k, Idle)
    BY <1>1, PriorityFacts DEF Fit, Placed, IsReady
  <2>2. ~IsReady(k, x) /\ x \notin k.free \cup ToSet(k.terminating)
    BY <1>0, <2>1 DEF OnePlace
  <2>3. QED
    BY <1>1, <2>1, <2>2 DEF Kernel
<1>5. Wakeable(k, s)
  <2>1. Fit(k, {x})
    BY <1>1 DEF Fit, Placed
  <2>2. QED
    BY <1>3, <1>4, <2>1, Zenon DEF Wakeable
<1> HIDE DEF s
<1>6. /\ Woken(k, u) /\ Still(k, u) /\ u.current = k.current
      /\ ToSet(u.pending) = ToSet(k.pending) \ ToSet(s)
      /\ \A l \in EventList : ToSet(u.event[l]) = ToSet(k.event[l]) \ ToSet(s)
      /\ \A y \in Priority : ToSet(u.ready[y]) = (ToSet(k.ready[y]) \ ToSet(s)) \cup {z \in ToSet(s) : k.prio[z] = y}
  BY <1>5, MakeReadyWoken
<1> HIDE DEF u
<1>7. Fit(u, {}) /\ u \in Kernel /\ u.prio = k.prio /\ u.susp = 0 /\ ToSet(u.pending) = {} /\ IsReady(u, t)
  BY <1>1, <1>6 DEF Woken, Fit, Still
<1>8. \E r : /\ k' = r /\ Woken(u, r) /\ Still(u, r) /\ r.pending = u.pending
             /\ Chosen(r) \/ (r.current = t /\ (Chosen(k) => Chosen(r)))
  <2>1. CASE k.prio[x] >= k.prio[t]
    <3> DEFINE v == vTaskSwitchContext(u)
    <3>1. k' = v
      BY <2>1 DEF vTaskResume, u, s
    <3>2. /\ Woken(u, v) /\ Still(u, v) /\ v.event = u.event /\ v.pending = u.pending /\ v.suspended = u.suspended
          /\ v.delayed = u.delayed /\ v.overflowed = u.overflowed
          /\ \A y : IsReady(v, y) <=> IsReady(u, y)
          /\ IF u.susp = 0 THEN Chosen(v) ELSE v.current = u.current /\ v.ready = u.ready
      BY <1>7, SwitchWoken
    <3> HIDE DEF v
    <3>3. QED
      BY <1>7, <3>1, <3>2
  <2>2. CASE ~(k.prio[x] >= k.prio[t])
    <3>1. k' = u
      BY <2>2 DEF vTaskResume, u, s
    <3>2. Woken(u, u) /\ Still(u, u)
      BY <1>7, OnwardSame DEF Woken, Still
    <3>3. ASSUME Chosen(k) PROVE Chosen(u)
      <4>1. k.prio[x] < k.prio[t]
        BY <1>1, <1>4, <2>2, PriorityFacts
      <4>2. t \in ToSet(u.ready[k.prio[t]])
        BY <1>0, <1>1, <1>3, <1>6
      <4>3. \A y \in Priority : y > k.prio[t] => ToSet(u.ready[y]) \subseteq ToSet(k.ready[y])
        <5> SUFFICES ASSUME NEW y \in Priority, y > k.prio[t] PROVE ToSet(u.ready[y]) \subseteq ToSet(k.ready[y])
          OBVIOUS
        <5>1. k.prio[x] # y
          BY <1>1, <1>4, <4>1, PriorityFacts
        <5>2. QED
          BY <1>3, <1>6, <5>1
      <4>4. k.prio[t] >= k.prio[t]
        BY <1>1, PriorityFacts
      <4>5. QED
        BY <1>1, <1>6, <1>7, <3>3, <4>2, <4>3, <4>4, ChosenKept, Zenon
    <3>4. QED
      BY <1>1, <1>6, <3>1, <3>2, <3>3
  <2>3. QED
    BY <2>1, <2>2
<1>9. PICK r : /\ k' = r /\ Woken(u, r) /\ Still(u, r) /\ r.pending = u.pending
               /\ Chosen(r) \/ (r.current = t /\ (Chosen(k) => Chosen(r)))
  BY <1>8
<1>10. Woken(k, r) /\ Still(k, r)
  BY <1>6, <1>9, WokenWoken DEF Still
<1>11. Apart(r)
  BY <1>1, <1>7, <1>9, <1>10, ApartOnward DEF Woken
<1>12. /\ due' \in [Task -> 0..2*TickMod-1]
       /\ \A y \in Task : Awaits(k', y) /\ IsDelayed(k', y) => due'[y] = due[y]
  BY <1>0, KeepDueSame
<1>13. /\ Fit(k', {}) /\ Apart(k') /\ Onward(k, k') /\ k'.tick = k.tick /\ k'.overflows = k.overflows
       /\ ToSet(k.terminating) \subseteq ToSet(k'.terminating)
       /\ ~(k'.susp = 1)
       /\ Chosen(k') \/ (k'.current = t /\ IsReady(k', t) /\ (Chosen(k) => Chosen(k')))
       /\ \A y \in Task : k'.prio[y] = k.prio[y] /\ k'.base[y] = k.base[y] /\ k'.item[y] = k.item[y]
       /\ \A y : IsReady(k, y) => IsReady(k', y) \/ y = t
  BY <1>1, <1>9, <1>10, <1>11 DEF Woken, Still
<1>14. QED
  BY <1>0, <1>2, <1>12, <1>13, OutsideCall, Zenon

\* The kernel with other free blocks, priorities and values of the event items.
With(j, f, a, b, i) == [[[[j EXCEPT !.free = f] EXCEPT !.prio = a] EXCEPT !.base = b] EXCEPT !.item = i]

\* What is left as it is.
LEMMA WithFields ==
  ASSUME NEW j, j \in Kernel, NEW f \in SUBSET Task,
         NEW a \in [Task -> Priority], NEW b \in [Task -> Priority], NEW i \in [Task -> Priority]
  PROVE  LET u == With(j, f, a, b, i)
         IN /\ u \in Kernel /\ u.free = f /\ u.prio = a /\ u.base = b /\ u.item = i
            /\ u.current = j.current /\ u.ready = j.ready /\ u.delayed = j.delayed /\ u.overflowed = j.overflowed
            /\ u.pending = j.pending /\ u.suspended = j.suspended /\ u.terminating = j.terminating
            /\ u.deleted = j.deleted /\ u.wake = j.wake /\ u.tick = j.tick /\ u.event = j.event
            /\ u.overflows = j.overflows /\ u.top = j.top /\ u.susp = j.susp /\ u.missed = j.missed
  BY ZenonT(60) DEF With, Kernel

\* From j to u one task x has got another priority; it is about to be put in the
\* ready list of that priority, or was in none.
Reranked(j, u, x) ==
    /\ Wakeable(u, <<x>>) /\ Onward(j, u) /\ (Apart(j) => Apart(u)) /\ Still(j, u)
    /\ u.event = j.event /\ u.pending = j.pending /\ u.suspended = j.suspended /\ u.terminating = j.terminating
    /\ u.delayed = j.delayed /\ u.overflowed = j.overflowed
    /\ u.current = j.current /\ u.ready = j.ready
    /\ ~IsReady(j, x) /\ u.free = j.free => Fit(u, {})
    /\ u.prio[x] = j.prio[x] /\ u.free = j.free => Fit(u, {})

\* The priority of a task changes, and nothing else.
LEMMA WithReranked ==
  ASSUME NEW j, Fit(j, {}), NEW x \in Task \ {Idle}, x \notin ToSet(j.terminating),
         NEW f \in SUBSET Task, f = j.free \ {x},
         NEW a \in [Task -> Priority], NEW b \in [Task -> Priority], NEW i \in [Task -> Priority],
         \A y \in Task \ {x} : a[y] = j.prio[y]
  PROVE  Reranked(j, With(j, f, a, b, i), x)
<1> DEFINE u == With(j, f, a, b, i)
           s == <<x>>
<1>1. j \in Kernel
  BY DEF Fit
<1>2. /\ u \in Kernel /\ u.free = f /\ u.prio = a /\ u.base = b /\ u.item = i
      /\ u.current = j.current /\ u.ready = j.ready /\ u.delayed = j.delayed /\ u.overflowed = j.overflowed
      /\ u.pending = j.pending /\ u.suspended = j.suspended /\ u.terminating = j.terminating
      /\ u.deleted = j.deleted /\ u.wake = j.wake /\ u.tick = j.tick /\ u.event = j.event
      /\ u.overflows = j.overflows /\ u.top = j.top /\ u.susp = j.susp /\ u.missed = j.missed
  BY <1>1, WithFields
<1> HIDE DEF u
<1>3. s \in Seq(Task) /\ NoDup(s) /\ ToSet(s) = {x}
  BY DEF NoDup, ToSet
<1> HIDE DEF s
<1>4. ASSUME NEW y \in Task, y # x \/ (f = j.free /\ (~IsReady(j, x) \/ a[x] = j.prio[x]))
      PROVE  OnePlace(u, y) /\ \A p \in Priority : y \in ToSet(u.ready[p]) => u.prio[y] = p
  <2>1. OnePlace(j, y) /\ \A p \in Priority : y \in ToSet(j.ready[p]) => j.prio[y] = p
    BY DEF Fit, Placed
  <2>2. y \in u.free <=> y \in j.free
    BY <1>2, <1>4
  <2>3. OnePlace(u, y)
    BY <1>2, <2>1, <2>2 DEF OnePlace, IsReady
  <2>4. \A p \in Priority : y \in ToSet(u.ready[p]) => u.prio[y] = p
    BY <1>2, <1>4, <2>1 DEF IsReady
  <2>5. QED
    BY <2>3, <2>4
<1>5. NoDups(u)
  BY <1>2 DEF Fit, Placed, NoDups
<1>6. TopCovers(u) /\ Idle \in ToSet(u.ready[0]) /\ u.deleted = Len(u.terminating)
  BY <1>2 DEF Fit, TopCovers
<1>7. Fit(u, {x})
  BY <1>2, <1>4, <1>5, <1>6 DEF Fit, Placed
<1>8. (~IsReady(j, x) \/ a[x] = j.prio[x]) /\ f = j.free => Fit(u, {})
  BY <1>2, <1>4, <1>5, <1>6 DEF Fit, Placed
<1>9. Onward(j, u)
  BY <1>2, OnwardSame DEF IsDelayed
<1>10. Apart(j) => Apart(u)
  BY <1>2, <1>9, ApartOnward DEF Apart
<1>11. Wakeable(u, s)
  BY <1>2, <1>3, <1>7 DEF Wakeable
<1>12. QED
  BY <1>2, <1>8, <1>9, <1>10, <1>11, Zenon DEF Reranked, Still, u, s

\* What a task becomes that is created or gets another priority.
LEMMA RerankedReady ==
  ASSUME NEW j, NEW u, NEW x \in Task, Reranked(j, u, x), Apart(j)
  PROVE  LET r == MakeReady(u, <<x>>)
         IN /\ Woken(u, r) /\ Still(j, r) /\ r.current = j.current /\ Onward(j, r) /\ Apart(r)
            /\ r.prio = u.prio /\ r.base = u.base /\ r.item = u.item /\ r.terminating = j.terminating
            /\ \A p \in Priority : ToSet(r.ready[p]) = (ToSet(j.ready[p]) \ {x}) \cup {t \in {x} : u.prio[t] = p}
            /\ IsReady(r, x)
            /\ \A t : IsReady(j, t) => IsReady(r, t)
<1> DEFINE s == <<x>>
           r == MakeReady(u, s)
<1>1. ToSet(s) = {x}
  BY DEF ToSet
<1>2. Wakeable(u, s)
  BY DEF Reranked
<1> HIDE DEF s
<1>3. /\ Woken(u, r) /\ Still(u, r) /\ r.current = u.current
      /\ ToSet(r.pending) = ToSet(u.pending) \ ToSet(s)
      /\ \A l \in EventList : ToSet(r.event[l]) = ToSet(u.event[l]) \ ToSet(s)
      /\ \A p \in Priority : ToSet(r.ready[p]) = (ToSet(u.ready[p]) \ ToSet(s)) \cup {t \in ToSet(s) : u.prio[t] = p}
  BY <1>2, MakeReadyWoken
<1> HIDE DEF r
<1>4. /\ Onward(j, u) /\ Apart(u) /\ Still(j, u) /\ u.current = j.current /\ u.ready = j.ready
      /\ u.terminating = j.terminating
  BY DEF Reranked
<1>5. Onward(j, r)
  BY <1>3, <1>4, OnwardOnward DEF Woken
<1>6. Apart(r)
  BY <1>3, <1>4, ApartOnward DEF Woken, Apart, Still
<1>7. \A p \in Priority : ToSet(r.ready[p]) = (ToSet(j.ready[p]) \ {x}) \cup {t \in {x} : u.prio[t] = p}
  BY <1>1, <1>3, <1>4
<1>8. u.prio[x] \in Priority
  BY <1>2 DEF Wakeable, Fit, Kernel
<1>9. IsReady(r, x)
  BY <1>7, <1>8 DEF IsReady
<1>10. \A t : IsReady(j, t) => IsReady(r, t)
  BY <1>7, <1>9 DEF IsReady
<1>11. QED
  BY <1>3, <1>4, <1>5, <1>6, <1>7, <1>9, <1>10 DEF Woken, Still, r, s

\* xTaskCreate.
LEMMA OutsideCreate ==
  ASSUME NEW calls, Core(k, pc, calls), due \in [Task -> 0..2*TickMod-1],
         NEW t \in Task, NEW x \in Task \ {Idle}, NEW n \in NewPriorities, xTaskCreate(t, x, n)
  PROVE  Outside(calls, k, pc, due, k', pc', due')
<1> DEFINE c == Clip(n)
           u == prvInitialiseTCBVariables(prvAllocateTCBAndStack(k, x), x, n)
           r == MakeReady(u, <<x>>)
           p == IF k.prio[t] < n THEN "yield" ELSE "app"
           f == k.free \ {x}
           a == [k.prio EXCEPT ![x] = c]
           b == [k.base EXCEPT ![x] = c]
           i == [k.item EXCEPT ![x] = c]
<1>1. /\ Calling(t, "xTaskCreate") /\ x \in k.free /\ k' = r
      /\ pc' = [pc EXCEPT ![x] = "app", ![t] = p] /\ KeepDue
  BY DEF xTaskCreate
<1>2. /\ k \in Kernel /\ Fit(k, {}) /\ Apart(k) /\ k.current = t /\ pc[t] = "app" /\ t # Idle /\ k.susp = 0
      /\ IsReady(k, t) /\ t \in ToSet(k.ready[k.prio[t]]) /\ k.prio[t] \in Priority
      /\ t \notin k.free \cup ToSet(k.terminating)
  BY <1>1, Caller
<1>3. n \in Nat /\ c \in Priority /\ c <= n
  <2>1. n \in Nat
    BY SchedAssumption
  <2>2. QED
    BY <2>1, ClipFacts
<1>4. /\ f \in SUBSET Task /\ a \in [Task -> Priority] /\ b \in [Task -> Priority] /\ i \in [Task -> Priority]
      /\ \A y \in Task \ {x} : a[y] = k.prio[y] /\ b[y] = k.base[y] /\ i[y] = k.item[y]
      /\ a[x] = c /\ b[x] = c /\ i[x] = c
  BY <1>2, <1>3 DEF Kernel
<1>5. u = With(k, f, a, b, i)
  BY <1>2 DEF prvInitialiseTCBVariables, prvAllocateTCBAndStack, Kernel, With
<1>6. OnePlace(k, x) /\ x \notin ToSet(k.terminating) /\ x # t
  <2>1. OnePlace(k, x)
    BY <1>2 DEF Fit, Placed
  <2>2. QED
    BY <1>1, <1>2, <2>1 DEF OnePlace
<1> HIDE DEF c, u
<1>7. f = k.free \ {x}
  OBVIOUS
<1> HIDE DEF f, a, b, i
<1>8. Reranked(k, u, x)
  BY <1>2, <1>4, <1>5, <1>6, <1>7, WithReranked
<1>9. u.prio = a /\ u.base = b /\ u.item = i
  BY <1>2, <1>4, <1>5, WithFields
<1>10. /\ Woken(u, r) /\ Still(k, r) /\ r.current = k.current /\ Onward(k, r) /\ Apart(r)
       /\ r.prio = u.prio /\ r.base = u.base /\ r.item = u.item /\ r.terminating = k.terminating
       /\ \A y \in Priority : ToSet(r.ready[y]) = (ToSet(k.ready[y]) \ {x}) \cup {z \in {x} : u.prio[z] = y}
       /\ IsReady(r, x)
       /\ \A z : IsReady(k, z) => IsReady(r, z)
  BY <1>2, <1>8, RerankedReady, Zenon
<1> HIDE DEF r
<1>11. Fit(r, {})
  BY <1>10 DEF Woken
<1>12. k.prio[t] < n \/ (Chosen(k) => Chosen(r))
  <2> SUFFICES ASSUME ~(k.prio[t] < n), Chosen(k) PROVE Chosen(r)
    OBVIOUS
  <2>1. c <= k.prio[t] /\ r \in Kernel /\ k.prio[t] \in Nat /\ c \in Nat
    BY <1>2, <1>3, <1>11, PriorityFacts DEF Fit
  <2>2. u.prio[x] = c /\ r.prio[t] = k.prio[t]
    BY <1>4, <1>6, <1>9, <1>10
  <2>3. t \in ToSet(r.ready[k.prio[t]])
    BY <1>2, <1>6, <1>10, Zenon
  <2>4. ASSUME NEW y \in Priority, y > k.prio[t] PROVE ToSet(r.ready[y]) \subseteq ToSet(k.ready[y])
    <3>1. y # c
      BY <2>1, <2>4, PriorityFacts
    <3>2. QED
      BY <1>10, <2>2, <3>1
  <2>5. r.current = t /\ r.prio[t] >= k.prio[t]
    BY <1>2, <1>10, <2>1, <2>2
  <2>6. QED
    BY <1>2, <2>1, <2>2, <2>3, <2>4, <2>5, ChosenKept
<1>13. /\ pc' \in [Task -> Places \cup QPlaces] /\ pc'[t] = p /\ p \in Places
       /\ \A y \in Task \ {t} : pc'[y] = pc[y] \/ (y = x /\ pc'[y] = "app")
  <2>1. pc \in [Task -> Places \cup QPlaces]
    BY DEF Core
  <2>2. QED
    BY <1>1, <1>6, <2>1 DEF Places
<1>14. ~NoCreation /\ ~FixedPriorities /\ ~MildCalls
  BY <1>1 DEF Calling, NoCreation, FixedPriorities, MildCalls
<1>15. \A y \in Task \ {t} : pc'[y] = pc[y] \/ (y # Idle /\ pc'[y] = "app" /\ ~NoCreation)
  BY <1>13, <1>14
<1>16. /\ Fit(k', {}) /\ Apart(k') /\ Onward(k, k') /\ k'.tick = k.tick /\ k'.overflows = k.overflows
       /\ ToSet(k.terminating) \subseteq ToSet(k'.terminating)
       /\ k'.susp = 1 <=> p \in Locking
       /\ k'.susp = 1 => k'.current = t
       /\ \/ p \in {"yield", "resume"} /\ k'.current = t
          \/ Chosen(k')
          \/ k'.current = t /\ IsReady(k', t) /\ (Chosen(k) => Chosen(k'))
  <2>1. p \notin Locking
    BY DEF Locking
  <2>2. k' = r /\ k'.susp = 0
    BY <1>1, <1>2, <1>10 DEF Still
  <2>3. r.current = t /\ IsReady(r, t)
    BY <1>2, <1>10
  <2>4. QED
    BY <1>10, <1>11, <1>12, <2>1, <2>2, <2>3 DEF Still
<1>17. /\ due' \in [Task -> 0..2*TickMod-1]
       /\ \A y \in Task : Awaits(k', y) /\ IsDelayed(k', y) => due'[y] = due[y]
  BY <1>1, KeepDueSame
<1>18. \A y \in Task :
         \/ k'.prio[y] = k.prio[y] /\ k'.base[y] = k.base[y] /\ k'.item[y] = k.item[y]
         \/ ~FixedPriorities /\ k'.item[y] = k'.base[y] /\ (k.prio[y] = k.base[y] => k'.prio[y] = k'.base[y])
  BY <1>1, <1>4, <1>9, <1>10, <1>14
<1> HIDE DEF p
<1>19. QED
  BY <1>1, <1>13, <1>14, <1>15, <1>16, <1>17, <1>18, OutsideCaller, Zenon

\* vTaskPrioritySet.
LEMMA OutsidePrioritySet ==
  ASSUME NEW calls, Core(k, pc, calls), due \in [Task -> 0..2*TickMod-1],
         NEW t \in Task, NEW x \in Task \ {Idle}, NEW n \in NewPriorities, vTaskPrioritySet(t, x, n)
  PROVE  Outside(calls, k, pc, due, k', pc', due')
<1> DEFINE new == Clip(n)
           old == k.base[x]
           set == [k EXCEPT !.prio[x] = IF @ = old THEN new ELSE @, !.base[x] = new, !.item[x] = new]
           j == IF x \in ToSet(k.ready[old]) THEN MakeReady(set, <<x>>) ELSE set
           yields == IF new > old THEN x # t ELSE x = t
           w == vTaskSwitchContext(j)
           now == IF k.prio[x] = old THEN new ELSE k.prio[x]
           f == k.free
           a == [k.prio EXCEPT ![x] = now]
           b == [k.base EXCEPT ![x] = new]
           i == [k.item EXCEPT ![x] = new]
           p == "app"
<1>1. /\ Calling(t, "vTaskPrioritySet") /\ x \notin k.free /\ x \notin ToSet(k.terminating) /\ new # old
      /\ k' = (IF yields THEN w ELSE j)
      /\ KeepDue /\ pc' = pc
  BY DEF vTaskPrioritySet, Alive
<1>2. /\ k \in Kernel /\ Fit(k, {}) /\ Apart(k) /\ k.current = t /\ pc[t] = p /\ t # Idle /\ k.susp = 0
      /\ IsReady(k, t) /\ t \in ToSet(k.ready[k.prio[t]]) /\ k.prio[t] \in Priority
  BY <1>1, Caller
<1>3. new \in Priority /\ old \in Priority /\ k.prio[x] \in Priority
  <2>1. n \in Nat
    BY SchedAssumption
  <2>2. QED
    BY <1>2, <2>1, ClipFacts DEF Kernel
<1>4. set = With(k, f, a, b, i)
  BY <1>2, Zenon DEF Kernel, With
<1>5. /\ f \in SUBSET Task /\ f = k.free \ {x}
      /\ a \in [Task -> Priority] /\ b \in [Task -> Priority] /\ i \in [Task -> Priority]
      /\ \A y \in Task \ {x} : a[y] = k.prio[y] /\ b[y] = k.base[y] /\ i[y] = k.item[y]
      /\ a[x] = now /\ b[x] = new /\ i[x] = new
  <2>1. f \in SUBSET Task /\ k.prio \in [Task -> Priority] /\ k.base \in [Task -> Priority] /\ k.item \in [Task -> Priority]
    BY <1>2, Zenon DEF Kernel
  <2>2. now \in Priority
    BY <1>3
  <2> HIDE DEF now, new
  <2>3. QED
    BY <1>1, <1>3, <2>1, <2>2
<1> HIDE DEF new, old, set, f, a, b, i
<1>6. Reranked(k, set, x)
  BY <1>1, <1>2, <1>4, <1>5, WithReranked
<1>7. set.prio = a /\ set.base = b /\ set.item = i /\ set.free = k.free
  BY <1>2, <1>4, <1>5, WithFields DEF f
<1>8. \A y \in Priority : x \in ToSet(k.ready[y]) => k.prio[x] = y
  BY <1>2 DEF Fit, Placed
<1>9. x \in ToSet(k.ready[old]) => k.prio[x] = old /\ a[x] = new
  BY <1>3, <1>5, <1>8
<1>10. MaxPriorities - 1 \in Nat /\ Priority = 0..MaxPriorities-1
  BY PriorityFacts
<1>11. /\ Fit(j, {}) /\ Apart(j) /\ Onward(k, j) /\ Still(k, j) /\ j.terminating = k.terminating
       /\ j.prio = a /\ j.base = b /\ j.item = i /\ j.current = t
       /\ \A y : IsReady(k, y) => IsReady(j, y)
       /\ ~yields /\ Chosen(k) => Chosen(j)
  <2>1. CASE x \in ToSet(k.ready[old])
    <3> DEFINE r == MakeReady(set, <<x>>)
    <3>1. /\ Woken(set, r) /\ Still(k, r) /\ r.current = k.current /\ Onward(k, r) /\ Apart(r)
          /\ r.prio = set.prio /\ r.base = set.base /\ r.item = set.item /\ r.terminating = k.terminating
          /\ \A y \in Priority : ToSet(r.ready[y]) = (ToSet(k.ready[y]) \ {x}) \cup {z \in {x} : set.prio[z] = y}
          /\ IsReady(r, x)
          /\ \A z : IsReady(k, z) => IsReady(r, z)
      BY <1>2, <1>6, RerankedReady, Zenon
    <3>2. j = r
      BY <2>1
    <3> HIDE DEF r
    <3>3. ASSUME ~yields, Chosen(k) PROVE Chosen(r)
      <4>1. r \in Kernel /\ r.current = t /\ r.prio = a
        BY <1>2, <1>7, <3>1 DEF Woken, Fit
      <4>2. CASE x = t
        <5>1. new > old
          BY <1>1, <1>3, <1>10, <3>3, <4>2
        <5>2. t \in ToSet(r.ready[new])
          BY <1>3, <1>7, <1>9, <2>1, <3>1, <4>2
        <5>3. \A q1 \in Priority : q1 > new => ToSet(r.ready[q1]) \subseteq ToSet(k.ready[q1])
          BY <1>3, <1>7, <1>9, <1>10, <2>1, <3>1
        <5>4. r.prio[t] = new /\ r.prio[t] >= k.prio[t]
          BY <1>3, <1>9, <1>10, <2>1, <4>1, <4>2, <5>1
        <5>5. QED
          BY <1>2, <3>3, <4>1, <5>2, <5>3, <5>4, ChosenKept, Zenon
      <4>3. CASE x # t
        <5>1. new < old
          BY <1>1, <1>3, <1>10, <3>3, <4>3
        <5>2. ~(old > k.prio[t])
          <6>1. k.ready[old] \in Seq(Task) /\ k.ready[old] # <<>>
            BY <1>2, <1>3, <2>1, NotEmpty, Zenon DEF Kernel
          <6>2. QED
            BY <1>2, <1>3, <3>3, <6>1 DEF Chosen
        <5>3. new < k.prio[t]
          BY <1>2, <1>3, <1>10, <5>1, <5>2
        <5>4. r.prio[t] = k.prio[t] /\ r.prio[t] >= k.prio[t]
          BY <1>2, <1>5, <1>10, <4>1, <4>3
        <5>5. t \in ToSet(r.ready[k.prio[t]])
          BY <1>2, <3>1, <4>3, Zenon
        <5>6. ASSUME NEW q1 \in Priority, q1 > k.prio[t] PROVE ToSet(r.ready[q1]) \subseteq ToSet(k.ready[q1])
          <6>1. q1 # new
            BY <1>2, <1>3, <1>10, <5>3, <5>6
          <6>2. QED
            BY <1>7, <1>9, <2>1, <3>1, <6>1
        <5>7. QED
          BY <1>2, <3>3, <4>1, <5>4, <5>5, <5>6, ChosenKept
      <4>4. QED
        BY <4>2, <4>3
    <3> HIDE DEF j, yields
    <3>4. QED
      BY <1>2, <1>7, <3>1, <3>2, <3>3 DEF Woken
  <2>2. CASE x \notin ToSet(k.ready[old])
    <3>1. j = set
      BY <2>2
    <3>2. ~IsReady(k, x) \/ a[x] = k.prio[x]
      <4>1. k.prio[x] = old => ~IsReady(k, x)
        BY <1>8, <2>2 DEF IsReady
      <4>2. k.prio[x] # old => a[x] = k.prio[x]
        BY <1>5
      <4>3. QED
        BY <4>1, <4>2
    <3>3. Fit(set, {})
      BY <1>6, <1>7, <3>2 DEF Reranked
    <3>4. ASSUME Chosen(k) PROVE Chosen(set)
      <4>1. set.current = t /\ set.ready = k.ready
        BY <1>2, <1>6 DEF Reranked
      <4>2. set.prio[t] = k.prio[t]
        BY <1>2, <1>5, <1>7, <3>2
      <4>3. QED
        BY <1>2, <3>4, <4>1, <4>2 DEF Chosen
    <3> HIDE DEF j, yields
    <3>5. QED
      BY <1>2, <1>6, <1>7, <3>1, <3>3, <3>4 DEF Reranked, IsReady
  <2> HIDE DEF j, yields
  <2>3. QED
    BY <2>1, <2>2
<1> HIDE DEF j, yields
<1>12. /\ Woken(j, w) /\ Still(j, w) /\ w.event = j.event /\ w.pending = j.pending /\ w.suspended = j.suspended
       /\ w.delayed = j.delayed /\ w.overflowed = j.overflowed
       /\ \A y : IsReady(w, y) <=> IsReady(j, y)
       /\ IF j.susp = 0 THEN Chosen(w) ELSE w.current = j.current /\ w.ready = j.ready
  BY <1>11, SwitchWoken
<1> HIDE DEF w
<1>13. k' = w \/ (k' = j /\ ~yields)
  BY <1>1
<1>14. j.susp = 0 /\ Onward(k, w) /\ Apart(w)
  <2>1. j.susp = 0 /\ w.susp = 0 /\ ToSet(w.pending) = {}
    BY <1>2, <1>11, <1>12 DEF Still, Apart
  <2>2. QED
    BY <1>2, <1>11, <1>12, <2>1, OnwardOnward, ApartOnward DEF Woken
<1>15. ~FixedPriorities /\ ~MildCalls
  BY <1>1 DEF Calling, FixedPriorities, MildCalls
<1>16. /\ Fit(k', {}) /\ Apart(k') /\ Onward(k, k') /\ k'.tick = k.tick /\ k'.overflows = k.overflows
       /\ ToSet(k.terminating) \subseteq ToSet(k'.terminating)
       /\ k'.susp = 0
       /\ Chosen(k') \/ (k'.current = t /\ IsReady(k', t) /\ (Chosen(k) => Chosen(k')))
       /\ k'.prio = a /\ k'.base = b /\ k'.item = i
  <2>1. CASE k' = w
    BY <1>2, <1>11, <1>12, <1>14, <2>1 DEF Woken, Still
  <2>2. CASE k' = j /\ ~yields
    BY <1>2, <1>11, <1>14, <2>2 DEF Still
  <2>3. QED
    BY <1>13, <2>1, <2>2
<1>17. /\ due' \in [Task -> 0..2*TickMod-1]
       /\ \A y \in Task : Awaits(k', y) /\ IsDelayed(k', y) => due'[y] = due[y]
  BY <1>1, KeepDueSame
<1>18. \A y \in Task :
         \/ k'.prio[y] = k.prio[y] /\ k'.base[y] = k.base[y] /\ k'.item[y] = k.item[y]
         \/ ~FixedPriorities /\ k'.item[y] = k'.base[y] /\ (k.prio[y] = k.base[y] => k'.prio[y] = k'.base[y])
  <2>1. k.prio[x] = k.base[x] => a[x] = b[x]
    BY <1>5 DEF old
  <2>2. \A y \in Task \ {x} : k'.prio[y] = k.prio[y] /\ k'.base[y] = k.base[y] /\ k'.item[y] = k.item[y]
    BY <1>5, <1>16
  <2>3. k'.item[x] = k'.base[x] /\ (k.prio[x] = k.base[x] => k'.prio[x] = k'.base[x])
    BY <1>5, <1>16, <2>1
  <2>4. QED
    BY <1>15, <2>2, <2>3
<1>19. pc' = [pc EXCEPT ![t] = p] /\ p \in Places /\ p \notin Locking
  BY <1>1, <1>2 DEF Places, Locking, Core
<1> HIDE DEF p
<1>20. /\ k'.susp = 1 <=> p \in Locking
       /\ k'.susp = 1 => k'.current = t
       /\ \/ p \in {"yield", "resume"} /\ k'.current = t
          \/ Chosen(k')
          \/ k'.current = t /\ IsReady(k', t) /\ (Chosen(k) => Chosen(k'))
  BY <1>16, <1>19
<1>21. MildCalls => \A y : IsReady(k, y) => IsReady(k', y) \/ y = t
  BY <1>15
<1>22. QED
  BY <1>1, <1>16, <1>17, <1>18, <1>19, <1>20, <1>21, OutsideCall, Zenon

\* A step of the running task within the kernel.
LEMMA OutsideMove ==
  ASSUME NEW calls, Core(k, pc, calls), NEW t \in Task, NEW from \in Places, Runs(t, from),
         NEW p \in Places, pc' = [pc EXCEPT ![t] = p],
         Fit(k', {}), Apart(k'), Onward(k, k'), Elapses(k, k'),
         k'.susp = 1 <=> p \in Locking, k'.susp = 1 => k'.current = t,
         \/ p \in {"yield", "resume"} /\ k'.current = t
         \/ Chosen(k')
         \/ k'.current = t /\ IsReady(k', t) /\ ~Leaving(pc, calls, t) /\ (Chosen(k) => Chosen(k')),
         t = Idle /\ p = "free" => ToSet(k'.terminating) # {},
         t # Idle => ToSet(k.terminating) \subseteq ToSet(k'.terminating),
         due' \in [Task -> 0..2*TickMod-1],
         \A x \in Task : Awaits(k', x) /\ IsDelayed(k', x) => due'[x] = due[x],
         \A x \in Task : k'.prio[x] = k.prio[x] /\ k'.base[x] = k.base[x] /\ k'.item[x] = k.item[x],
         \A x : IsReady(k, x) => IsReady(k', x) \/ x = t
  PROVE  Outside(calls, k, pc, due, k', pc', due')
<1>1. k.current = t /\ pc[t] = from
  BY DEF Runs
<1>2. k' \in Kernel /\ k'.current \in Task /\ k'.susp \in {0, 1} /\ k'.prio[k'.current] \in Priority
  BY Zenon DEF Fit, Kernel
<1>3. /\ pc \in [Task -> Places \cup QPlaces] /\ calls \in [Task -> CallType]
      /\ \A x \in Task \ {t} : pc[x] \notin Locking \cup QLocking
      /\ pc[Idle] \in Places /\ (pc[Idle] = "free" => ToSet(k.terminating) # {})
  BY <1>1 DEF Core
<1>4. /\ pc' \in [Task -> Places \cup QPlaces] /\ pc'[t] = p
      /\ \A x \in Task \ {t} : pc'[x] = pc[x]
  BY <1>3
<1>5. p \notin QLocking /\ p \notin Parting /\ from \notin QLocking
  BY DEF Places, QLocking, Parting
<1>6. Chosen(k') => IsReady(k', k'.current)
  BY <1>2 DEF Chosen, IsReady
<1>7. /\ k'.susp = 1 <=> pc'[k'.current] \in Locking \cup QLocking
      /\ \A x \in Task \ {k'.current} : pc'[x] \notin Locking \cup QLocking
  BY <1>2, <1>3, <1>4, <1>5
<1>8. p \in {"yield", "resume"} /\ k'.current = t => Leaving(pc', calls, k'.current)
  BY <1>4 DEF Leaving
<1>9. ~Leaving(pc', calls, k'.current) => IsReady(k', k'.current)
  BY <1>6, <1>8
<1>10. pc'[Idle] \in Places /\ (pc'[Idle] = "free" => ToSet(k'.terminating) # {})
  BY <1>3, <1>4, IdleIsTask
<1>11. Core(k', pc', calls)
  BY <1>3, <1>4, <1>7, <1>9, <1>10 DEF Core
<1>12. \A x \in Task : pc'[x] = pc[x] \/ (pc'[x] \in Places /\ (NoCreation => pc[x] \in Places))
  BY <1>1, <1>4
<1>13. pc[k.current] \notin QLocking /\ pc'[k'.current] \notin QLocking
  BY <1>1, <1>2, <1>3, <1>4, <1>5
<1>14. \/ Leaving(pc', calls, k'.current) \/ Chosen(k')
       \/ k'.current = k.current /\ ~Leaving(pc, calls, k.current) /\ (Chosen(k) => Chosen(k'))
  BY <1>1, <1>8
<1>15. MildCalls => \A x : IsReady(k, x) => IsReady(k', x) \/ (x = k.current /\ pc[x] \in Places)
  BY <1>1
<1>16. QED
  BY <1>11, <1>12, <1>13, <1>14, <1>15 DEF Outside

\* xTaskResumeAll.
LEMMA OutsideResumeAll ==
  ASSUME NEW calls, Core(k, pc, calls), due \in [Task -> 0..2*TickMod-1],
         NEW t \in Task, NEW from \in Locking, NEW ifYielded \in Places, NEW otherwise \in Places,
         ResumeAll(t, from, ifYielded, otherwise),
         ifYielded \notin Locking, otherwise \notin Locking, from = "resume" => otherwise = "yield",
         t = Idle /\ (ifYielded = "free" \/ otherwise = "free") => ToSet(k.terminating) # {}
  PROVE  Outside(calls, k, pc, due, k', pc', due')
<1> DEFINE r == xTaskResumeAll(k)
           w == r.k
           p == IF r.yielded THEN ifYielded ELSE otherwise
<1>1. Runs(t, from) /\ k' = w /\ Goto(t, p) /\ KeepDue
  BY DEF ResumeAll
<1>2. k.current = t /\ pc[t] = from /\ from \in Places
  BY <1>1 DEF Runs, Places, Locking
<1>3. Fit(k, {}) /\ Apart(k) /\ k.susp = 1 /\ (~Leaving(pc, calls, t) => IsReady(k, t))
  BY <1>2 DEF Core
<1>4. /\ Woken(k, w) /\ Elapses(k, w) /\ w.susp = 0 /\ ToSet(w.pending) = {}
      /\ r.yielded \in BOOLEAN
      /\ IF r.yielded THEN Chosen(w) ELSE w.current = k.current /\ (Chosen(k) => Chosen(w))
  BY <1>3, ResumeWoken
<1> HIDE DEF r, w
<1>5. Apart(w)
  BY <1>3, <1>4, ApartOnward DEF Woken
<1>6. p \in Places /\ p \notin Locking /\ p \in {ifYielded, otherwise}
  BY <1>4
<1>7. /\ due' \in [Task -> 0..2*TickMod-1]
      /\ \A x \in Task : Awaits(k', x) /\ IsDelayed(k', x) => due'[x] = due[x]
  BY <1>1, KeepDueSame
<1>8. from # "resume" => ~Leaving(pc, calls, t)
  BY <1>2 DEF Leaving, Locking, Parting
<1>9. \/ p \in {"yield", "resume"} /\ w.current = t
      \/ Chosen(w)
      \/ w.current = t /\ IsReady(w, t) /\ ~Leaving(pc, calls, t) /\ (Chosen(k) => Chosen(w))
  <2>1. CASE r.yielded
    BY <1>4, <2>1
  <2>2. CASE ~r.yielded
    <3>1. w.current = t /\ p = otherwise /\ (Chosen(k) => Chosen(w))
      BY <1>2, <1>4, <2>2
    <3>2. CASE from = "resume"
      BY <3>1, <3>2
    <3>3. CASE from # "resume"
      BY <1>3, <1>4, <1>8, <3>1, <3>3 DEF Woken
    <3>4. QED
      BY <3>2, <3>3
  <2>3. QED
    BY <2>1, <2>2
<1>10. /\ Fit(k', {}) /\ Apart(k') /\ Onward(k, k') /\ Elapses(k, k')
       /\ k'.susp = 1 <=> p \in Locking
       /\ k'.susp = 1 => k'.current = t
       /\ \/ p \in {"yield", "resume"} /\ k'.current = t
          \/ Chosen(k')
          \/ k'.current = t /\ IsReady(k', t) /\ ~Leaving(pc, calls, t) /\ (Chosen(k) => Chosen(k'))
       /\ t = Idle /\ p = "free" => ToSet(k'.terminating) # {}
       /\ ToSet(k.terminating) \subseteq ToSet(k'.terminating)
       /\ \A x \in Task : k'.prio[x] = k.prio[x] /\ k'.base[x] = k.base[x] /\ k'.item[x] = k.item[x]
       /\ \A x : IsReady(k, x) => IsReady(k', x) \/ x = t
  BY <1>1, <1>4, <1>5, <1>6, <1>9 DEF Woken
<1>11. pc' = [pc EXCEPT ![t] = p]
  BY <1>1 DEF Goto
<1> HIDE DEF p
<1>12. QED
  BY <1>1, <1>2, <1>6, <1>7, <1>10, <1>11, OutsideMove, Zenon

\* A yield at a place where the scheduler is not suspended.
LEMMA OutsideYield ==
  ASSUME NEW calls, Core(k, pc, calls), due \in [Task -> 0..2*TickMod-1], NEW t \in Task, NEW from \in Places \ Locking,
         Runs(t, from), k' = vTaskSwitchContext(k), Goto(t, "app"), KeepDue
  PROVE  Outside(calls, k, pc, due, k', pc', due')
<1> DEFINE w == vTaskSwitchContext(k)
           p == "app"
<1>1. k.current = t /\ pc[t] = from /\ from \notin QLocking
  BY DEF Runs, Places, QLocking
<1>2. k \in Kernel /\ Fit(k, {}) /\ Apart(k) /\ k.susp = 0
  BY <1>1, Zenon DEF Core, Fit, Kernel
<1>3. /\ Woken(k, w) /\ Still(k, w) /\ w.pending = k.pending /\ Chosen(w)
  BY <1>2, SwitchWoken
<1>4. k' = w
  OBVIOUS
<1> HIDE DEF w
<1>5. Apart(w) /\ Elapses(k, w)
  BY <1>2, <1>3, ApartOnward, StillPassed DEF Woken, Still, Apart
<1>6. /\ due' \in [Task -> 0..2*TickMod-1]
      /\ \A x \in Task : Awaits(k', x) /\ IsDelayed(k', x) => due'[x] = due[x]
  BY KeepDueSame
<1>7. p \in Places /\ p \notin Locking /\ p # "free" /\ pc' = [pc EXCEPT ![t] = p]
  BY DEF Places, Locking, Goto
<1>8. /\ Fit(k', {}) /\ Apart(k') /\ Onward(k, k') /\ Elapses(k, k')
      /\ k'.susp = 1 <=> p \in Locking
      /\ k'.susp = 1 => k'.current = t
      /\ Chosen(k')
      /\ t = Idle /\ p = "free" => ToSet(k'.terminating) # {}
      /\ ToSet(k.terminating) \subseteq ToSet(k'.terminating)
      /\ \A x \in Task : k'.prio[x] = k.prio[x] /\ k'.base[x] = k.base[x] /\ k'.item[x] = k.item[x]
      /\ \A x : IsReady(k, x) => IsReady(k', x) \/ x = t
  BY <1>2, <1>3, <1>4, <1>5, <1>7 DEF Woken, Still
<1> HIDE DEF p
<1>9. QED
  BY <1>6, <1>7, <1>8, OutsideMove, Zenon

\* The idle task suspends the scheduler.
LEMMA OutsideReap ==
  ASSUME NEW calls, Core(k, pc, calls), due \in [Task -> 0..2*TickMod-1],
         Runs(Idle, "app"), k' = vTaskSuspendAll(k), Goto(Idle, "reap"), KeepDue
  PROVE  Outside(calls, k, pc, due, k', pc', due')
<1> DEFINE u == vTaskSuspendAll(k)
           p == "reap"
           from == "app"
<1>1. k.current = Idle /\ pc[Idle] = from /\ from \notin Locking \cup QLocking /\ from \in Places
      /\ ~Leaving(pc, calls, Idle)
  BY DEF Runs, Places, Locking, QLocking, Leaving, Parting
<1>2. k \in Kernel /\ Fit(k, {}) /\ Apart(k) /\ k.susp = 0 /\ IsReady(k, Idle)
  BY <1>1, Zenon DEF Core, Fit, Kernel
<1>3. /\ Woken(k, u) /\ u.susp = 1 /\ u.current = k.current /\ u.tick = k.tick /\ u.overflows = k.overflows
      /\ Apart(u) /\ (Chosen(k) => Chosen(u))
  BY <1>2, SuspendAllOnward
<1>4. k' = u
  OBVIOUS
<1> HIDE DEF u
<1>5. /\ due' \in [Task -> 0..2*TickMod-1]
      /\ \A x \in Task : Awaits(k', x) /\ IsDelayed(k', x) => due'[x] = due[x]
  BY KeepDueSame
<1>6. p \in Places /\ p \in Locking /\ p # "free" /\ pc' = [pc EXCEPT ![Idle] = p] /\ Runs(Idle, from)
  BY DEF Places, Locking, Goto
<1>7. /\ Fit(k', {}) /\ Apart(k') /\ Onward(k, k') /\ Elapses(k, k')
      /\ k'.susp = 1 <=> p \in Locking
      /\ k'.current = Idle
      /\ k'.current = Idle /\ IsReady(k', Idle) /\ ~Leaving(pc, calls, Idle) /\ (Chosen(k) => Chosen(k'))
      /\ p = "free" => ToSet(k'.terminating) # {}
      /\ \A x \in Task : k'.prio[x] = k.prio[x] /\ k'.base[x] = k.base[x] /\ k'.item[x] = k.item[x]
      /\ \A x : IsReady(k, x) => IsReady(k', x) \/ x = Idle
  BY <1>1, <1>2, <1>3, <1>4, <1>6, StillPassed DEF Woken
<1> HIDE DEF p, from
<1>8. QED
  BY <1>1, <1>5, <1>6, <1>7, IdleIsTask, OutsideMove, Zenon

\* The idle task ends a round without a yield.
LEMMA OutsideRound ==
  ASSUME NEW calls, Core(k, pc, calls), due \in [Task -> 0..2*TickMod-1], NEW from \in {"round", "app"},
         Runs(Idle, from), k' = k, Goto(Idle, "app"), KeepDue
  PROVE  Outside(calls, k, pc, due, k', pc', due')
<1> DEFINE p == "app"
<1>1. k.current = Idle /\ pc[Idle] = from /\ from \notin Locking \cup QLocking /\ from \in Places
      /\ ~Leaving(pc, calls, Idle)
  BY DEF Runs, Places, Locking, QLocking, Leaving, Parting
<1>2. k \in Kernel /\ Fit(k, {}) /\ Apart(k) /\ k.susp = 0 /\ IsReady(k, Idle)
  BY <1>1, Zenon DEF Core, Fit, Kernel
<1>3. /\ due' \in [Task -> 0..2*TickMod-1]
      /\ \A x \in Task : Awaits(k', x) /\ IsDelayed(k', x) => due'[x] = due[x]
  BY KeepDueSame
<1>4. p \in Places /\ p \notin Locking /\ p # "free" /\ pc' = [pc EXCEPT ![Idle] = p]
  BY DEF Places, Locking, Goto
<1>5. Onward(k, k) /\ Elapses(k, k)
  BY <1>2, OnwardSame, StillPassed
<1>6. /\ Fit(k', {}) /\ Apart(k') /\ Onward(k, k') /\ Elapses(k, k')
      /\ k'.susp = 1 <=> p \in Locking
      /\ k'.current = Idle
      /\ k'.current = Idle /\ IsReady(k', Idle) /\ ~Leaving(pc, calls, Idle) /\ (Chosen(k) => Chosen(k'))
      /\ p = "free" => ToSet(k'.terminating) # {}
      /\ \A x \in Task : k'.prio[x] = k.prio[x] /\ k'.base[x] = k.base[x] /\ k'.item[x] = k.item[x]
      /\ \A x : IsReady(k, x) => IsReady(k', x) \/ x = Idle
  BY <1>1, <1>2, <1>4, <1>5
<1> HIDE DEF p
<1>7. QED
  BY <1>1, <1>3, <1>4, <1>6, IdleIsTask, OutsideMove, Zenon

\* The idle task frees the memory of the first deleted task.
LEMMA OutsideFree ==
  ASSUME NEW calls, Core(k, pc, calls), due \in [Task -> 0..2*TickMod-1],
         Runs(Idle, "free"), Goto(Idle, "round"), KeepDue,
         k' = [prvDeleteTCB(k, Head(k.terminating)) EXCEPT !.terminating = Tail(@), !.deleted = @ - 1]
  PROVE  Outside(calls, k, pc, due, k', pc', due')
<1> DEFINE s == k.terminating
           x == Head(s)
           z == Tail(s)
           r == [prvDeleteTCB(k, x) EXCEPT !.terminating = Tail(@), !.deleted = @ - 1]
           p == "round"
           from == "free"
<1>1. k.current = Idle /\ pc[Idle] = from /\ from \notin Locking \cup QLocking /\ from \in Places
      /\ ~Leaving(pc, calls, Idle)
  BY DEF Runs, Places, Locking, QLocking, Leaving, Parting
<1>2. k \in Kernel /\ Fit(k, {}) /\ Apart(k) /\ k.susp = 0 /\ IsReady(k, Idle) /\ ToSet(s) # {}
  BY <1>1, Zenon DEF Core, Fit, Kernel
<1>3. s \in Seq(Task) /\ NoDup(s) /\ k.deleted = Len(s) /\ Len(s) \in Nat
  BY <1>2 DEF Fit, Kernel, Placed, NoDups
<1>4. /\ z \in Seq(Task) /\ x \in ToSet(s) /\ ToSet(z) = ToSet(s) \ {x} /\ NoDup(z)
      /\ Len(z) = Len(s) - 1 /\ Len(s) > 0
  <2>1. /\ z \in Seq(Task) /\ x \in ToSet(s) /\ ToSet(s) = ToSet(z) \cup {x}
        /\ NoDup(s) => NoDup(z) /\ x \notin ToSet(z)
        /\ Len(z) = Len(s) - 1 /\ Len(s) > 0
    BY <1>2, <1>3, TailFacts
  <2>2. QED
    BY <1>3, <2>1
<1>5. k' = r
  OBVIOUS
<1>6. x \in Task
  BY <1>3, <1>4 DEF ToSet
<1> HIDE DEF z, x
<1> DEFINE f == k.free \cup {x}
           n == k.deleted - 1
<1>7. r = [[[k EXCEPT !.free = f] EXCEPT !.terminating = z] EXCEPT !.deleted = n]
  BY <1>2 DEF prvDeleteTCB, Kernel, z
<1>8. f \in SUBSET Task /\ n \in Nat /\ n = Len(z)
  <2>1. k.free \subseteq Task
    BY <1>2 DEF Kernel
  <2>2. n \in Nat /\ n = Len(z)
    BY <1>3, <1>4
  <2>3. QED
    BY <1>6, <2>1, <2>2
<1> HIDE DEF r, f, n
<1>9. /\ r \in Kernel /\ r.free = f /\ r.terminating = z /\ r.deleted = n
      /\ r.current = k.current /\ r.ready = k.ready /\ r.delayed = k.delayed /\ r.overflowed = k.overflowed
      /\ r.pending = k.pending /\ r.suspended = k.suspended /\ r.prio = k.prio /\ r.wake = k.wake /\ r.tick = k.tick
      /\ r.overflows = k.overflows /\ r.top = k.top /\ r.susp = k.susp
      /\ r.base = k.base /\ r.item = k.item /\ r.event = k.event
  BY ZenonT(60), <1>2, <1>4, <1>7, <1>8 DEF Kernel
<1>10. Fit(r, {})
  <2>1. NoDups(r)
    BY <1>2, <1>4, <1>9 DEF Fit, Placed, NoDups
  <2>2. ASSUME NEW y \in Task
        PROVE  OnePlace(r, y) /\ \A q1 \in Priority : y \in ToSet(r.ready[q1]) => r.prio[y] = q1
    <3>1. OnePlace(k, y) /\ \A q1 \in Priority : y \in ToSet(k.ready[q1]) => k.prio[y] = q1
      BY <1>2 DEF Fit, Placed
    <3>2. CASE y = x
      BY <1>4, <1>9, <3>1, <3>2 DEF OnePlace, IsReady, f
    <3>3. CASE y # x
      BY <1>4, <1>9, <3>1, <3>3 DEF OnePlace, IsReady, f
    <3>4. QED
      BY <3>2, <3>3
  <2>3. QED
    BY <1>2, <1>8, <1>9, <2>1, <2>2 DEF Fit, Placed, TopCovers
<1>11. Onward(k, r) /\ Apart(r) /\ Elapses(k, r)
  <2>1. Onward(k, r)
    BY <1>9, OnwardSame DEF IsDelayed
  <2>2. QED
    BY <1>2, <1>9, <2>1, ApartOnward, StillPassed DEF Apart
<1>12. /\ due' \in [Task -> 0..2*TickMod-1]
       /\ \A y \in Task : Awaits(k', y) /\ IsDelayed(k', y) => due'[y] = due[y]
  BY KeepDueSame
<1>13. p \in Places /\ p \notin Locking /\ p # "free" /\ pc' = [pc EXCEPT ![Idle] = p] /\ Runs(Idle, from)
  BY DEF Places, Locking, Goto
<1>14. /\ Chosen(k) => Chosen(r)
       /\ \A y : IsReady(k, y) => IsReady(r, y)
       /\ r.current = Idle /\ r.susp = 0 /\ IsReady(r, Idle)
  BY <1>1, <1>2, <1>9 DEF Chosen, IsReady
<1>15. /\ Fit(k', {}) /\ Apart(k') /\ Onward(k, k') /\ Elapses(k, k')
       /\ k'.susp = 1 <=> p \in Locking
       /\ k'.susp = 1 => k'.current = Idle
       /\ k'.current = Idle /\ IsReady(k', Idle) /\ ~Leaving(pc, calls, Idle) /\ (Chosen(k) => Chosen(k'))
  <2>1. Fit(k', {}) /\ Apart(k')
    BY <1>5, <1>10, <1>11
  <2>2. Onward(k, k') /\ Elapses(k, k')
    BY <1>5, <1>11
  <2>3. k'.susp = 0 /\ k'.current = Idle
    BY <1>5, <1>14, Zenon
  <2>4. IsReady(k', Idle) /\ (Chosen(k) => Chosen(k'))
    BY <1>5, <1>14
  <2>5. QED
    BY <1>1, <1>13, <2>1, <2>2, <2>3, <2>4
<1>16. /\ p = "free" => ToSet(k'.terminating) # {}
       /\ \A y \in Task : k'.prio[y] = k.prio[y] /\ k'.base[y] = k.base[y] /\ k'.item[y] = k.item[y]
       /\ \A y : IsReady(k, y) => IsReady(k', y) \/ y = Idle
  BY <1>5, <1>9, <1>13, <1>14, Zenon
<1> HIDE DEF p, from
<1>17. QED
  BY <1>1, <1>12, <1>13, <1>15, <1>16, IdleIsTask, OutsideMove, Zenon

\* The tick interrupt moves no task.
LEMMA OutsideTick ==
  ASSUME NEW calls, Core(k, pc, calls), due \in [Task -> 0..2*TickMod-1], Tick
  PROVE  Outside(calls, k, pc, due, k', pc', due')
<1> DEFINE r == vTaskIncrementTick(k)
           w == vTaskSwitchContext(r)
           c == k.current
<1>1. /\ k.missed < MaxMissed /\ k' = w /\ KeepDue /\ pc' = pc
  BY DEF Tick
<1>2. /\ k \in Kernel /\ Fit(k, {}) /\ Apart(k) /\ k.susp \in {0, 1} /\ c \in Task
      /\ pc \in [Task -> Places \cup QPlaces] /\ calls \in [Task -> CallType]
      /\ k.susp = 1 <=> pc[c] \in Locking \cup QLocking
      /\ \A x \in Task \ {c} : pc[x] \notin Locking \cup QLocking
      /\ ~Leaving(pc, calls, c) => IsReady(k, c)
      /\ pc[Idle] \in Places /\ (pc[Idle] = "free" => ToSet(k.terminating) # {})
  BY Zenon DEF Core, Fit, Kernel
<1>3. /\ due' \in [Task -> 0..2*TickMod-1]
      /\ \A x \in Task : Awaits(k', x) /\ IsDelayed(k', x) => due'[x] = due[x]
  BY <1>1, KeepDueSame
<1>4. MaxMissed \in Nat \ {0}
  BY SchedAssumption
<1>5. CASE k.susp = 0
  <2>1. /\ Woken(k, r) /\ Passed(k, r, 1) /\ r.susp = 0 /\ r.current = k.current
        /\ ToSet(r.pending) \subseteq ToSet(k.pending)
    BY <1>2, <1>5, IncrementWoken
  <2> HIDE DEF r
  <2>2. /\ Woken(r, w) /\ Still(r, w) /\ w.pending = r.pending /\ Chosen(w)
    BY <2>1, SwitchWoken DEF Woken
  <2> HIDE DEF w
  <2>3. Woken(k, w) /\ w.susp = 0 /\ ToSet(w.pending) = {}
    BY <1>2, <1>5, <2>1, <2>2, WokenWoken DEF Still, Apart
  <2>4. Apart(w)
    BY <1>2, <2>3, ApartOnward DEF Woken
  <2>5. Passed(k, w, 1)
    BY <2>1, <2>2 DEF Passed, Still, Now, Clock
  <2>6. Elapses(k, w)
    BY <1>4, <2>5 DEF Elapses
  <2>7. w \in Kernel /\ w.current \in Task /\ w.prio[w.current] \in Priority
    BY <2>3, Zenon DEF Woken, Fit, Kernel
  <2>8. IsReady(w, w.current)
    BY <2>2, <2>7 DEF Chosen, IsReady
  <2>9. \A x \in Task : pc[x] \notin Locking \cup QLocking
    BY <1>2, <1>5
  <2>10. Core(w, pc, calls)
    BY <1>2, <2>3, <2>4, <2>7, <2>8, <2>9 DEF Core, Woken
  <2>11. pc[c] \notin QLocking /\ pc[w.current] \notin QLocking
    BY <1>2, <2>7, <2>9
  <2>12. /\ \A x \in Task : w.prio[x] = k.prio[x] /\ w.base[x] = k.base[x] /\ w.item[x] = k.item[x]
         /\ \A x : IsReady(k, x) => IsReady(w, x)
         /\ Onward(k, w)
    BY <2>3 DEF Woken
  <2>13. Outside(calls, k, pc, due, w, pc, due')
    BY <1>1, <1>3, <2>2, <2>6, <2>10, <2>11, <2>12 DEF Outside
  <2>14. QED
    BY <1>1, <2>13
<1>6. CASE k.susp = 1
  <2>1. r = [k EXCEPT !.missed = k.missed + 1]
    BY <1>2, <1>6 DEF vTaskIncrementTick
  <2>2. k.missed + 1 \in 0..MaxMissed
    <3>1. k.missed \in 0..MaxMissed
      BY <1>2 DEF Kernel
    <3>2. QED
      BY <1>1, <1>4, <3>1
  <2> HIDE DEF r
  <2>3. /\ r \in Kernel /\ r.susp = 1 /\ r.current = k.current
        /\ r.prio = k.prio /\ r.ready = k.ready /\ r.delayed = k.delayed /\ r.overflowed = k.overflowed
        /\ r.pending = k.pending /\ r.suspended = k.suspended /\ r.terminating = k.terminating
        /\ r.deleted = k.deleted /\ r.free = k.free /\ r.wake = k.wake /\ r.tick = k.tick
        /\ r.overflows = k.overflows /\ r.top = k.top
        /\ r.base = k.base /\ r.item = k.item /\ r.event = k.event
    <3> DEFINE n == k.missed + 1
    <3>1. r = [k EXCEPT !.missed = n] /\ n \in 0..MaxMissed
      BY <2>1, <2>2
    <3> HIDE DEF n
    <3>2. QED
      BY ZenonT(60), <1>2, <1>6, <3>1 DEF Kernel
  <2>4. Fit(r, {})
    BY <1>2, <2>3 DEF Fit, Placed, NoDups, OnePlace, IsReady, TopCovers
  <2>5. Woken(k, r)
    <3>1. Onward(k, r)
      BY <2>3, OnwardSame DEF IsDelayed
    <3>2. QED
      BY <2>3, <2>4, <3>1 DEF Woken, IsReady
  <2>6. /\ Woken(r, w) /\ Still(r, w) /\ w.pending = r.pending /\ w.current = r.current /\ w.ready = r.ready
    BY <2>3, <2>4, SwitchWoken
  <2> HIDE DEF w
  <2>7. Woken(k, w) /\ w.susp = 1 /\ w.current = c
    BY <2>3, <2>5, <2>6, WokenWoken DEF Still
  <2>8. Apart(w) /\ Elapses(k, w) /\ w.tick = k.tick /\ w.overflows = k.overflows
    <3>1. w.tick = k.tick /\ w.overflows = k.overflows
      BY <2>3, <2>6 DEF Still
    <3>2. QED
      BY <1>2, <2>7, <3>1, ApartOnward, StillPassed DEF Woken
  <2>9. Chosen(k) => Chosen(w)
    <3>1. w.current = k.current /\ w.ready = k.ready /\ w.prio = k.prio
      BY <2>3, <2>6, <2>7 DEF Woken
    <3>2. QED
      BY <3>1 DEF Chosen
  <2>10. ~Leaving(pc, calls, w.current) => IsReady(w, w.current)
    BY <1>2, <2>7 DEF Woken
  <2>11. Core(w, pc, calls)
    BY <1>2, <1>6, <2>7, <2>8, <2>10 DEF Core, Woken
  <2>12. /\ \A x \in Task : w.prio[x] = k.prio[x] /\ w.base[x] = k.base[x] /\ w.item[x] = k.item[x]
         /\ \A x : IsReady(k, x) => IsReady(w, x)
         /\ Onward(k, w)
    BY <2>7 DEF Woken
  <2>13. Outside(calls, k, pc, due, w, pc, due')
    BY <1>1, <1>3, <2>7, <2>8, <2>9, <2>11, <2>12 DEF Outside
  <2>14. QED
    BY <1>1, <2>13
<1>7. QED
  BY <1>2, <1>5, <1>6

\* A call of the API.
LEMMA OutsideCalls ==
  ASSUME NEW calls, Core(k, pc, calls), due \in [Task -> 0..2*TickMod-1], lastWake \in [Task -> portTickType],
         NEW t \in Task, Call(t)
  PROVE  Outside(calls, k, pc, due, k', pc', due') /\ lastWake' \in [Task -> portTickType]
<1>1. CASE \E n \in Delays : vTaskDelay(t, n) \/ vTaskDelayUntil(t, n)
  <2>1. PICK n \in Delays : vTaskDelay(t, n) \/ vTaskDelayUntil(t, n)
    BY <1>1
  <2>2. CASE vTaskDelay(t, n)
    <3>1. lastWake' = lastWake
      BY <2>2 DEF vTaskDelay
    <3>2. QED
      BY <2>2, <3>1, OutsideDelay
  <2>3. CASE vTaskDelayUntil(t, n)
    BY <2>3, OutsideDelayUntil
  <2>4. QED
    BY <2>1, <2>2, <2>3
<1>2. CASE \E x \in Task : vTaskSuspend(t, x) \/ vTaskResume(t, x) \/ vTaskDelete(t, x)
  <2>1. PICK x \in Task : vTaskSuspend(t, x) \/ vTaskResume(t, x) \/ vTaskDelete(t, x)
    BY <1>2
  <2>2. lastWake' = lastWake
    BY <2>1 DEF vTaskSuspend, vTaskResume, vTaskDelete
  <2>3. QED
    BY <2>1, <2>2, OutsideSuspend, OutsideResume, OutsideDelete
<1>3. CASE \E x \in Task \ {Idle}, n \in NewPriorities : vTaskPrioritySet(t, x, n) \/ xTaskCreate(t, x, n)
  <2>1. PICK x \in Task \ {Idle}, n \in NewPriorities : vTaskPrioritySet(t, x, n) \/ xTaskCreate(t, x, n)
    BY <1>3
  <2>2. CASE vTaskPrioritySet(t, x, n)
    <3>1. lastWake' = lastWake
      BY <2>2 DEF vTaskPrioritySet
    <3>2. QED
      BY <2>2, <3>1, OutsidePrioritySet
  <2>3. CASE xTaskCreate(t, x, n)
    <3>1. lastWake' = [lastWake EXCEPT ![x] = 0] /\ 0 \in portTickType
      BY <2>3, TickModAssumption DEF xTaskCreate, portTickType
    <3>2. QED
      BY <2>3, <3>1, OutsideCreate
  <2>4. QED
    BY <2>1, <2>2, <2>3
<1>4. CASE SuspendScheduler(t)
  <2>1. lastWake' = lastWake
    BY <1>4 DEF SuspendScheduler
  <2>2. QED
    BY <1>4, <2>1, OutsideSection
<1>5. QED
  BY <1>1, <1>2, <1>3, <1>4 DEF Call

\* A task goes on in the kernel.
LEMMA OutsideContinue ==
  ASSUME NEW calls, Core(k, pc, calls), due \in [Task -> 0..2*TickMod-1], NEW t \in Task, Continue(t)
  PROVE  Outside(calls, k, pc, due, k', pc', due') /\ lastWake' = lastWake
<1>1. {"locked", "resume"} \subseteq Locking /\ {"app", "yield"} \subseteq Places \ Locking
  BY DEF Places, Locking
<1>2. CASE ResumeAll(t, "locked", "app", "app")
  BY <1>1, <1>2, OutsideResumeAll DEF ResumeAll
<1>3. CASE ResumeAll(t, "resume", "app", "yield")
  BY <1>1, <1>3, OutsideResumeAll DEF ResumeAll
<1>4. CASE taskYIELD(t, "yield", "app")
  BY <1>1, <1>4, OutsideYield DEF taskYIELD
<1>5. QED
  BY <1>2, <1>3, <1>4 DEF Continue

\* The idle task.
LEMMA OutsideIdle ==
  ASSUME NEW calls, Core(k, pc, calls), due \in [Task -> 0..2*TickMod-1], prvIdleTask
  PROVE  Outside(calls, k, pc, due, k', pc', due') /\ lastWake' = lastWake
<1>1. "reap" \in Locking /\ {"app", "free", "round"} \subseteq Places \ Locking
  BY DEF Places, Locking
<1>2. CASE Runs(Idle, "app") /\ k' = vTaskSuspendAll(k) /\ Goto(Idle, "reap") /\ KeepDue /\ lastWake' = lastWake
  BY <1>2, OutsideReap
<1>3. CASE LET next == IF k.terminating = <<>> THEN "round" ELSE "free" IN ResumeAll(Idle, "reap", next, next)
  <2> DEFINE next == IF k.terminating = <<>> THEN "round" ELSE "free"
  <2>1. next \in Places /\ next \notin Locking /\ (next = "free" => k.terminating # <<>>)
    BY <1>1
  <2>2. k.terminating # <<>> => ToSet(k.terminating) # {}
    <3>1. k.terminating \in Seq(Task)
      BY DEF Core, Fit, Kernel
    <3>2. QED
      BY <3>1, NotEmpty, Zenon
  <2>3. ResumeAll(Idle, "reap", next, next)
    BY <1>3
  <2> HIDE DEF next
  <2>4. lastWake' = lastWake
    BY <2>3 DEF ResumeAll
  <2>5. QED
    BY <1>1, <2>1, <2>2, <2>3, <2>4, IdleIsTask, OutsideResumeAll
<1>4. CASE /\ Runs(Idle, "free")
           /\ k' = [prvDeleteTCB(k, Head(k.terminating)) EXCEPT !.terminating = Tail(@), !.deleted = @ - 1]
           /\ Goto(Idle, "round") /\ KeepDue /\ lastWake' = lastWake
  BY <1>4, OutsideFree
<1>5. CASE /\ Runs(Idle, "round") \/ (Runs(Idle, "app") /\ k.deleted = 0)
           /\ k' = IF Len(k.ready[0]) > 1 THEN vTaskSwitchContext(k) ELSE k
           /\ Goto(Idle, "app") /\ KeepDue /\ lastWake' = lastWake
  <2>1. PICK from \in {"round", "app"} : Runs(Idle, from)
    BY <1>5
  <2>2. from \in Places \ Locking
    BY <1>1
  <2>3. k' = vTaskSwitchContext(k) \/ k' = k
    BY <1>5
  <2>4. QED
    BY <1>5, <2>1, <2>2, <2>3, IdleIsTask, OutsideYield, OutsideRound
<1>6. QED
  BY <1>2, <1>3, <1>4, <1>5 DEF prvIdleTask, prvCheckTasksWaitingTermination

\* Every step outside the queue.
LEMMA OutsideNext ==
  ASSUME NEW calls, Core(k, pc, calls), due \in [Task -> 0..2*TickMod-1], lastWake \in [Task -> portTickType], Next
  PROVE  Outside(calls, k, pc, due, k', pc', due') /\ lastWake' \in [Task -> portTickType]
<1>1. CASE Tick
  <2>1. lastWake' = lastWake
    BY <1>1 DEF Tick
  <2>2. QED
    BY <1>1, <2>1, OutsideTick
<1>2. QED
  BY <1>1, OutsideCalls, OutsideContinue, OutsideIdle DEF Next
-----------------------------------------------------------------------------
(* Who wakes, and when.                                                    *)

\* Nobody becomes ready who is delayed in j.
Spares(j, r) == \A t \in Task : IsDelayed(j, t) => ~IsReady(r, t)

\* In r it is time e, or up to n ticks later.
Late(r, e, n) == \E i \in 0..n : Clock(r) = e + i \/ Clock(r) = e + i - 2 * TickMod

\* Who is delayed in j is so in r, or its wake time has come up to n ticks ago.
Slept(j, r, d, n) == \A t \in Task : IsDelayed(j, t) => IsDelayed(r, t) \/ Late(r, d[t], n)

\* A step that makes suspended and free tasks ready spares the delayed ones.
LEMMA SparesReady ==
  ASSUME NEW j, NEW r, Fit(j, {}), \A t \in Task : IsReady(r, t) => IsReady(j, t) \/ t \in j.suspended \/ t \in j.free
  PROVE  Spares(j, r)
<1> SUFFICES ASSUME NEW t \in Task, IsDelayed(j, t) PROVE ~IsReady(r, t)
  BY DEF Spares
<1>1. OnePlace(j, t)
  BY DEF Fit, Placed
<1>2. ~IsReady(j, t) /\ t \notin j.suspended /\ t \notin j.free
  BY <1>1 DEF OnePlace, IsDelayed
<1>3. QED
  BY <1>2

\* The tick interrupt wakes a task at its wake time.
LEMMA IncrementSlept ==
  ASSUME NEW j, NEW d, Fit(j, {}), OnTime(j, d), j.susp = 0, NEW t, IsDelayed(j, t)
  PROVE  LET r == vTaskIncrementTick(j) IN IsDelayed(r, t) \/ Clock(r) = d[t]
<1> DEFINE r == vTaskIncrementTick(j)
           next == Plus(j.tick, 1)
           o == (j.overflows + 1) % OverflowMod
<1>1. PICK u : Ticked(j, u) /\ r = prvCheckDelayedTasks(u)
  BY IncrementIs
<1> HIDE DEF r
<1>2. j \in Kernel /\ u \in Kernel /\ Fit(u, {})
  BY <1>1 DEF Fit, Ticked
<1>3. PICK s : Wakeable(u, s) /\ r = MakeReady(u, s) /\ ToSet(s) = {x \in ToSet(u.delayed) : u.wake[x] <= u.tick}
  BY <1>1, <1>2, CheckIs
<1>4. s \in Seq(Task)
  BY <1>3 DEF Wakeable
<1>5. /\ ToSet(r.delayed) = ToSet(u.delayed) \ ToSet(s) /\ ToSet(r.overflowed) = ToSet(u.overflowed) \ ToSet(s)
  BY <1>2, <1>3, <1>4, MakeReadyMembers
<1>6. r.tick = u.tick /\ r.overflows = u.overflows
  BY <1>2, <1>3, <1>4, MakeReadyFields, Zenon
<1>7. IsDelayed(u, t)
  BY <1>1 DEF Ticked, IsDelayed
<1>8. CASE t \notin ToSet(s)
  BY <1>5, <1>7, <1>8 DEF IsDelayed, r
<1>9. CASE t \in ToSet(s)
  <2>1. t \in ToSet(u.delayed) /\ u.wake[t] <= u.tick
    BY <1>3, <1>9
  <2>2. t \in Task
    BY <1>4, <1>9 DEF ToSet
  <2>3. /\ TickMod \in Nat /\ TickMod >= 3 /\ j.tick \in 0..TickMod-1 /\ j.wake[t] \in 0..TickMod-1
    BY <1>2, <2>2, TickModAssumption DEF portTickType, Kernel
  <2>4. CASE next # 0
    <3>1. u.tick = j.tick + 1 /\ u.delayed = j.delayed /\ u.overflows = j.overflows /\ u.wake = j.wake
      BY <1>1, <2>3, <2>4 DEF Ticked, Plus
    <3>2. j.wake[t] > j.tick /\ d[t] = (j.overflows % 2) * TickMod + j.wake[t]
      BY <2>1, <3>1 DEF OnTime
    <3>3. j.wake[t] = u.tick
      BY <2>1, <2>3, <3>1, <3>2
    <3>4. Clock(r) = d[t]
      BY <1>6, <3>1, <3>2, <3>3 DEF Clock
    <3>5. QED
      BY <3>4 DEF r
  <2>5. CASE next = 0
    <3>1. u.tick = 0 /\ u.delayed = j.overflowed /\ u.overflows = o /\ u.wake = j.wake
      BY <1>1, <2>5 DEF Ticked
    <3>2. d[t] = ((j.overflows + 1) % 2) * TickMod + j.wake[t]
      BY <2>1, <3>1 DEF OnTime
    <3>3. j.wake[t] = 0
      BY <2>1, <2>3, <3>1
    <3>4. o % 2 = (j.overflows + 1) % 2
      <4>1. OverflowMod \in Nat /\ OverflowMod % 2 = 0 /\ j.overflows \in 0..OverflowMod-1 /\ j.overflows \in Nat
        BY <1>2, SchedAssumption DEF Kernel
      <4>2. o % 2 = 1 - (j.overflows % 2)
        BY <4>1, Par
      <4>3. (j.overflows + 1) % 2 = 1 - (j.overflows % 2)
        BY <4>1, Mod2
      <4>4. QED
        BY <4>2, <4>3
    <3> HIDE DEF o
    <3>5. Clock(r) = d[t]
      BY <1>6, <3>1, <3>2, <3>3, <3>4 DEF Clock
    <3>6. QED
      BY <3>5 DEF r
  <2>6. QED
    BY <2>4, <2>5
<1>10. QED
  BY <1>8, <1>9

\* One tick more.
LEMMA LateTicked ==
  ASSUME NEW j \in Kernel, NEW r \in Kernel, NEW e \in 0..2*TickMod-1, NEW n \in Nat, n < TickMod,
         Passed(j, r, 1), Late(j, e, n)
  PROVE  Late(r, e, n + 1)
<1>1. TickMod \in Nat /\ Clock(j) \in 0..2*TickMod-1 /\ Clock(r) \in 0..2*TickMod-1
  BY TimeFacts
<1>2. PICK i \in 0..n : Clock(j) = e + i \/ Clock(j) = e + i - 2 * TickMod
  BY DEF Late
<1>3. Clock(r) = Clock(j) + 1 \/ Clock(r) = Clock(j) + 1 - 2 * TickMod
  BY DEF Passed
<1>4. i + 1 \in 0..n+1
  OBVIOUS
<1>5. Clock(r) = e + (i + 1) \/ Clock(r) = e + (i + 1) - 2 * TickMod
  BY <1>1, <1>2, <1>3
<1>6. QED
  BY <1>4, <1>5 DEF Late

\* The ticks that are made up for wake tasks at most so much too late.
LEMMA CaughtUpSlept ==
  ASSUME NEW moved, NEW d \in [Task -> 0..2*TickMod-1], Fit(moved, {}), OnTime(moved, d), moved.susp = 0,
         NEW m \in Nat, m <= TickMod
  PROVE  LET caught[n \in 0..m] == IF n = 0 THEN moved ELSE vTaskIncrementTick(caught[n-1])
             r == caught[m]
         IN Fit(r, {}) /\ Slept(moved, r, d, m)
<1> DEFINE caught[n \in 0..m] == IF n = 0 THEN moved ELSE vTaskIncrementTick(caught[n-1])
           X == {j \in Kernel : Fit(j, {}) /\ OnTime(j, d) /\ j.susp = 0}
<1>1. moved \in X
  BY DEF Fit
<1>2. ASSUME NEW j \in X PROVE vTaskIncrementTick(j) \in X /\ Passed(j, vTaskIncrementTick(j), 1)
  <2> DEFINE r == vTaskIncrementTick(j)
  <2>1. Fit(r, {}) /\ OnTime(r, d) /\ r.susp = 0
    BY IncrementFacts
  <2>2. Passed(j, r, 1)
    BY IncrementWoken
  <2> HIDE DEF r
  <2>3. r \in Kernel
    BY <2>1 DEF Fit
  <2>4. QED
    BY <2>1, <2>2, <2>3 DEF r
<1>3. \A j \in X : Fit(j, {}) /\ OnTime(j, d) /\ j.susp = 0 /\ j \in Kernel
  OBVIOUS
<1> HIDE DEF X
<1>4. /\ caught[0] = moved
      /\ \A n \in 1..m : caught[n] = vTaskIncrementTick(caught[n-1])
      /\ \A n \in 0..m : caught[n] \in X
  BY <1>1, <1>2, CatchUp
<1> HIDE DEF caught
<1> DEFINE P == {n \in 0..m : Slept(moved, caught[n], d, n)}
<1>5. 0 \in P
  <2>1. Slept(moved, moved, d, 0)
    BY DEF Slept
  <2>2. QED
    BY <1>4, <2>1
<1>6. ASSUME NEW n \in 1..m, n - 1 \in P PROVE n \in P
  <2> DEFINE i == n - 1
             y == caught[i]
             z == caught[n]
  <2>1. /\ i \in 0..m /\ i \in Nat /\ i < TickMod /\ i + 1 = n /\ n \in 0..m
    BY TickModAssumption
  <2>2. y \in X /\ z \in X /\ z = vTaskIncrementTick(y) /\ Slept(moved, y, d, i)
    BY <1>4, <1>6, <2>1
  <2> HIDE DEF P, i, y, z
  <2>3. Fit(y, {}) /\ OnTime(y, d) /\ y.susp = 0 /\ y \in Kernel /\ z \in Kernel /\ Passed(y, z, 1)
    BY <1>2, <1>3, <2>2
  <2>4. ASSUME NEW t \in Task, IsDelayed(moved, t) PROVE IsDelayed(z, t) \/ Late(z, d[t], i + 1)
    <3>1. CASE IsDelayed(y, t)
      <4>1. IsDelayed(z, t) \/ Clock(z) = d[t]
        BY <2>2, <2>3, <3>1, IncrementSlept
      <4>2. 0 \in 0..i+1 /\ d[t] \in Int
        BY <2>1
      <4>3. Clock(z) = d[t] => Clock(z) = d[t] + 0
        BY <4>2
      <4>4. QED
        BY <4>1, <4>2, <4>3 DEF Late
    <3>2. CASE ~IsDelayed(y, t)
      <4>1. Late(y, d[t], i)
        BY <2>2, <2>4, <3>2 DEF Slept
      <4>2. QED
        BY <2>1, <2>3, <4>1, LateTicked
    <3>3. QED
      BY <3>1, <3>2
  <2>5. Slept(moved, z, d, n)
    BY <2>1, <2>4 DEF Slept
  <2>6. QED
    BY <2>1, <2>5 DEF P, z
<1> HIDE DEF P
<1>7. m \in P
  <2>1. m \in 0..m
    OBVIOUS
  <2>2. QED
    BY <1>5, <1>6, <2>1, UpTo
<1>8. Fit(caught[m], {})
  BY <1>3, <1>4
<1>9. QED
  BY <1>7, <1>8 DEF P, caught

\* So does xTaskResumeAll.
LEMMA ResumeSlept ==
  ASSUME NEW j, NEW d \in [Task -> 0..2*TickMod-1], Fit(j, {}), OnTime(j, d), j.susp = 1, ToSet(j.pending) = {},
         MaxMissed <= TickMod
  PROVE  Slept(j, xTaskResumeAll(j).k, d, MaxMissed)
<1> DEFINE u == [j EXCEPT !.susp = @ - 1]
           s == j.pending
           moved == MakeReady(u, s)
           m == j.missed
           caught[n \in 0..m] == IF n = 0 THEN moved ELSE vTaskIncrementTick(caught[n-1])
           c == caught[m]
           done == [c EXCEPT !.missed = 0]
           v == [done EXCEPT !.missedYield = FALSE]
           w == vTaskSwitchContext(v)
           r == xTaskResumeAll(j)
<1>1. r.k = IF YieldRequired(j) THEN w ELSE done
  BY DEF xTaskResumeAll
<1>2. /\ j \in Kernel /\ s \in Seq(Task) /\ NoDup(s) /\ m \in Nat /\ m <= MaxMissed /\ m <= TickMod
      /\ MaxMissed \in Nat /\ TickMod \in Nat
  <2>1. j \in Kernel /\ NoDup(s)
    BY DEF Fit, Placed, NoDups
  <2>2. MaxMissed \in Nat /\ TickMod \in Nat
    BY SchedAssumption, TickModAssumption
  <2>3. m \in 0..MaxMissed /\ s \in Seq(Task)
    BY <2>1 DEF Kernel
  <2>4. QED
    BY <2>1, <2>2, <2>3
<1> HIDE DEF r, caught
<1>3. /\ u \in Kernel /\ u.susp = 0
      /\ u.prio = j.prio /\ u.ready = j.ready /\ u.delayed = j.delayed /\ u.overflowed = j.overflowed
      /\ u.pending = j.pending /\ u.suspended = j.suspended /\ u.terminating = j.terminating
      /\ u.deleted = j.deleted /\ u.free = j.free /\ u.wake = j.wake /\ u.tick = j.tick
      /\ u.overflows = j.overflows /\ u.top = j.top
  <2>1. u = [j EXCEPT !.susp = 0]
    BY <1>2 DEF Kernel
  <2> HIDE DEF u
  <2>2. QED
    BY <1>2, <2>1, Zenon DEF Kernel
<1> HIDE DEF u
<1>4. Fit(u, ToSet(s)) /\ OnTime(u, d) /\ ToSet(s) \cap u.free = {} /\ ToSet(s) \cap ToSet(u.terminating) = {}
      /\ Idle \notin ToSet(s)
  BY <1>3 DEF Fit, Placed, NoDups, OnePlace, IsReady, TopCovers, OnTime
<1>5. Fit(moved, {}) /\ OnTime(moved, d)
  BY <1>2, <1>4, MakeReadyFit, Zenon
<1>6. moved.susp = 0 /\ ToSet(moved.delayed) = ToSet(j.delayed) /\ ToSet(moved.overflowed) = ToSet(j.overflowed)
  <2>1. moved.susp = u.susp
    BY <1>2, <1>3, MakeReadyFields, Zenon
  <2>2. /\ ToSet(moved.delayed) = ToSet(u.delayed) \ ToSet(s)
        /\ ToSet(moved.overflowed) = ToSet(u.overflowed) \ ToSet(s)
    BY <1>2, <1>3, MakeReadyMembers, Zenon
  <2>3. QED
    BY <1>3, <2>1, <2>2
<1> HIDE DEF moved
<1>7. Fit(c, {}) /\ Slept(moved, c, d, m)
  <2> HIDE DEF m
  <2>1. QED
    BY <1>2, <1>5, <1>6, CaughtUpSlept DEF caught
<1> HIDE DEF c
<1>8. /\ done \in Kernel /\ done.susp = c.susp
      /\ done.prio = c.prio /\ done.ready = c.ready /\ done.delayed = c.delayed /\ done.overflowed = c.overflowed
      /\ done.pending = c.pending /\ done.suspended = c.suspended /\ done.terminating = c.terminating
      /\ done.deleted = c.deleted /\ done.free = c.free /\ done.wake = c.wake /\ done.tick = c.tick
      /\ done.overflows = c.overflows /\ done.top = c.top
  <2>1. c \in Kernel /\ 0 \in 0..MaxMissed
    BY <1>2, <1>7 DEF Fit
  <2>2. QED
    BY <2>1, Zenon DEF Kernel
<1>9. Fit(done, {})
  <2> HIDE DEF done
  <2>1. QED
    BY <1>7, <1>8 DEF Fit, Placed, NoDups, OnePlace, IsReady, TopCovers
<1>10. /\ v \in Kernel /\ v.susp = done.susp
       /\ v.prio = done.prio /\ v.ready = done.ready /\ v.delayed = done.delayed /\ v.overflowed = done.overflowed
       /\ v.pending = done.pending /\ v.suspended = done.suspended /\ v.terminating = done.terminating
       /\ v.deleted = done.deleted /\ v.free = done.free /\ v.wake = done.wake /\ v.tick = done.tick
       /\ v.overflows = done.overflows /\ v.top = done.top
  <2> HIDE DEF done
  <2>1. QED
    BY <1>8, Zenon DEF Kernel
<1> HIDE DEF done, v
<1>11. Fit(v, {})
  BY SMTT(30), <1>9, <1>10 DEF Fit, Placed, NoDups, OnePlace, IsReady, TopCovers
<1>12. w.delayed = v.delayed /\ w.overflowed = v.overflowed /\ w.tick = v.tick /\ w.overflows = v.overflows
  BY <1>11, SwitchWoken DEF Still
<1> HIDE DEF w
<1>13. /\ r.k.delayed = c.delayed /\ r.k.overflowed = c.overflowed /\ r.k.tick = c.tick /\ r.k.overflows = c.overflows
  BY <1>1, <1>8, <1>10, <1>12
<1>14. ASSUME NEW t \in Task, IsDelayed(j, t) PROVE IsDelayed(r.k, t) \/ Late(r.k, d[t], MaxMissed)
  <2>1. IsDelayed(moved, t)
    BY <1>6, <1>14 DEF IsDelayed
  <2>2. IsDelayed(c, t) \/ Late(c, d[t], m)
    BY <1>7, <2>1 DEF Slept
  <2>3. CASE IsDelayed(c, t)
    BY <1>13, <2>3 DEF IsDelayed
  <2>4. CASE Late(c, d[t], m)
    <3>1. Clock(r.k) = Clock(c) /\ \A i \in 0..m : i \in 0..MaxMissed
      BY <1>2, <1>13 DEF Clock
    <3>2. QED
      BY <2>4, <3>1 DEF Late
  <2>5. QED
    BY <2>2, <2>3, <2>4
<1>15. QED
  BY <1>14 DEF Slept, r

\* The switch makes nobody ready.
LEMMA SwitchSpares ==
  ASSUME NEW j, NEW r, Fit(r, {}), Spares(j, r)
  PROVE  Spares(j, vTaskSwitchContext(r))
BY SwitchWoken DEF Spares

\* A task that blocks makes nobody ready.
LEMMA BlockSpares ==
  ASSUME IInv, NEW t \in Task, NEW f, Calling(t, f), NEW wake \in portTickType,
         k' = DelayTask(vTaskSuspendAll(k), t, wake)
  PROVE  Spares(k, k')
<1> DEFINE u == vTaskSuspendAll(k)
<1>1. /\ Fit(k, {}) /\ k.susp = 0 /\ t # Idle /\ t \notin k.free \cup ToSet(k.terminating)
  BY CallerFacts DEF IInv, Good
<1>2. Fit(u, {}) /\ u.ready = k.ready /\ u.terminating = k.terminating /\ u.free = k.free
  BY <1>1, SuspendAllFacts
<1> HIDE DEF u
<1>3. Blocked(u, DelayTask(u, t, wake), t, wake)
  BY <1>1, <1>2, DelayTaskPlace
<1>4. \A p \in Priority : ToSet(k'.ready[p]) = ToSet(k.ready[p]) \ {t}
  BY <1>2, <1>3 DEF Blocked, u
<1>5. QED
  BY <1>1, <1>4, SparesReady DEF IsReady

\* vTaskSuspendAll makes nobody ready.
LEMMA LockSpares ==
  ASSUME NEW j, Fit(j, {}), j.susp = 0
  PROVE  Spares(j, vTaskSuspendAll(j))
BY SuspendAllFacts, SparesReady DEF IsReady

\* vTaskDelay and vTaskDelayUntil make nobody ready.
LEMMA DelaySpares ==
  ASSUME IInv, NEW t \in Task, NEW n \in Delays, vTaskDelay(t, n) \/ vTaskDelayUntil(t, n)
  PROVE  Spares(k, k')
<1>1. k \in Kernel /\ Fit(k, {}) /\ lastWake \in [Task -> portTickType]
  BY DEF IInv, Good, Fit
<1>2. n \in portTickType /\ k.tick \in portTickType /\ lastWake[t] \in portTickType
  BY <1>1, SchedAssumption DEF Kernel
<1>3. Plus(k.tick, n) \in portTickType /\ Plus(lastWake[t], n) \in portTickType
  BY <1>2, WrappedSum
<1>4. CASE vTaskDelay(t, n)
  <2>1. Calling(t, "vTaskDelay") /\ (k' = k \/ k' = DelayTask(vTaskSuspendAll(k), t, Plus(k.tick, n)))
    BY <1>4 DEF vTaskDelay
  <2>2. Spares(k, k)
    BY <1>1, SparesReady
  <2>3. QED
    BY <1>3, <2>1, <2>2, BlockSpares
<1>5. CASE vTaskDelayUntil(t, n)
  <2>1. /\ Calling(t, "vTaskDelayUntil")
        /\ k' = vTaskSuspendAll(k) \/ k' = DelayTask(vTaskSuspendAll(k), t, Plus(lastWake[t], n))
    BY <1>5 DEF vTaskDelayUntil
  <2>2. k.susp = 0
    BY <2>1, CallerFacts
  <2>3. Spares(k, vTaskSuspendAll(k))
    BY <1>1, <2>2, LockSpares
  <2>4. QED
    BY <1>3, <2>1, <2>3, BlockSpares
<1>6. QED
  BY <1>4, <1>5

\* Nor do vTaskSuspend and vTaskDelete.
LEMMA GoneSpares ==
  ASSUME IInv, NEW t \in Task, NEW x \in Task, vTaskSuspend(t, x) \/ vTaskDelete(t, x)
  PROVE  Spares(k, k')
<1>1. Fit(k, {})
  BY DEF IInv, Good
<1>2. Gone(k, k', x)
  <2>1. CASE vTaskSuspend(t, x)
    <3>1. /\ x # Idle /\ x \notin k.free /\ x \notin ToSet(k.terminating)
          /\ k' = [RemoveEvent(RemoveGeneric(k, {x}), {x}) EXCEPT !.suspended = @ \cup {x}]
      BY <2>1 DEF vTaskSuspend, Alive
    <3>2. QED
      BY <1>1, <3>1, SuspendGone, Zenon
  <2>2. CASE vTaskDelete(t, x)
    <3>1. /\ x # Idle /\ x \notin k.free /\ x \notin ToSet(k.terminating)
          /\ k' = [RemoveEvent(RemoveGeneric(k, {x}), {x})
                      EXCEPT !.terminating = Append(@, x), !.deleted = @ + 1]
      BY <2>2 DEF vTaskDelete, Alive
    <3>2. QED
      BY <1>1, <3>1, DeleteGone, Zenon
  <2>3. QED
    BY <2>1, <2>2
<1>3. QED
  BY <1>1, <1>2, SparesReady DEF Gone, IsReady

\* vTaskResume wakes a suspended task.
LEMMA ResumeSpares ==
  ASSUME IInv, NEW t \in Task, NEW x \in Task, vTaskResume(t, x)
  PROVE  Spares(k, k')
<1> DEFINE r == MakeReady(k, <<x>>)
<1>1. x \in k.suspended /\ (k' = r \/ k' = vTaskSwitchContext(r))
  BY DEF vTaskResume, xTaskIsTaskSuspended
<1>2. Fit(k, {}) /\ Fit(k, {x})
  BY DEF IInv, Good, Fit, Placed
<1>3. x # Idle /\ x \notin k.free \cup ToSet(k.terminating)
  <2>1. OnePlace(k, x) /\ Idle \in ToSet(k.ready[0])
    BY <1>2 DEF Fit, Placed
  <2>2. QED
    BY <1>1, <2>1, PriorityFacts DEF OnePlace, IsReady
<1>4. /\ Fit(r, {})
      /\ \A p \in Priority : ToSet(r.ready[p]) = (ToSet(k.ready[p]) \ {x}) \cup {y \in {x} : k.prio[y] = p}
  BY <1>2, <1>3, ReadyOne
<1> HIDE DEF r
<1>5. Spares(k, r)
  BY <1>1, <1>2, <1>4, SparesReady DEF IsReady
<1>6. QED
  BY <1>1, <1>4, <1>5, SwitchSpares

\* A task that is created or gets another priority can be made ready; nobody
\* else is ready for that.
LEMMA RerankedWakes ==
  ASSUME NEW j, NEW u, NEW x \in Task, Reranked(j, u, x)
  PROVE  LET r == MakeReady(u, <<x>>) IN Fit(r, {}) /\ \A y \in Task : IsReady(r, y) => IsReady(j, y) \/ y = x
<1> DEFINE s == <<x>>
           r == MakeReady(u, s)
<1>1. ToSet(s) = {x}
  BY DEF ToSet
<1>2. Wakeable(u, s) /\ u.ready = j.ready
  BY DEF Reranked
<1> HIDE DEF s
<1>3. /\ Woken(u, r)
      /\ \A p \in Priority : ToSet(r.ready[p]) = (ToSet(u.ready[p]) \ ToSet(s)) \cup {t \in ToSet(s) : u.prio[t] = p}
  BY <1>2, MakeReadyWoken
<1> HIDE DEF r
<1>4. \A y \in Task : IsReady(r, y) => IsReady(j, y) \/ y = x
  BY <1>1, <1>2, <1>3 DEF IsReady
<1>5. QED
  BY <1>3, <1>4 DEF Woken, r, s

\* xTaskCreate wakes a task that did not exist.
LEMMA CreateSpares ==
  ASSUME IInv, NEW t \in Task, NEW x \in Task \ {Idle}, NEW n \in NewPriorities, xTaskCreate(t, x, n)
  PROVE  Spares(k, k')
<1> DEFINE c == Clip(n)
           u == prvInitialiseTCBVariables(prvAllocateTCBAndStack(k, x), x, n)
           f == k.free \ {x}
           a == [k.prio EXCEPT ![x] = c]
           b == [k.base EXCEPT ![x] = c]
           i == [k.item EXCEPT ![x] = c]
<1>1. x \in k.free /\ k' = MakeReady(u, <<x>>)
  BY DEF xTaskCreate
<1>2. k \in Kernel /\ Fit(k, {})
  BY DEF IInv, Good, Fit
<1>3. c \in Priority
  <2>1. n \in Nat
    BY SchedAssumption
  <2>2. QED
    BY <2>1, ClipFacts
<1>4. /\ f \in SUBSET Task /\ a \in [Task -> Priority] /\ b \in [Task -> Priority] /\ i \in [Task -> Priority]
      /\ \A y \in Task \ {x} : a[y] = k.prio[y]
  BY <1>2, <1>3, Zenon DEF Kernel
<1>5. u = With(k, f, a, b, i)
  BY <1>2 DEF prvInitialiseTCBVariables, prvAllocateTCBAndStack, Kernel, With
<1>6. x \notin ToSet(k.terminating)
  <2>1. OnePlace(k, x)
    BY <1>2 DEF Fit, Placed
  <2>2. QED
    BY <1>1, <2>1 DEF OnePlace
<1> HIDE DEF c, u
<1>7. f = k.free \ {x}
  OBVIOUS
<1> HIDE DEF f, a, b, i
<1>8. Reranked(k, u, x)
  BY <1>2, <1>4, <1>5, <1>6, <1>7, WithReranked
<1>9. \A y \in Task : IsReady(k', y) => IsReady(k, y) \/ y = x
  BY <1>1, <1>8, RerankedWakes
<1>10. QED
  BY <1>1, <1>2, <1>9, SparesReady

\* vTaskPrioritySet moves a task from one ready list to another, or none.
LEMMA PrioritySetSpares ==
  ASSUME IInv, NEW t \in Task, NEW x \in Task \ {Idle}, NEW n \in NewPriorities, vTaskPrioritySet(t, x, n)
  PROVE  Spares(k, k')
<1> DEFINE new == Clip(n)
           old == k.base[x]
           set == [k EXCEPT !.prio[x] = IF @ = old THEN new ELSE @, !.base[x] = new, !.item[x] = new]
           j == IF x \in ToSet(k.ready[old]) THEN MakeReady(set, <<x>>) ELSE set
           now == IF k.prio[x] = old THEN new ELSE k.prio[x]
           f == k.free
           a == [k.prio EXCEPT ![x] = now]
           b == [k.base EXCEPT ![x] = new]
           i == [k.item EXCEPT ![x] = new]
<1>1. /\ x \notin k.free /\ x \notin ToSet(k.terminating)
      /\ k' = j \/ k' = vTaskSwitchContext(j)
  BY DEF vTaskPrioritySet, Alive
<1>2. k \in Kernel /\ Fit(k, {})
  BY DEF IInv, Good, Fit
<1>3. new \in Priority /\ old \in Priority /\ k.prio[x] \in Priority
  <2>1. n \in Nat
    BY SchedAssumption
  <2>2. QED
    BY <1>2, <2>1, ClipFacts DEF Kernel
<1>4. set = With(k, f, a, b, i)
  BY <1>2, Zenon DEF Kernel, With
<1>5. /\ f \in SUBSET Task /\ f = k.free \ {x}
      /\ a \in [Task -> Priority] /\ b \in [Task -> Priority] /\ i \in [Task -> Priority]
      /\ \A y \in Task \ {x} : a[y] = k.prio[y]
      /\ a[x] = now
  <2>1. f \in SUBSET Task /\ k.prio \in [Task -> Priority] /\ k.base \in [Task -> Priority] /\ k.item \in [Task -> Priority]
    BY <1>2, Zenon DEF Kernel
  <2>2. now \in Priority
    BY <1>3
  <2> HIDE DEF now, new
  <2>3. QED
    BY <1>1, <1>3, <2>1, <2>2
<1>6. x \notin ToSet(k.ready[old]) => ~IsReady(k, x) \/ now = k.prio[x]
  <2>1. \A p \in Priority : x \in ToSet(k.ready[p]) => k.prio[x] = p
    BY <1>2 DEF Fit, Placed
  <2>2. QED
    BY <2>1 DEF IsReady
<1> HIDE DEF new, now, old, set, f, a, b, i
<1>7. Reranked(k, set, x)
  BY <1>1, <1>2, <1>4, <1>5, WithReranked
<1>8. set.prio = a /\ set.free = k.free /\ set.ready = k.ready
  BY <1>2, <1>4, <1>5, WithFields DEF f
<1>9. Fit(j, {}) /\ \A y \in Task : IsReady(j, y) => IsReady(k, y)
  <2>1. CASE x \in ToSet(k.ready[old])
    <3>1. j = MakeReady(set, <<x>>) /\ IsReady(k, x)
      BY <1>3, <2>1 DEF IsReady
    <3>2. QED
      BY <1>7, <3>1, RerankedWakes
  <2>2. CASE x \notin ToSet(k.ready[old])
    <3>1. Fit(set, {})
      BY <1>5, <1>6, <1>7, <1>8, <2>2 DEF Reranked
    <3>2. j = set
      BY <2>2
    <3>3. QED
      BY <1>8, <3>1, <3>2 DEF IsReady
  <2>3. QED
    BY <2>1, <2>2
<1> HIDE DEF j
<1>10. Spares(k, j)
  BY <1>2, <1>9, SparesReady
<1>11. QED
  BY <1>1, <1>9, <1>10, SwitchSpares

\* The idle task makes nobody ready when it frees a task.
LEMMA FreeSpares ==
  ASSUME IInv, k' = [prvDeleteTCB(k, Head(k.terminating)) EXCEPT !.terminating = Tail(@), !.deleted = @ - 1]
  PROVE  Spares(k, k')
<1>1. k \in Kernel /\ Fit(k, {})
  BY DEF IInv, Good, Fit
<1>2. k'.ready = k.ready
  BY <1>1 DEF prvDeleteTCB, Kernel
<1>3. QED
  BY <1>1, <1>2, SparesReady, Zenon DEF IsReady

\* The tick interrupt, which may only count the tick.
LEMMA TickSlept == ASSUME IInv, Tick PROVE Slept(k, k', due, MaxMissed)
<1> DEFINE r == vTaskIncrementTick(k)
           w == vTaskSwitchContext(r)
<1>1. /\ k \in Kernel /\ Fit(k, {}) /\ OnTime(k, due) /\ k.susp \in {0, 1} /\ due \in [Task -> 0..2*TickMod-1]
  BY Zenon DEF IInv, Good, Fit, Kernel
<1>2. k' = w
  BY DEF Tick
<1>3. CASE k.susp = 0
  <2>1. Fit(r, {})
    BY <1>1, <1>3, IncrementFacts, Zenon
  <2>2. \A t \in Task : IsDelayed(k, t) => IsDelayed(r, t) \/ Clock(r) = due[t]
    BY <1>1, <1>3, IncrementSlept
  <2> HIDE DEF r
  <2>3. w.delayed = r.delayed /\ w.overflowed = r.overflowed /\ w.tick = r.tick /\ w.overflows = r.overflows
    BY <2>1, SwitchWoken DEF Still
  <2> HIDE DEF w
  <2>4. Clock(w) = Clock(r) /\ \A t \in Task : IsDelayed(r, t) => IsDelayed(w, t)
    BY <2>3 DEF Clock, IsDelayed
  <2>5. ASSUME NEW t \in Task, Clock(w) = due[t] PROVE Late(w, due[t], MaxMissed)
    <3>1. due[t] \in Int /\ 0 \in 0..MaxMissed /\ due[t] = due[t] + 0
      BY <1>1, SchedAssumption
    <3>2. QED
      BY <2>5, <3>1 DEF Late
  <2>6. QED
    BY <1>2, <2>2, <2>4, <2>5 DEF Slept
<1>4. CASE k.susp = 1
  <2>1. r = [k EXCEPT !.missed = k.missed + 1]
    BY <1>1, <1>4 DEF vTaskIncrementTick
  <2>2. r.susp = 1 /\ r.delayed = k.delayed /\ r.overflowed = k.overflowed
    BY <1>1, <1>4, <2>1 DEF Kernel
  <2> HIDE DEF r
  <2>3. w = [r EXCEPT !.missedYield = TRUE]
    BY <2>2 DEF vTaskSwitchContext
  <2>4. w.delayed = k.delayed /\ w.overflowed = k.overflowed
    BY <1>1, <2>1, <2>2, <2>3, Zenon DEF Kernel
  <2>5. QED
    BY <1>2, <2>4 DEF Slept, IsDelayed
<1>5. QED
  BY <1>1, <1>3, <1>4

\* xTaskResumeAll(), wherever it is called.
LEMMA ResumeAllSlept ==
  ASSUME IInv, MaxMissed <= TickMod, NEW t \in Task, NEW from \in Locking, NEW ifYielded, NEW otherwise,
         ResumeAll(t, from, ifYielded, otherwise)
  PROVE  Slept(k, k', due, MaxMissed)
<1>1. /\ Fit(k, {}) /\ OnTime(k, due) /\ due \in [Task -> 0..2*TickMod-1] /\ ToSet(k.pending) = {}
      /\ k.susp = 1 <=> pc[k.current] \in Locking
  BY DEF IInv, Good
<1>2. k.susp = 1 /\ k' = xTaskResumeAll(k).k
  BY <1>1 DEF ResumeAll, Runs
<1>3. QED
  BY <1>1, <1>2, ResumeSlept

\* No step wakes a task too early, nor later than it makes up for.
LEMMA NextSpares ==
  ASSUME IInv, MaxMissed <= TickMod, [Next]_vars
  PROVE  Spares(k, k') \/ Slept(k, k', due, MaxMissed)
<1>1. /\ Fit(k, {}) /\ k.susp \in {0, 1}
      /\ k.susp = 1 <=> pc[k.current] \in Locking
  BY Zenon DEF IInv, Good, Fit, Kernel
<1>2. Spares(k, k) /\ Spares(k, vTaskSwitchContext(k))
  BY <1>1, SparesReady, SwitchSpares
<1>3. ASSUME NEW t \in Task, Runs(t, "app"), k' = vTaskSuspendAll(k) PROVE Spares(k, k')
  <2>1. pc[k.current] \notin Locking
    BY <1>3 DEF Runs, Locking
  <2>2. QED
    BY <1>1, <1>3, <2>1, LockSpares
<1>4. "locked" \in Locking /\ "resume" \in Locking /\ "reap" \in Locking
  BY DEF Locking
<1>5. ASSUME NEW t \in Task, Call(t) PROVE Spares(k, k')
  <2>1. ASSUME SuspendScheduler(t) PROVE Spares(k, k')
    BY <1>3, <2>1 DEF SuspendScheduler, Calling
  <2>2. QED
    BY <1>5, <2>1, DelaySpares, GoneSpares, ResumeSpares, PrioritySetSpares, CreateSpares DEF Call
<1>6. ASSUME NEW t \in Task, Continue(t) PROVE Spares(k, k') \/ Slept(k, k', due, MaxMissed)
  <2>1. ASSUME taskYIELD(t, "yield", "app") PROVE Spares(k, k')
    BY <1>2, <2>1 DEF taskYIELD
  <2>2. QED
    BY <1>4, <1>6, <2>1, ResumeAllSlept DEF Continue
<1>7. ASSUME prvIdleTask PROVE Spares(k, k') \/ Slept(k, k', due, MaxMissed)
  <2>1. ASSUME prvCheckTasksWaitingTermination PROVE Spares(k, k') \/ Slept(k, k', due, MaxMissed)
    <3>1. ASSUME Runs(Idle, "app"), k' = vTaskSuspendAll(k) PROVE Spares(k, k')
      BY <1>3, <3>1, IdleIsTask
    <3>2. ASSUME NEW next, ResumeAll(Idle, "reap", next, next) PROVE Slept(k, k', due, MaxMissed)
      BY <1>4, <3>2, IdleIsTask, ResumeAllSlept
    <3>3. QED
      BY <2>1, <3>1, <3>2, FreeSpares DEF prvCheckTasksWaitingTermination
  <2>2. QED
    BY <1>2, <1>7, <2>1 DEF prvIdleTask
<1>8. CASE UNCHANGED vars
  BY <1>2, <1>8 DEF vars
<1>9. QED
  BY <1>5, <1>6, <1>7, <1>8, TickSlept DEF Next

\* How late that is.
LEMMA LateBound ==
  ASSUME NEW r \in Kernel, NEW e \in 0..2*TickMod-1, NEW n \in Nat, n <= TickMod, Late(r, e, n)
  PROVE  (Clock(r) + 2 * TickMod - e) % (2 * TickMod) <= TickMod
<1> DEFINE m == 2 * TickMod
           a == Clock(r) + m - e
<1>1. m \in Nat /\ m > 0 /\ TickMod \in Nat /\ TickMod < m
  BY TickModAssumption
<1>2. PICK i \in 0..n : Clock(r) = e + i \/ Clock(r) = e + i - m
  BY DEF Late
<1>3. e \in Int /\ i \in Nat /\ i <= TickMod /\ i < m
  BY <1>1
<1> HIDE DEF m
<1>4. a = m + i \/ a = i
  BY <1>1, <1>2, <1>3
<1> HIDE DEF a
<1>5. CASE a = i
  BY <1>1, <1>3, <1>5, ModSmall DEF a, m
<1>6. CASE a = m + i
  <2>1. a \in Nat /\ m <= a /\ a < 2 * m /\ a - m = i
    BY <1>1, <1>3, <1>6
  <2>2. a % m = a - m
    BY <1>1, <2>1, ModOnce
  <2>3. QED
    BY <1>3, <2>1, <2>2 DEF a, m
<1>7. QED
  BY <1>4, <1>5, <1>6

\* No task that asked to be woken at a time becomes ready before it, if no
\* suspension of the scheduler lasts longer than one round of the tick count.
THEOREM WakesNotEarly == ASSUME WithinRound PROVE Spec => NeverEarly
<1> DEFINE Step == \A t \in Task : Delayed(t) /\ Ready(t)' => (Clock(k') + 2 * TickMod - due[t]) % (2 * TickMod) <= TickMod
<1>1. ASSUME IInv, [Next]_vars PROVE Step
  <2>1. Fit(k', {}) /\ k' \in Kernel /\ due \in [Task -> 0..2*TickMod-1]
    <3>1. IInv'
      BY <1>1, NextKeeps
    <3>2. Fit(k', {})
      BY <3>1 DEF IInv, Good
    <3>3. QED
      BY <1>1, <3>2 DEF IInv, Good, Fit
  <2>2. SUFFICES ASSUME NEW t \in Task, IsDelayed(k, t), IsReady(k', t)
                 PROVE  (Clock(k') + 2 * TickMod - due[t]) % (2 * TickMod) <= TickMod
    BY DEF Delayed, Ready, IsReady
  <2>3. ~Spares(k, k')
    BY <2>2 DEF Spares
  <2>4. Slept(k, k', due, MaxMissed)
    BY <1>1, <2>3, NextSpares DEF WithinRound
  <2>5. ~IsDelayed(k', t)
    <3>1. OnePlace(k', t)
      BY <2>1 DEF Fit, Placed
    <3>2. QED
      BY <2>2, <3>1 DEF OnePlace, IsDelayed
  <2>6. Late(k', due[t], MaxMissed)
    BY <2>2, <2>4, <2>5 DEF Slept
  <2>7. MaxMissed \in Nat /\ due[t] \in 0..2*TickMod-1
    BY <2>1, SchedAssumption
  <2>8. QED
    BY <2>1, <2>6, <2>7, LateBound DEF WithinRound
<1>2. IInv /\ [Next]_vars => [Step]_vars
  BY <1>1
<1>3. QED
  BY <1>2, Invariance, PTL DEF Spec, NeverEarly
=============================================================================
