--------------------------- MODULE RtosQueueProofs --------------------------
(***************************************************************************)
(* The queue and the mutex, for all tasks, priorities, block times, lengths*)
(* and calls, and the ring of a queue.  QInv extends the invariant of the  *)
(* scheduler by event lists, pending tasks, calls and their block times;   *)
(* Right, Sorted and Supplied add who runs, the order of the event lists   *)
(* and the wakeups; MInv and Lends add the mutex.                          *)
(***************************************************************************)
EXTENDS RtosMutex, QueueRing, TaskSchedProofs, SequenceTheorems, SequencesExt

-----------------------------------------------------------------------------
(* The functions that wake a task that waits for an event.                 *)

\* Task t has left its event list, is ready or pending, and the same task runs.
WokenOne(j, r, t) ==
    /\ Woken(j, r) /\ Still(j, r) /\ Apart(r) /\ r.current = j.current
    /\ \A l \in EventList : ToSet(r.event[l]) = ToSet(j.event[l]) \ {t}
    /\ j.susp = 0 => IsReady(r, t)
    /\ \A p \in Priority : ToSet(r.ready[p]) = ToSet(j.ready[p]) \cup {x \in {t} : j.susp = 0 /\ j.prio[t] = p}

\* The head of a list is a member.
LEMMA HeadFacts ==
  ASSUME NEW T, NEW s \in Seq(T), ToSet(s) # {}
  PROVE  /\ Head(s) \in T /\ Head(s) \in ToSet(s) /\ Len(s) # 0
         /\ \A R : Ordered(s, R) => \A x \in ToSet(s) \ {Head(s)} : <<Head(s), x>> \in R
<1>1. Len(s) \in Nat /\ Len(s) # 0 /\ DOMAIN s = 1..Len(s)
  <2>1. Len(s) # 0
    BY NoLength
  <2>2. QED
    BY <2>1
<1>2. Head(s) = s[1] /\ 1 \in DOMAIN s
  BY <1>1
<1>3. ASSUME NEW R, Ordered(s, R), NEW x \in ToSet(s) \ {Head(s)} PROVE <<Head(s), x>> \in R
  <2>1. PICK i \in DOMAIN s : s[i] = x
    BY <1>3 DEF ToSet
  <2>2. 1 < i
    BY <1>1, <1>2, <1>3, <2>1
  <2>3. QED
    BY <1>2, <1>3, <2>1, <2>2 DEF Ordered
<1>4. QED
  BY <1>1, <1>2, <1>3 DEF ToSet

\* A task that waits for an event or is pending can be made ready.
LEMMA AwaitingWakeable ==
  ASSUME NEW j, Fit(j, {}), Apart(j), NEW t, Awaits(j, t) \/ t \in ToSet(j.pending)
  PROVE  Wakeable(j, <<t>>) /\ ToSet(<<t>>) = {t} /\ t \in Task /\ j.prio[t] \in Priority
<1>1. t \in Task /\ t # Idle /\ t \notin j.free \cup ToSet(j.terminating)
  BY AwaitingFacts
<1>2. <<t>> \in Seq(Task) /\ ToSet(<<t>>) = {t} /\ NoDup(<<t>>)
  BY <1>1, OneFacts
<1>3. Fit(j, {t}) /\ j.prio[t] \in Priority
  BY <1>1, Zenon DEF Fit, Placed, Kernel
<1>4. QED
  BY <1>1, <1>2, <1>3 DEF Wakeable

\* The first task of an event list becomes ready.
LEMMA WakeNow ==
  ASSUME NEW j, Fit(j, {}), Apart(j), j.susp = 0, NEW t, Awaits(j, t)
  PROVE  WokenOne(j, MakeReady(j, <<t>>), t)
<1> DEFINE s == <<t>>
           r == MakeReady(j, s)
<1>1. Wakeable(j, s) /\ ToSet(s) = {t} /\ t \in Task /\ j.prio[t] \in Priority
  BY AwaitingWakeable
<1> HIDE DEF s
<1>2. /\ Woken(j, r) /\ Still(j, r) /\ r.current = j.current
      /\ ToSet(r.pending) = ToSet(j.pending) \ ToSet(s)
      /\ \A l \in EventList : ToSet(r.event[l]) = ToSet(j.event[l]) \ ToSet(s)
      /\ \A p \in Priority : ToSet(r.ready[p]) = (ToSet(j.ready[p]) \ ToSet(s)) \cup {x \in ToSet(s) : j.prio[x] = p}
  BY <1>1, MakeReadyWoken
<1> HIDE DEF r
<1>3. ToSet(r.pending) = {} /\ r.susp = 0
  BY <1>2 DEF Apart, Still
<1>4. Apart(r)
  BY <1>2, <1>3, ApartOnward DEF Woken
<1>5. ~IsReady(j, t)
  BY AwaitingFacts
<1>6. \A p \in Priority : ToSet(r.ready[p]) = ToSet(j.ready[p]) \cup {x \in {t} : j.susp = 0 /\ j.prio[t] = p}
  BY <1>1, <1>2, <1>5 DEF IsReady
<1>7. IsReady(r, t)
  BY <1>1, <1>6 DEF IsReady
<1>8. QED
  BY <1>1, <1>2, <1>4, <1>6, <1>7 DEF WokenOne, r, s

\* It becomes pending while the scheduler is suspended.
LEMMA WakeLater ==
  ASSUME NEW j, Fit(j, {}), Apart(j), j.susp = 1, NEW t, Awaits(j, t)
  PROVE  WokenOne(j, [RemoveEvent(j, {t}) EXCEPT !.pending = Append(@, t)], t)
<1> DEFINE u == RemoveEvent(j, {t})
           r == [u EXCEPT !.pending = Append(@, t)]
<1>1. j \in Kernel /\ Placed(j, {}) /\ t \in Task /\ (IsDelayed(j, t) \/ t \in j.suspended)
  BY AwaitingFacts DEF Fit
<1>2. /\ u \in Kernel
      /\ u.pending = Without(j.pending, {t})
      /\ u.event = [l \in EventList |-> Without(j.event[l], {t})]
      /\ u.current = j.current /\ u.prio = j.prio /\ u.base = j.base /\ u.item = j.item
      /\ u.ready = j.ready /\ u.delayed = j.delayed /\ u.overflowed = j.overflowed
      /\ u.suspended = j.suspended /\ u.terminating = j.terminating
      /\ u.deleted = j.deleted /\ u.free = j.free /\ u.wake = j.wake
      /\ u.tick = j.tick /\ u.overflows = j.overflows /\ u.missed = j.missed
      /\ u.missedYield = j.missedYield /\ u.susp = j.susp /\ u.top = j.top
  BY <1>1, RemoveEventFields, Zenon
<1> HIDE DEF u
<1>3. /\ u.pending \in Seq(Task) /\ ToSet(u.pending) = ToSet(j.pending) \ {t} /\ NoDup(u.pending)
  <2>1. j.pending \in Seq(Task) /\ NoDup(j.pending)
    BY <1>1 DEF Kernel, Placed, NoDups
  <2>2. QED
    BY <1>2, <2>1, WithoutFacts
<1>4. /\ Append(u.pending, t) \in Seq(Task) /\ NoDup(Append(u.pending, t))
      /\ ToSet(Append(u.pending, t)) = ToSet(j.pending) \cup {t}
  <2>1. t \notin ToSet(u.pending)
    BY <1>3
  <2>2. /\ Append(u.pending, t) \in Seq(Task)
        /\ ToSet(Append(u.pending, t)) = ToSet(u.pending) \cup {t}
        /\ NoDup(u.pending) /\ t \notin ToSet(u.pending) => NoDup(Append(u.pending, t))
    BY <1>1, <1>3, AppendFacts
  <2>3. QED
    BY <1>3, <2>1, <2>2
<1>5. /\ r \in Kernel /\ r.pending = Append(u.pending, t) /\ r.event = u.event
      /\ r.current = j.current /\ r.prio = j.prio /\ r.base = j.base /\ r.item = j.item
      /\ r.ready = j.ready /\ r.delayed = j.delayed /\ r.overflowed = j.overflowed
      /\ r.suspended = j.suspended /\ r.terminating = j.terminating
      /\ r.deleted = j.deleted /\ r.free = j.free /\ r.wake = j.wake
      /\ r.tick = j.tick /\ r.overflows = j.overflows /\ r.missed = j.missed /\ r.susp = j.susp /\ r.top = j.top
  <2> DEFINE s == Append(u.pending, t)
  <2>1. s \in Seq(Task) /\ r = [u EXCEPT !.pending = s]
    BY <1>4
  <2> HIDE DEF s, r
  <2>2. /\ r \in Kernel /\ r.pending = s /\ r.event = u.event
        /\ r.current = u.current /\ r.prio = u.prio /\ r.base = u.base /\ r.item = u.item
        /\ r.ready = u.ready /\ r.delayed = u.delayed /\ r.overflowed = u.overflowed
        /\ r.suspended = u.suspended /\ r.terminating = u.terminating
        /\ r.deleted = u.deleted /\ r.free = u.free /\ r.wake = u.wake
        /\ r.tick = u.tick /\ r.overflows = u.overflows /\ r.missed = u.missed /\ r.susp = u.susp /\ r.top = u.top
    BY ZenonT(60), <1>2, <2>1 DEF Kernel
  <2>3. QED
    BY <1>2, <2>2, Zenon DEF s
<1> HIDE DEF r
<1>6. Fit(r, {})
  <2>1. Placed(r, {})
    BY <1>1, <1>4, <1>5 DEF Placed, NoDups, OnePlace, IsReady
  <2>2. QED
    BY <1>5, <2>1 DEF Fit, TopCovers
<1>7. ASSUME NEW l \in EventList
      PROVE  /\ ToSet(r.event[l]) = ToSet(j.event[l]) \ {t}
             /\ NoDup(j.event[l]) => NoDup(r.event[l])
             /\ \A R : Ordered(j.event[l], R) => Ordered(r.event[l], R)
  <2>1. r.event[l] = Without(j.event[l], {t}) /\ j.event[l] \in Seq(Task)
    BY <1>1, <1>2, <1>5 DEF Kernel
  <2>2. QED
    BY <2>1, WithoutFacts
<1>8. ToSet(r.pending) = ToSet(j.pending) \cup {t} /\ ~Awaits(r, t)
  BY <1>4, <1>5, <1>7, Zenon DEF Awaits
<1>9. \A x : (IsDelayed(r, x) <=> IsDelayed(j, x)) /\ (x \in r.suspended <=> x \in j.suspended)
  BY <1>5 DEF IsDelayed
<1>10. Onward(j, r)
  BY <1>7, <1>8, <1>9 DEF Onward
<1>11. Apart(r)
  <2>1. r.susp = 0 => ToSet(r.pending) = {}
    BY <1>5
  <2>2. QED
    BY <1>10, <2>1, ApartOnward
<1>12. \A p \in Priority : ToSet(r.ready[p]) = ToSet(j.ready[p]) \cup {x \in {t} : j.susp = 0 /\ j.prio[t] = p}
  BY <1>5
<1>13. Woken(j, r) /\ Still(j, r)
  BY <1>5, <1>6, <1>10 DEF Woken, Still, IsReady
<1>14. WokenOne(j, r, t)
  BY <1>5, <1>7, <1>11, <1>12, <1>13, <1>8 DEF WokenOne
<1>15. QED
  BY <1>14 DEF u, r

\* xTaskRemoveFromEventList wakes the first task of a list.
LEMMA WakeHead ==
  ASSUME NEW j, Fit(j, {}), Apart(j), NEW l \in EventList, ToSet(j.event[l]) # {}
  PROVE  WokenOne(j, xTaskRemoveFromEventList(j, l), Head(j.event[l]))
<1> DEFINE t == Head(j.event[l])
<1>1. j.event[l] \in Seq(Task) /\ j.susp \in {0, 1}
  BY DEF Fit, Kernel
<1>2. Awaits(j, t)
  BY <1>1, HeadFacts DEF Awaits
<1> HIDE DEF t
<1>3. CASE j.susp = 0
  BY <1>2, <1>3, WakeNow DEF xTaskRemoveFromEventList, t
<1>4. CASE j.susp = 1
  BY <1>2, <1>4, WakeLater DEF xTaskRemoveFromEventList, t
<1>5. QED
  BY <1>1, <1>3, <1>4

\* A waiting task of l, if there is one, has been woken, and runs if it should.
Served(j, r, l) ==
    /\ Woken(j, r) /\ Still(j, r) /\ Apart(r) /\ Picks(j, r)
    /\ IF ToSet(j.event[l]) = {} THEN r = j
       ELSE LET t == Head(j.event[l])
            IN /\ \A x \in EventList : ToSet(r.event[x]) = ToSet(j.event[x]) \ {t}
               /\ j.susp = 0 => IsReady(r, t) /\ (Chosen(r) \/ j.prio[t] < j.prio[j.current])
               /\ j.susp = 1 => r.current = j.current

\* A task woken while the scheduler is suspended, or one of a lower priority than
\* the running one, does not change the choice.
LEMMA WokenOneChosen ==
  ASSUME NEW j, NEW r, NEW t \in Task, j \in Kernel, WokenOne(j, r, t),
         j.susp = 1 \/ j.prio[t] < j.prio[j.current], Chosen(j)
  PROVE  Chosen(r)
<1>1. r.current = j.current /\ r.prio = j.prio /\ r \in Kernel
  BY DEF WokenOne, Woken, Fit
<1>2. j.prio[j.current] \in Priority /\ j.prio[t] \in Priority /\ j.susp \in {0, 1}
  BY DEF Kernel
<1>3. \A p \in Priority : ToSet(r.ready[p]) = ToSet(j.ready[p]) \cup {x \in {t} : j.susp = 0 /\ j.prio[t] = p}
  BY DEF WokenOne
<1>4. \A p \in Priority : p > j.prio[j.current] => ToSet(r.ready[p]) \subseteq ToSet(j.ready[p])
  BY <1>2, <1>3, PriorityFacts
<1>5. j.current \in ToSet(r.ready[r.prio[r.current]])
  BY <1>1, <1>2, <1>3, Zenon DEF Chosen
<1>6. r.prio[r.current] >= j.prio[j.current]
  BY <1>1, <1>2, PriorityFacts
<1>7. QED
  BY <1>1, <1>4, <1>5, <1>6, ChosenKept

\* After a transfer a waiting task is woken, and runs if its priority is not
\* lower than that of the running task.
LEMMA WakeAndYieldServes ==
  ASSUME NEW j, Fit(j, {}), Apart(j), NEW l \in EventList
  PROVE  Served(j, WakeAndYield(j, l), l)
<1> DEFINE r == WakeAndYield(j, l)
           t == Head(j.event[l])
           u == xTaskRemoveFromEventList(j, l)
<1>1. j \in Kernel /\ j.event[l] \in Seq(Task) /\ j.susp \in {0, 1} /\ j.prio \in [Task -> Priority] /\ j.current \in Task
  BY DEF Fit, Kernel
<1>2. CASE ToSet(j.event[l]) = {}
  <2>1. r = j
    BY <1>1, <1>2, NotEmpty DEF WakeAndYield
  <2>2. Woken(j, j)
    <3>1. Onward(j, j)
      BY OnwardSame
    <3>2. QED
      BY <3>1 DEF Woken
  <2>3. Still(j, j) /\ Picks(j, j)
    BY DEF Still, Picks
  <2> HIDE DEF r
  <2>4. Served(j, r, l)
    BY <1>2, <2>1, <2>2, <2>3 DEF Served
  <2>5. QED
    BY <2>4 DEF r
<1>3. CASE ToSet(j.event[l]) # {}
  <2>1. j.event[l] # <<>> /\ t \in Task
    BY <1>1, <1>3, NotEmpty, HeadFacts
  <2>2. r = IF Preempts(j, l) THEN vTaskSwitchContext(u) ELSE u
    BY <2>1 DEF WakeAndYield
  <2>3. WokenOne(j, u, t)
    BY <1>3, WakeHead
  <2>4. j.prio[t] \in Priority /\ j.prio[j.current] \in Priority /\ Priority \subseteq Nat
    BY <1>1, <2>1, PriorityFacts
  <2> HIDE DEF r, u
  <2>5. CASE Preempts(j, l)
    <3>1. r = vTaskSwitchContext(u)
      BY <2>2, <2>5
    <3>2. Fit(u, {}) /\ Woken(j, u) /\ Still(j, u) /\ Apart(u) /\ u.current = j.current
      BY <2>3 DEF WokenOne, Woken
    <3>3. /\ Woken(u, r) /\ Still(u, r) /\ r.event = u.event /\ r.pending = u.pending /\ r.suspended = u.suspended
          /\ r.delayed = u.delayed /\ r.overflowed = u.overflowed
          /\ \A x : IsReady(r, x) <=> IsReady(u, x)
          /\ IF u.susp = 0 THEN Chosen(r) ELSE r.current = u.current /\ r.ready = u.ready
      BY <3>1, <3>2, SwitchWoken
    <3>4. Woken(j, r) /\ Still(j, r)
      BY <3>2, <3>3, WokenWoken DEF Still
    <3>5. Apart(r)
      BY <3>2, <3>3, ApartOnward DEF Woken, Apart, Still
    <3>6. j.susp = 0 => Chosen(r) /\ IsReady(r, t)
      BY <2>3, <3>2, <3>3 DEF WokenOne, Still
    <3>7. ASSUME j.susp = 1 PROVE r.current = j.current /\ (Chosen(j) => Chosen(r))
      <4>1. r.current = u.current /\ r.ready = u.ready /\ r.prio = u.prio
        BY <3>2, <3>3, <3>7 DEF Still, Woken
      <4>2. Chosen(j) => Chosen(u)
        BY <1>1, <2>1, <2>3, <3>7, WokenOneChosen
      <4>3. QED
        BY <3>2, <4>1, <4>2 DEF Chosen
    <3>8. Picks(j, r)
      BY <1>1, <3>6, <3>7 DEF Picks
    <3>9. \A x \in EventList : ToSet(r.event[x]) = ToSet(j.event[x]) \ {t}
      BY <2>3, <3>3 DEF WokenOne
    <3>10. Served(j, r, l)
      BY <1>3, <3>4, <3>5, <3>6, <3>7, <3>8, <3>9 DEF Served, t
    <3>11. QED
      BY <3>10 DEF r
  <2>6. CASE ~Preempts(j, l)
    <3>1. r = u /\ j.prio[t] < j.prio[j.current]
      <4>1. r = u
        BY <2>2, <2>6, Zenon
      <4>2. ~(j.prio[t] >= j.prio[j.current])
        BY <2>6, Zenon DEF Preempts
      <4> HIDE DEF t
      <4>3. QED
        <5>1. \A a, b \in Nat : ~(a >= b) => a < b
          OBVIOUS
        <5>2. QED
          BY <2>4, <4>1, <4>2, <5>1, Zenon
    <3>2. /\ Woken(j, r) /\ Still(j, r) /\ Apart(r) /\ r.current = j.current
          /\ \A x \in EventList : ToSet(r.event[x]) = ToSet(j.event[x]) \ {t}
          /\ j.susp = 0 => IsReady(r, t)
      BY <2>3, <3>1 DEF WokenOne
    <3>3. Chosen(j) => Chosen(r)
      BY <1>1, <2>1, <2>3, <3>1, WokenOneChosen
    <3>4. Picks(j, r)
      BY <3>2, <3>3 DEF Picks
    <3>5. Served(j, r, l)
      BY <1>3, <3>1, <3>2, <3>4 DEF Served, t
    <3>6. QED
      BY <3>5 DEF r
  <2>7. QED
    BY <2>5, <2>6
<1>4. QED
  BY <1>2, <1>3

\* The tasks of W have been woken while the scheduler is suspended.
Released(j, r, W) ==
    /\ Woken(j, r) /\ Still(j, r) /\ Apart(r) /\ r.current = j.current /\ (Chosen(j) => Chosen(r))
    /\ \A x \in EventList : ToSet(r.event[x]) = ToSet(j.event[x]) \ W

\* With no task pending there is nothing to release.
LEMMA ReleasedNone == ASSUME NEW j, Fit(j, {}), Apart(j) PROVE Released(j, j, {})
<1>1. Onward(j, j)
  BY OnwardSame
<1>2. QED
  BY <1>1 DEF Released, Woken, Still

\* One task more, which asks for a yield if its priority is high enough.
LEMMA ReleasedOne ==
  ASSUME NEW j, NEW u, NEW W, Released(j, u, W), j.susp = 1, NEW l \in EventList, ToSet(u.event[l]) # {},
         NEW r, NEW y \in BOOLEAN, r = [xTaskRemoveFromEventList(u, l) EXCEPT !.missedYield = y]
  PROVE  Released(j, r, W \cup {Head(u.event[l])}) /\ Head(u.event[l]) \in ToSet(u.event[l])
<1> DEFINE t == Head(u.event[l])
           v == xTaskRemoveFromEventList(u, l)
<1>1. Fit(u, {}) /\ Apart(u) /\ u.susp = 1 /\ u \in Kernel /\ u.event[l] \in Seq(Task)
  BY Zenon DEF Released, Woken, Still, Fit, Kernel
<1>2. t \in Task /\ t \in ToSet(u.event[l])
  BY <1>1, HeadFacts
<1>3. WokenOne(u, v, t)
  BY <1>1, WakeHead, Zenon
<1> HIDE DEF v, t
<1>4. Fit(v, {}) /\ Woken(u, v) /\ Still(u, v) /\ v \in Kernel /\ v.current = u.current /\ Apart(v)
  BY <1>3 DEF WokenOne, Woken, Fit
<1>5. Chosen(u) => Chosen(v)
  BY <1>1, <1>2, <1>3, WokenOneChosen
<1>6. /\ r \in Kernel /\ r.susp = v.susp /\ r.current = v.current
      /\ r.prio = v.prio /\ r.base = v.base /\ r.item = v.item /\ r.event = v.event
      /\ r.ready = v.ready /\ r.delayed = v.delayed /\ r.overflowed = v.overflowed
      /\ r.pending = v.pending /\ r.suspended = v.suspended /\ r.terminating = v.terminating
      /\ r.deleted = v.deleted /\ r.free = v.free /\ r.wake = v.wake /\ r.tick = v.tick
      /\ r.overflows = v.overflows /\ r.top = v.top /\ r.missed = v.missed
  <2>1. r = [v EXCEPT !.missedYield = y]
    BY DEF v
  <2>2. QED
    BY ZenonT(60), <1>4, <2>1 DEF Kernel
<1>7. Fit(r, {}) /\ Woken(v, r) /\ Still(v, r)
  <2>1. Fit(r, {})
    BY SMTT(30), <1>4, <1>6 DEF Fit, Placed, NoDups, OnePlace, IsReady, TopCovers
  <2>2. Onward(v, r)
    BY <1>6, OnwardSame, Zenon DEF IsDelayed
  <2>3. QED
    BY <1>6, <2>1, <2>2 DEF Woken, Still, IsReady
<1>8. Woken(j, r)
  <2>1. Woken(j, v)
    BY <1>4, WokenWoken DEF Released
  <2>2. QED
    BY <1>7, <2>1, WokenWoken
<1>9. Apart(r)
  BY <1>4, <1>6 DEF Apart, Awaits, IsDelayed
<1>10. Still(j, r) /\ r.current = j.current /\ (Chosen(j) => Chosen(r))
  BY <1>4, <1>5, <1>6, <1>7 DEF Still, Released, Chosen
<1>11. \A x \in EventList : ToSet(r.event[x]) = ToSet(j.event[x]) \ (W \cup {t})
  BY <1>3, <1>6 DEF WokenOne, Released
<1>12. QED
  BY <1>2, <1>8, <1>9, <1>10, <1>11 DEF Released, t

\* A list without repetitions has as many entries as members.
LEMMA Members ==
  ASSUME NEW T, NEW s \in Seq(T), NoDup(s)
  PROVE  IsFiniteSet(ToSet(s)) /\ Cardinality(ToSet(s)) = Len(s)
<1>1. Len(s) \in Nat /\ DOMAIN s = 1..Len(s)
  OBVIOUS
<1>2. s \in [1..Len(s) -> ToSet(s)]
  BY <1>1 DEF ToSet
<1>3. \A x \in ToSet(s) : \E i \in 1..Len(s) : s[i] = x
  BY <1>1 DEF ToSet
<1>4. \A i, j \in 1..Len(s) : s[i] = s[j] => i = j
  BY <1>1 DEF NoDup
<1>5. QED
  BY <1>1, <1>2, <1>3, <1>4, Counted, Zenon

\* A function that starts at x and goes on as G says.
Iteration(X, x, m, G) == \E f \in [0..m -> X] : f[0] = x /\ \A i \in 1..m : f[i] = G[i][f[i-1]]

\* The states that a function leads to from one state, one after the other.
LEMMA IterationExists ==
  ASSUME NEW X, NEW x \in X, NEW m \in Nat, NEW G \in [1..m -> [X -> X]]
  PROVE  Iteration(X, x, m, G)
  BY SMTT(30), Recursion DEF Iteration

\* prvUnlockQueue wakes as many tasks as its lock has counted transfers, if so
\* many wait.
LEMMA WakeCountedReleases ==
  ASSUME NEW j, Fit(j, {}), Apart(j), j.susp = 1, NEW l \in EventList, NEW lock \in Int
  PROVE  \E W \in SUBSET ToSet(j.event[l]) :
            /\ Released(j, WakeCounted(j, l, lock), W) /\ IsFiniteSet(W)
            /\ W = ToSet(j.event[l]) \/ Cardinality(W) = IF lock > 0 THEN lock ELSE 0
<1> DEFINE E == ToSet(j.event[l])
           n == IF lock < Len(j.event[l]) THEN lock ELSE Len(j.event[l])
           Next1(u) == [xTaskRemoveFromEventList(u, l) EXCEPT !.missedYield = @ \/ Preempts(u, l)]
           woken[i \in 0..n] ==
              IF i = 0 THEN j
              ELSE LET u == woken[i - 1]
                   IN [xTaskRemoveFromEventList(u, l) EXCEPT !.missedYield = @ \/ Preempts(u, l)]
<1>1. j \in Kernel /\ j.event[l] \in Seq(Task) /\ NoDup(j.event[l]) /\ Len(j.event[l]) \in Nat
  BY DEF Fit, Kernel, Apart
<1>2. IsFiniteSet(E) /\ Cardinality(E) = Len(j.event[l])
  BY <1>1, Members
<1>3. Released(j, j, {}) /\ IsFiniteSet({}) /\ Cardinality({}) = 0
  BY ReleasedNone, FS_EmptySet
<1>4. CASE ~(lock > 0)
  <2>1. WakeCounted(j, l, lock) = j
    BY <1>4 DEF WakeCounted, queueLOCKED_UNMODIFIED
  <2>2. QED
    BY <1>3, <1>4, <2>1
<1>5. CASE lock > 0
  <2>1. n \in Nat /\ n <= Len(j.event[l]) /\ (n = lock \/ n = Len(j.event[l])) /\ (lock > 0 <=> TRUE)
    BY <1>1, <1>5
  <2>2. WakeCounted(j, l, lock) = woken[n]
    BY <1>5 DEF WakeCounted, queueLOCKED_UNMODIFIED
  <2> DEFINE Good1(u) == \E W \in SUBSET E : Released(j, u, W)
             X == {u \in Kernel : Good1(u)}
             G == [i \in 1..n |-> [u \in X |-> IF ToSet(u.event[l]) = {} THEN u ELSE Next1(u)]]
  <2>3. ASSUME NEW u \in X, ToSet(u.event[l]) # {}, NEW W \in SUBSET E, Released(j, u, W)
        PROVE  /\ Next1(u) \in X
               /\ \E t \in E \ W : Released(j, Next1(u), W \cup {t})
    <3> DEFINE v == xTaskRemoveFromEventList(u, l)
               t == Head(u.event[l])
               y == v.missedYield \/ Preempts(u, l)
    <3>1. y \in BOOLEAN
      OBVIOUS
    <3>2. Next1(u) = [v EXCEPT !.missedYield = y]
      BY Zenon
    <3> HIDE DEF y, Next1
    <3>3. Released(j, Next1(u), W \cup {t}) /\ t \in ToSet(u.event[l])
      BY <2>3, <3>1, <3>2, ReleasedOne
    <3>4. t \in E \ W
      BY <2>3, <3>3 DEF Released
    <3>5. Next1(u) \in Kernel
      BY <3>3 DEF Released, Woken, Fit
    <3> HIDE DEF t
    <3>6. Next1(u) \in X
      BY <3>3, <3>4, <3>5
    <3>7. QED
      BY <3>3, <3>4, <3>6, Zenon
  <2>4. j \in X
    BY <1>1, <1>3
  <2>5. G \in [1..n -> [X -> X]] /\ \A i \in 1..n, u \in X : G[i][u] = IF ToSet(u.event[l]) = {} THEN u ELSE Next1(u)
    <3>1. \A u \in X : (IF ToSet(u.event[l]) = {} THEN u ELSE Next1(u)) \in X
      BY <2>3
    <3> HIDE DEF X, Next1
    <3>2. QED
      BY <3>1, Zenon
  <2> HIDE DEF n, G, woken, X, Next1
  <2>6. PICK f \in [0..n -> X] : f[0] = j /\ \A i \in 1..n : f[i] = G[i][f[i-1]]
    <3>0. n \in Nat /\ j \in X /\ G \in [1..n -> [X -> X]]
      BY <2>1, <2>4, <2>5
    <3>1. Iteration(X, j, n, G)
      BY <3>0, IterationExists
    <3>2. QED
      BY <3>1, Zenon DEF Iteration
  <2> DEFINE Made(i) == \E W \in SUBSET E : Released(j, f[i], W) /\ IsFiniteSet(W) /\ Cardinality(W) = i
             P == {i \in 0..n : Made(i)}
  <2>7. ASSUME NEW i \in 0..n-1, Made(i)
        PROVE  Made(i + 1) /\ f[i+1] = Next1(f[i])
    <3>1. PICK W \in SUBSET E : Released(j, f[i], W) /\ IsFiniteSet(W) /\ Cardinality(W) = i
      BY <2>7
    <3>2. W # E
      BY <1>2, <2>1, <3>1
    <3>3. f[i] \in X /\ i \in Nat /\ i + 1 \in 1..n /\ (i + 1) - 1 = i /\ i + 1 \in 0..n
      BY <2>1, <2>6
    <3>4. ToSet(f[i].event[l]) # {}
      BY <3>1, <3>2, Zenon DEF Released
    <3>5. f[i+1] = Next1(f[i])
      BY <2>5, <2>6, <3>3, <3>4, Zenon
    <3>6. PICK t \in E \ W : Released(j, Next1(f[i]), W \cup {t})
      BY <2>3, <3>1, <3>3, <3>4, Zenon
    <3>7. IsFiniteSet(W \cup {t}) /\ Cardinality(W \cup {t}) = i + 1
      BY <3>1, <3>6, FS_AddElement
    <3>8. QED
      BY <3>5, <3>6, <3>7
  <2>8. 0 \in P
    <3>1. Made(0)
      BY <1>3, <2>6
    <3> HIDE DEF Made
    <3>2. QED
      BY <2>1, <3>1
  <2>9. ASSUME NEW i \in 1..n, i - 1 \in P PROVE i \in P
    <3>1. i - 1 \in 0..n-1 /\ i \in 0..n /\ (i - 1) + 1 = i
      BY <2>1
    <3>2. Made(i - 1)
      BY <2>9
    <3> HIDE DEF Made
    <3>3. Made((i - 1) + 1)
      BY <2>7, <3>1, <3>2
    <3>4. QED
      BY <3>1, <3>3
  <2>10. \A i \in 0..n : i \in P
    <3> HIDE DEF P
    <3>1. QED
      BY <2>1, <2>8, <2>9, UpTo, Zenon
  <2>11. \A i \in 0..n : Made(i)
    BY <2>10
  <2>12. \A i \in 1..n : f[i] = Next1(f[i-1])
    <3> SUFFICES ASSUME NEW i \in 1..n PROVE f[i] = Next1(f[i-1])
      OBVIOUS
    <3>1. i - 1 \in 0..n-1 /\ i - 1 \in 0..n /\ (i - 1) + 1 = i
      BY <2>1
    <3> HIDE DEF Made
    <3>2. f[(i-1)+1] = Next1(f[i-1])
      BY <2>7, <2>11, <3>1
    <3>3. QED
      BY <3>1, <3>2
  <2>13. \A i \in 0..n : f[i] = IF i = 0 THEN j ELSE Next1(f[i-1])
    BY <2>1, <2>6, <2>12
  <2>14. f = [i \in 0..n |-> IF i = 0 THEN j ELSE Next1(f[i-1])]
    BY <2>6, <2>13
  <2>15. f = [i \in 0..n |-> IF i = 0 THEN j
                             ELSE LET u == f[i - 1]
                                  IN [xTaskRemoveFromEventList(u, l) EXCEPT !.missedYield = @ \/ Preempts(u, l)]]
    BY <2>14, Zenon DEF Next1
  <2>16. \E c : c = [i \in 0..n |-> IF i = 0 THEN j
                             ELSE LET u == c[i - 1]
                                  IN [xTaskRemoveFromEventList(u, l) EXCEPT !.missedYield = @ \/ Preempts(u, l)]]
    BY <2>15, Zenon
  <2>17. woken = [i \in 0..n |-> IF i = 0 THEN j
                             ELSE LET u == woken[i - 1]
                                  IN [xTaskRemoveFromEventList(u, l) EXCEPT !.missedYield = @ \/ Preempts(u, l)]]
    BY <2>16, Zenon DEF woken
  <2>18. \A i \in 0..n : woken[i] = IF i = 0 THEN j ELSE Next1(woken[i-1])
    BY <2>17, Zenon DEF Next1
  <2> DEFINE Q == {i \in 0..n : woken[i] = f[i]}
  <2>19. 0 \in Q
    BY <2>1, <2>6, <2>18
  <2>20. ASSUME NEW i \in 1..n, i - 1 \in Q PROVE i \in Q
    <3>1. i \in 0..n /\ i # 0 /\ woken[i-1] = f[i-1]
      BY <2>1, <2>20
    <3>2. woken[i] = Next1(woken[i-1]) /\ f[i] = Next1(f[i-1])
      BY <2>12, <2>18, <3>1
    <3>3. QED
      BY <3>1, <3>2
  <2>21. woken[n] = f[n] /\ Made(n)
    <3> HIDE DEF Q, Made
    <3>1. \A i \in 0..n : i \in Q
      BY <2>1, <2>19, <2>20, UpTo, Zenon
    <3>2. n \in 0..n
      BY <2>1
    <3>3. QED
      BY <2>11, <3>1, <3>2 DEF Q
  <2>22. PICK W \in SUBSET E : Released(j, f[n], W) /\ IsFiniteSet(W) /\ Cardinality(W) = n
    BY <2>21
  <2>23. W = E \/ Cardinality(W) = lock
    <3>1. Cardinality(E) = n => W = E
      BY <1>2, <2>22, FS_Subset
    <3>2. QED
      BY <1>2, <2>1, <2>22, <3>1
  <2>24. QED
    BY <2>1, <2>2, <2>21, <2>22, <2>23, <1>5
<1>6. QED
  BY <1>4, <1>5

-----------------------------------------------------------------------------
(* The block time of a call.                                               *)

\* When the call c noted its time out state.
Noted(c) == c.timeout.overflows * TickMod + c.timeout.entered

\* What is left of its block time, of a task that is at p in the call c and has
\* been delayed up to d if it waits: time has passed from its time out state on,
\* the wait in its list ends with it, and the call fails only without it.
Times(j, x, p, c, d, l) ==
    /\ l \in Nat /\ d \in 0..2*TickMod-1
    /\ IF c.timeSet THEN l <= c.wait ELSE l = 0
    /\ c.timeSet /\ l > 0 /\ c.wait # portMAX_DELAY =>
          Now(j) = Noted(c) + (c.wait - l) \/ Now(j) = Noted(c) + (c.wait - l) - Round
    /\ c.path = "fail" => l = 0
    /\ p \in {"q_test", "q_place"} /\ c.wait # portMAX_DELAY => l = 0 \/ l = c.wait
    /\ Awaits(j, x) /\ c.wait # portMAX_DELAY /\ l # 0 => Clock(j) + l = d \/ Clock(j) + l = d + 2 * TickMod

\* What KeepLeft computes when n ticks have passed.
LeftAfter(c, b, l, n) ==
    IF ~b.timeSet THEN 0 ELSE IF ~c.timeSet THEN c.wait ELSE IF l > n THEN l - n ELSE 0

\* The ticks between two clock readings.
LEMMA TicksPassed ==
  ASSUME NEW j \in Kernel, NEW r \in Kernel, NEW n \in Nat, n < 2 * TickMod, Passed(j, r, n)
  PROVE  (Clock(r) + 2 * TickMod - Clock(j)) % (2 * TickMod) = n
<1> DEFINE m == 2 * TickMod
           a == Clock(r) + m - Clock(j)
<1>1. /\ m \in Nat /\ m > 0 /\ Clock(j) \in 0..m-1 /\ Clock(r) \in 0..m-1
  BY TimeFacts
<1>2. Clock(r) = Clock(j) + n \/ Clock(r) = Clock(j) + n - m
  BY DEF Passed
<1>3. n < m
  OBVIOUS
<1> HIDE DEF m
<1>4. a = m + n \/ a = n
  BY <1>1, <1>2
<1> HIDE DEF a
<1>5. CASE a = n
  BY <1>1, <1>3, <1>5, ModSmall DEF a, m
<1>6. CASE a = m + n
  <2>1. a \in Nat /\ m <= a /\ a < 2 * m /\ a - m = n
    BY <1>1, <1>3, <1>6
  <2>2. a % m = a - m
    BY <1>1, <2>1, ModOnce, Zenon
  <2>3. QED
    BY <2>1, <2>2 DEF a, m
<1>7. QED
  BY <1>4, <1>5, <1>6

\* The same for the history variable.
LEMMA KeepLeftIs ==
  ASSUME k \in Kernel, k' \in Kernel, NEW n \in Nat, n < 2 * TickMod, Passed(k, k', n), KeepLeft, NEW x \in Task
  PROVE  left'[x] = LeftAfter(call[x], call'[x], left[x], n)
<1> DEFINE ticks == (Clock(k') + 2 * TickMod - Clock(k)) % (2 * TickMod)
           lf == [t \in Task |-> CASE ~call'[t].timeSet -> 0
                                   [] call'[t].timeSet /\ ~call[t].timeSet -> call[t].wait
                                   [] OTHER -> IF left[t] > ticks THEN left[t] - ticks ELSE 0]
<1>1. left' = lf
  BY DEF KeepLeft
<1>2. ticks = n
  BY TicksPassed
<1> HIDE DEF ticks
<1>3. lf[x] = (CASE ~call'[x].timeSet -> 0
                 [] call'[x].timeSet /\ ~call[x].timeSet -> call[x].wait
                 [] OTHER -> IF left[x] > n THEN left[x] - n ELSE 0)
  BY <1>2
<1> HIDE DEF lf
<1>4. QED
  BY <1>1, <1>3 DEF LeftAfter

\* Such a time is one of a round of xNumOfOverflows.
LEMMA NotedType == ASSUME NEW c \in CallType PROVE Noted(c) \in 0..Round-1
<1>1. TickMod \in Nat /\ TickMod >= 3 /\ OverflowMod \in Nat
  BY TickModAssumption, SchedAssumption
<1>2. c.timeout.overflows \in 0..OverflowMod-1 /\ c.timeout.entered \in 0..TickMod-1
  BY DEF CallType, portTickType
<1> DEFINE o == c.timeout.overflows
           m == OverflowMod - 1
<1>3. o \in Nat /\ m \in Nat /\ o <= m
  BY <1>2, SchedAssumption
<1>4. o * TickMod <= m * TickMod /\ o * TickMod \in Nat /\ m * TickMod \in Nat
  BY <1>1, <1>3, SMT
<1>5. Round = m * TickMod + TickMod
  BY <1>1, SchedAssumption DEF Round
<1> HIDE DEF m
<1> DEFINE u == o * TickMod
           v == m * TickMod
<1>6. Noted(c) = u + c.timeout.entered /\ u <= v /\ u \in Nat /\ v \in Nat /\ Round = v + TickMod
  BY <1>4, <1>5 DEF Noted
<1> HIDE DEF u, v
<1>7. QED
  BY <1>1, <1>2, <1>6

\* Time passes in an unchanged call.
LEMMA TimesPass ==
  ASSUME NEW j \in Kernel, NEW r \in Kernel, NEW x, NEW p, NEW s, NEW c \in CallType, NEW d, NEW l, NEW n \in Nat,
         Times(j, x, p, c, d, l), Passed(j, r, n),
         s \notin {"q_test", "q_place"} \/ (p \in {"q_test", "q_place"} /\ n = 0),
         NEW e \in 0..2*TickMod-1, Awaits(r, x) /\ c.wait # portMAX_DELAY => Awaits(j, x) /\ e = d
  PROVE  Times(r, x, s, c, e, LeftAfter(c, c, l, n))
<1> DEFINE y == LeftAfter(c, c, l, n)
<1>1. /\ Round \in Nat /\ Round >= 2 * TickMod /\ Now(j) \in 0..Round-1 /\ Clock(j) \in 0..2*TickMod-1
      /\ TickMod \in Nat /\ TickMod >= 3 /\ Now(r) \in 0..Round-1 /\ Clock(r) \in 0..2*TickMod-1
  BY TimeFacts
<1>2. /\ c.wait \in 0..TickMod-1 /\ c.timeSet \in BOOLEAN
      /\ c.timeout.overflows \in 0..OverflowMod-1 /\ c.timeout.entered \in 0..TickMod-1
  BY DEF CallType, portTickType
<1>3. Noted(c) \in 0..Round-1
  BY NotedType
<1>4. /\ l \in Nat
      /\ IF c.timeSet THEN l <= c.wait ELSE l = 0
      /\ c.timeSet /\ l > 0 /\ c.wait # portMAX_DELAY => Now(j) = Noted(c) + (c.wait - l) \/ Now(j) = Noted(c) + (c.wait - l) - Round
      /\ c.path = "fail" => l = 0
      /\ p \in {"q_test", "q_place"} /\ c.wait # portMAX_DELAY => l = 0 \/ l = c.wait
      /\ Awaits(j, x) /\ c.wait # portMAX_DELAY /\ l # 0 => Clock(j) + l = d \/ Clock(j) + l = d + 2 * TickMod
  BY Zenon DEF Times
<1>5. y = IF c.timeSet /\ l > n THEN l - n ELSE 0
  BY <1>2, <1>4 DEF LeftAfter
<1>6. y \in Nat /\ y <= l /\ (y # 0 => c.timeSet /\ y = l - n /\ l > 0) /\ (~c.timeSet => y = 0) /\ (l = 0 => y = 0)
      /\ (n = 0 => y = l)
  BY <1>2, <1>4, <1>5
<1> HIDE DEF y
<1>7. IF c.timeSet THEN y <= c.wait ELSE y = 0
  BY <1>2, <1>4, <1>6
<1>8. /\ Now(r) = Now(j) + n \/ Now(r) = Now(j) + n - Round
      /\ Clock(r) = Clock(j) + n \/ Clock(r) = Clock(j) + n - 2 * TickMod
  BY DEF Passed
<1>9. ASSUME y > 0, c.wait # portMAX_DELAY PROVE Now(r) = Noted(c) + (c.wait - y) \/ Now(r) = Noted(c) + (c.wait - y) - Round
  <2>1. c.timeSet /\ y = l - n /\ l > 0 /\ l <= c.wait
    BY <1>4, <1>6, <1>9
  <2>2. Now(j) = Noted(c) + (c.wait - l) \/ Now(j) = Noted(c) + (c.wait - l) - Round
    BY <1>4, <1>9, <2>1
  <2>3. QED
    BY <1>1, <1>2, <1>3, <1>4, <1>6, <1>8, <2>1, <2>2
<1>10. c.path = "fail" => y = 0
  BY <1>4, <1>6
<1>11. s \in {"q_test", "q_place"} /\ c.wait # portMAX_DELAY => y = 0 \/ y = c.wait
  BY <1>4, <1>6
<1>12. ASSUME Awaits(r, x), c.wait # portMAX_DELAY, y # 0 PROVE Clock(r) + y = e \/ Clock(r) + y = e + 2 * TickMod
  <2>1. y = l - n /\ l > 0 /\ e = d /\ Awaits(j, x)
    BY <1>6, <1>12
  <2>2. Clock(j) + l = e \/ Clock(j) + l = e + 2 * TickMod
    BY <1>4, <1>12, <2>1
  <2>3. l <= c.wait /\ l \in Nat
    BY <1>4, <1>6, <1>12
  <2>4. QED
    BY <1>1, <1>2, <1>6, <1>8, <2>1, <2>2, <2>3
<1>13. Times(r, x, s, c, e, y)
  BY <1>6, <1>7, <1>9, <1>10, <1>11, <1>12 DEF Times
<1>14. QED
  BY <1>13 DEF y

-----------------------------------------------------------------------------
(* The invariant of the queue.                                             *)

\* Task x has entered the call c where it is in it; before it places itself on
\* the list it has decided to wait, and only a call that leaves fails.
InCall(p, c) ==
    /\ p \in QPlaces => c.op # "none"
    /\ p = "q_place" => c.path = "block"
    /\ p \in QPlaces \ Parting => c.path # "fail"

\* Task x is in the list l from within its call, and waits for time or for the
\* event alone.
InList(j, x, l, c) ==
    /\ c.op # "none" /\ l = Waiting(c.op) /\ c.path = "block"
    /\ IF c.wait = portMAX_DELAY THEN x \in j.suspended ELSE IsDelayed(j, x)

\* The ring is within its bounds, and the queue is locked where a task locks it.
Ring(j, at, m) ==
    /\ m \in [messages : 0..Length, txLock : -1..MaxLock, rxLock : -1..MaxLock]
    /\ m.txLock # queueUNLOCKED <=> at[j.current] \in QLocked
    /\ m.rxLock # queueUNLOCKED <=> at[j.current] \in QLocked \cup {"q_unlock_rx"}

Callers(at, c) == \A x \in Task : InCall(at[x], c[x])
Waiters(j, c) == \A l \in EventList : \A x \in ToSet(j.event[l]) : InList(j, x, l, c[x])
Timely(j, at, c, d, lf) == FewMissed => \A x \in Task : Times(j, x, at[x], c[x], d[x], lf[x])

Base(j, at, c, m, d, lf) ==
    /\ Core(j, at, c) /\ Callers(at, c) /\ Waiters(j, c) /\ Ring(j, at, m)
    /\ d \in [Task -> 0..2*TickMod-1] /\ Timely(j, at, c, d, lf)

\* The inductive invariant of the queue.
QInv == Base(k, pc, call, q, due, left) /\ lastWake \in [Task -> portTickType]

\* No step but the one that joins a list disturbs those that wait.
LEMMA WaitingOnward ==
  ASSUME NEW j, NEW r, Onward(j, r), NEW c, NEW b, Waiters(j, c), \A x : Awaits(r, x) => b[x] = c[x]
  PROVE  Waiters(r, b)
<1> SUFFICES ASSUME NEW l \in EventList, NEW x \in ToSet(r.event[l]) PROVE InList(r, x, l, b[x])
  BY DEF Waiters
<1>1. x \in ToSet(j.event[l]) /\ Awaits(r, x)
  BY DEF Onward, Awaits
<1>2. InList(j, x, l, c[x]) /\ b[x] = c[x]
  BY <1>1 DEF Waiters
<1>3. (IsDelayed(r, x) <=> IsDelayed(j, x)) /\ (x \in r.suspended <=> x \in j.suspended)
  BY <1>1, Zenon DEF Onward
<1>4. QED
  BY <1>2, <1>3, Zenon DEF InList

\* One that waits with a limit is delayed.
LEMMA WaitingDelayed ==
  ASSUME NEW r, NEW c, Waiters(r, c), NEW x, Awaits(r, x), c[x].wait # portMAX_DELAY
  PROVE  IsDelayed(r, x)
  BY DEF Waiters, InList, Awaits

\* A task whose call does not change.
LEMMA TimelySame ==
  ASSUME k \in Kernel, k' \in Kernel, FewMissed, Timely(k, pc, call, due, left), call \in [Task -> CallType],
         Elapses(k, k'), KeepLeft, due' \in [Task -> 0..2*TickMod-1], NEW x \in Task, call'[x] = call[x],
         \/ pc'[x] \notin {"q_test", "q_place"}
         \/ pc[x] \in {"q_test", "q_place"} /\ k'.tick = k.tick /\ k'.overflows = k.overflows,
         Awaits(k', x) /\ call[x].wait # portMAX_DELAY => Awaits(k, x) /\ due'[x] = due[x]
  PROVE  Times(k', x, pc'[x], call'[x], due'[x], left'[x])
<1>1. \E n \in Nat : /\ n < 2 * TickMod /\ Passed(k, k', n)
                     /\ pc'[x] \notin {"q_test", "q_place"} \/ (pc[x] \in {"q_test", "q_place"} /\ n = 0)
  <2>1. TickMod \in Nat /\ TickMod >= 3 /\ MaxMissed \in Nat
    BY TickModAssumption, SchedAssumption
  <2>2. CASE pc[x] \in {"q_test", "q_place"} /\ k'.tick = k.tick /\ k'.overflows = k.overflows
    <3>1. Passed(k, k', 0)
      BY <2>2, StillPassed
    <3>2. QED
      BY <2>1, <2>2, <3>1
  <2>3. CASE pc'[x] \notin {"q_test", "q_place"}
    <3>1. PICK n \in 0..MaxMissed : Passed(k, k', n)
      BY DEF Elapses
    <3>2. n \in Nat /\ n < 2 * TickMod
      BY <2>1, <3>1 DEF FewMissed
    <3>3. QED
      BY <2>3, <3>1, <3>2
  <2>4. QED
    BY <2>2, <2>3
<1>2. PICK n \in Nat : /\ n < 2 * TickMod /\ Passed(k, k', n)
                       /\ pc'[x] \notin {"q_test", "q_place"} \/ (pc[x] \in {"q_test", "q_place"} /\ n = 0)
  BY <1>1
<1>3. left'[x] = LeftAfter(call[x], call[x], left[x], n)
  BY <1>2, KeepLeftIs
<1>4. Times(k, x, pc[x], call[x], due[x], left[x])
  BY DEF Timely
<1>5. call[x] \in CallType /\ due'[x] \in 0..2*TickMod-1
  OBVIOUS
<1>6. Times(k', x, pc'[x], call[x], due'[x], LeftAfter(call[x], call[x], left[x], n))
  BY <1>2, <1>4, <1>5, TimesPass
<1>7. QED
  BY <1>3, <1>6

\* The lists are joined from within the calls alone.
LEMMA OutsideKeeps ==
  ASSUME QInv, Next, UNCHANGED <<q, call>>, KeepLeft
  PROVE  QInv'
<1>1. /\ Core(k, pc, call) /\ Callers(pc, call) /\ Waiters(k, call) /\ Ring(k, pc, q)
      /\ due \in [Task -> 0..2*TickMod-1] /\ Timely(k, pc, call, due, left)
      /\ lastWake \in [Task -> portTickType]
  BY DEF QInv, Base
<1>2. Outside(call, k, pc, due, k', pc', due') /\ lastWake' \in [Task -> portTickType]
  BY <1>1, OutsideNext
<1>3. q' = q /\ call' = call
  OBVIOUS
<1>4. /\ Core(k', pc', call) /\ Onward(k, k') /\ Elapses(k, k')
      /\ due' \in [Task -> 0..2*TickMod-1]
      /\ \A x \in Task : Awaits(k', x) /\ IsDelayed(k', x) => due'[x] = due[x]
      /\ \A x \in Task : pc'[x] = pc[x] \/ pc'[x] \in Places
      /\ \/ k'.current = k.current /\ pc'[k'.current] = pc[k.current]
         \/ pc[k.current] \notin QLocking /\ pc'[k'.current] \notin QLocking
      /\ pc[k.current] \in QLocking => k'.tick = k.tick /\ k'.overflows = k.overflows
  BY <1>2 DEF Outside
<1>5. /\ k \in Kernel /\ k' \in Kernel /\ call \in [Task -> CallType] /\ pc' \in [Task -> Places \cup QPlaces]
      /\ \A x \in Task \ {k.current} : pc[x] \notin Locking \cup QLocking
  BY <1>1, <1>4 DEF Core, Fit
<1>6. Places \cap QPlaces = {}
  BY DEF Places, QPlaces
<1>7. Callers(pc', call)
  BY <1>1, <1>4, <1>6 DEF Callers, InCall, QPlaces
<1>8. Waiters(k', call)
  BY <1>1, <1>4, WaitingOnward
<1>9. Ring(k', pc', q)
  BY <1>1, <1>4 DEF Ring, QLocking, QLocked
<1>10. ASSUME FewMissed, NEW x \in Task
       PROVE  Times(k', x, pc'[x], call'[x], due'[x], left'[x])
  <2>1. \/ pc'[x] \notin {"q_test", "q_place"}
        \/ pc[x] \in {"q_test", "q_place"} /\ k'.tick = k.tick /\ k'.overflows = k.overflows
    <3> SUFFICES ASSUME pc'[x] \in {"q_test", "q_place"}
                 PROVE  pc[x] \in {"q_test", "q_place"} /\ k'.tick = k.tick /\ k'.overflows = k.overflows
      OBVIOUS
    <3>1. pc[x] = pc'[x] /\ pc[x] \in QLocking
      BY <1>4 DEF Places, QLocking
    <3>2. x = k.current
      BY <1>5, <3>1
    <3>3. QED
      BY <1>4, <3>1, <3>2
  <2>2. Awaits(k', x) /\ call[x].wait # portMAX_DELAY => Awaits(k, x) /\ due'[x] = due[x]
    BY <1>4, <1>8, WaitingDelayed, OnwardAwaits
  <2>3. QED
    BY <1>1, <1>3, <1>4, <1>5, <1>10, <2>1, <2>2, TimelySame
<1>11. Timely(k', pc', call', due', left')
  BY <1>10 DEF Timely
<1>12. Base(k', pc', call', q', due', left')
  BY <1>3, <1>4, <1>7, <1>8, <1>9, <1>11 DEF Base
<1>13. QED
  BY <1>2, <1>12 DEF QInv

\* A step of the running task t within a call, or of an interrupt that leaves it
\* where it is.
LEMMA MovedKeeps ==
  ASSUME QInv, NEW t \in Task, t = k.current, NEW p \in Places \cup QPlaces, t # Idle \/ p = pc[t],
         pc' = [pc EXCEPT ![t] = p],
         NEW c \in CallType, call' = [call EXCEPT ![t] = c], InCall(p, c),
         Fit(k', {}), Apart(k'), Waiters(k', call'), ToSet(k.terminating) \subseteq ToSet(k'.terminating),
         k'.susp = 1 <=> p \in Locking \cup QLocking, k'.susp = 1 => k'.current = t,
         IsReady(k', k'.current) \/ (k'.current = t /\ Leaving(pc', call', t)),
         q' \in [messages : 0..Length, txLock : -1..MaxLock, rxLock : -1..MaxLock],
         q'.txLock # queueUNLOCKED <=> p \in QLocked, q'.rxLock # queueUNLOCKED <=> p \in QLocked \cup {"q_unlock_rx"},
         Elapses(k, k'), due' \in [Task -> 0..2*TickMod-1],
         \A x \in Task \ {t} : Awaits(k', x) /\ call[x].wait # portMAX_DELAY => Awaits(k, x) /\ due'[x] = due[x],
         KeepLeft, lastWake' = lastWake,
         FewMissed => Times(k', t, p, c, due'[t], left'[t])
  PROVE  QInv'
<1>1. /\ Core(k, pc, call) /\ Callers(pc, call) /\ Waiters(k, call) /\ Ring(k, pc, q)
      /\ due \in [Task -> 0..2*TickMod-1] /\ Timely(k, pc, call, due, left)
      /\ lastWake \in [Task -> portTickType]
  BY DEF QInv, Base
<1>2. /\ k \in Kernel /\ k' \in Kernel /\ k'.current \in Task
      /\ pc \in [Task -> Places \cup QPlaces] /\ call \in [Task -> CallType]
      /\ \A x \in Task \ {t} : pc[x] \notin Locking \cup QLocking
      /\ pc[Idle] \in Places /\ (pc[Idle] = "free" => ToSet(k.terminating) # {})
  BY <1>1, Zenon DEF Core, Fit, Kernel
<1>3. /\ pc' \in [Task -> Places \cup QPlaces] /\ pc'[t] = p /\ \A x \in Task \ {t} : pc'[x] = pc[x]
      /\ call' \in [Task -> CallType] /\ call'[t] = c /\ \A x \in Task \ {t} : call'[x] = call[x]
  BY <1>2
<1>4. pc'[Idle] \in Places /\ (pc'[Idle] = "free" => ToSet(k'.terminating) # {})
  BY <1>2, <1>3, IdleIsTask
<1>5. k'.susp = 1 <=> pc'[k'.current] \in Locking \cup QLocking
  BY <1>2, <1>3
<1>6. \A x \in Task \ {k'.current} : pc'[x] \notin Locking \cup QLocking
  BY <1>2, <1>3
<1>7. Core(k', pc', call')
  BY <1>3, <1>4, <1>5, <1>6 DEF Core
<1>8. Callers(pc', call')
  BY <1>1, <1>3 DEF Callers
<1>9. Ring(k', pc', q')
  <2>1. CASE k'.susp = 1
    BY <1>3, <2>1 DEF Ring
  <2>2. CASE k'.susp # 1
    <3>1. p \notin QLocking /\ pc'[k'.current] \notin QLocking
      BY <1>5, <2>2
    <3>2. QED
      BY <3>1 DEF Ring, QLocking, QLocked
  <2>3. QED
    BY <2>1, <2>2
<1>10. ASSUME FewMissed, NEW x \in Task
       PROVE  Times(k', x, pc'[x], call'[x], due'[x], left'[x])
  <2>1. CASE x = t
    BY <1>3, <1>10, <2>1
  <2>2. CASE x # t
    <3>1. pc'[x] \notin {"q_test", "q_place"} /\ call'[x] = call[x]
      BY <1>2, <1>3, <2>2 DEF QLocking
    <3>2. Awaits(k', x) /\ call[x].wait # portMAX_DELAY => Awaits(k, x) /\ due'[x] = due[x]
      BY <2>2
    <3>3. QED
      BY <1>1, <1>2, <1>10, <3>1, <3>2, TimelySame
  <2>3. QED
    BY <2>1, <2>2
<1>11. Timely(k', pc', call', due', left')
  BY <1>10 DEF Timely
<1>12. Base(k', pc', call', q', due', left')
  BY <1>7, <1>8, <1>9, <1>11 DEF Base
<1>13. QED
  BY <1>1, <1>12 DEF QInv

\* What the running task finds within a call.
LEMMA Running ==
  ASSUME QInv, QueueAssumption, NEW t \in Task, NEW p, Runs(t, p), p \in QPlaces \/ Ops[t] # {}
  PROVE  /\ Core(k, pc, call) /\ Waiters(k, call) /\ Callers(pc, call)
         /\ k \in Kernel /\ Fit(k, {}) /\ Apart(k) /\ k.current = t /\ t # Idle /\ k.susp \in {0, 1}
         /\ k.susp = 1 <=> p \in Locking \cup QLocking
         /\ pc \in [Task -> Places \cup QPlaces] /\ call \in [Task -> CallType] /\ call[t] \in CallType
         /\ InCall(p, call[t])
         /\ q \in [messages : 0..Length, txLock : -1..MaxLock, rxLock : -1..MaxLock]
         /\ q.txLock # queueUNLOCKED <=> p \in QLocked
         /\ q.rxLock # queueUNLOCKED <=> p \in QLocked \cup {"q_unlock_rx"}
         /\ due \in [Task -> 0..2*TickMod-1] /\ lastWake \in [Task -> portTickType]
         /\ Timely(k, pc, call, due, left)
         /\ FewMissed => Times(k, t, p, call[t], due[t], left[t])
<1>1. k.current = t /\ pc[t] = p
  BY DEF Runs
<1>2. t # Idle
  <2>1. pc[Idle] \in Places /\ Places \cap QPlaces = {}
    BY DEF QInv, Base, Core, Places, QPlaces
  <2>2. QED
    BY <1>1, <2>1 DEF QueueAssumption
<1>3. QED
  BY <1>1, <1>2, Zenon DEF QInv, Base, Core, Fit, Kernel, Callers, Ring, Timely

\* Where it does not block it is ready, and waits for nothing.
LEMMA RunningReady ==
  ASSUME QInv, NEW t \in Task, k.current = t, ~Leaving(pc, call, t)
  PROVE  IsReady(k, t) /\ ~Awaits(k, t) /\ ~IsDelayed(k, t) /\ t \notin k.suspended
         /\ t \notin k.free \cup ToSet(k.terminating) /\ t \notin ToSet(k.pending)
         /\ t \in ToSet(k.ready[k.prio[t]])
<1>1. IsReady(k, t) /\ Fit(k, {}) /\ Apart(k)
  BY DEF QInv, Base, Core
<1>2. OnePlace(k, t) /\ k \in Kernel
  BY <1>1 DEF Fit, Placed
<1>3. ~IsDelayed(k, t) /\ t \notin k.suspended /\ t \notin k.free \cup ToSet(k.terminating)
  BY <1>1, <1>2 DEF OnePlace, IsDelayed
<1>4. ~Awaits(k, t) /\ t \notin ToSet(k.pending)
  BY <1>1, <1>3 DEF Apart
<1>5. t \in ToSet(k.ready[k.prio[t]])
  BY <1>1 DEF Fit, Placed, IsReady
<1>6. QED
  BY <1>1, <1>3, <1>4, <1>5

\* Such a task may change its call.
LEMMA WaitersKept ==
  ASSUME QInv, NEW t \in Task, NEW c, call' = [call EXCEPT ![t] = c], Onward(k, k'), c = call[t] \/ ~Awaits(k, t)
  PROVE  Waiters(k', call')
<1>1. Waiters(k, call) /\ call \in [Task -> CallType]
  BY DEF QInv, Base, Core
<1>2. ASSUME NEW x, Awaits(k', x) PROVE call'[x] = call[x]
  <2>1. Awaits(k, x)
    BY <1>2, OnwardAwaits
  <2>2. x \in Task
    <3>1. Fit(k, {}) /\ Apart(k)
      BY DEF QInv, Base, Core
    <3>2. QED
      BY <2>1, <3>1, AwaitingFacts
  <2>3. QED
    BY <1>1, <2>1, <2>2
<1>3. QED
  BY <1>1, <1>2, WaitingOnward, Zenon

-----------------------------------------------------------------------------
(* The steps of a call that leave the kernel alone.                        *)

\* No block time is running.
LEMMA TimesZero ==
  ASSUME NEW j, NEW x, NEW p, NEW c, NEW d \in 0..2*TickMod-1, c.wait \in portTickType
  PROVE  Times(j, x, p, c, d, 0)
<1>1. 0 \in Nat /\ ~(0 > 0) /\ 0 <= c.wait
  BY TickModAssumption DEF portTickType
<1>2. QED
  BY <1>1, Zenon DEF Times

\* The running task t goes from o to p, with the call c.
LEMMA StayKeeps ==
  ASSUME QInv, NEW t \in Task, NEW o, Runs(t, o), o \in {"app", "q_top", "q_lock", "q_check", "q_test"}, t # Idle,
         NEW p \in Places \cup QPlaces, pc' = [pc EXCEPT ![t] = p],
         o \in Locking \cup QLocking <=> p \in Locking \cup QLocking,
         NEW c \in CallType, call' = [call EXCEPT ![t] = c], InCall(p, c),
         UNCHANGED <<k, lastWake, due>>, KeepLeft,
         q' \in [messages : 0..Length, txLock : -1..MaxLock, rxLock : -1..MaxLock],
         q'.txLock # queueUNLOCKED <=> p \in QLocked, q'.rxLock # queueUNLOCKED <=> p \in QLocked \cup {"q_unlock_rx"},
         FewMissed /\ ~Awaits(k, t) => Times(k, t, p, c, due[t], LeftAfter(call[t], c, left[t], 0))
  PROVE  QInv'
<1>1. k.current = t /\ pc[t] = o /\ k' = k /\ due' = due /\ lastWake' = lastWake
  BY DEF Runs
<1>2. ~Leaving(pc, call, t)
  BY <1>1 DEF Leaving, Parting
<1>3. IsReady(k, t) /\ ~Awaits(k, t)
  BY <1>1, <1>2, RunningReady
<1>4. Fit(k, {}) /\ Apart(k) /\ k \in Kernel /\ (k.susp = 1 <=> o \in Locking \cup QLocking)
  BY <1>1 DEF QInv, Base, Core, Fit
<1>5. due \in [Task -> 0..2*TickMod-1]
  BY DEF QInv, Base
<1>6. Passed(k, k', 0) /\ Elapses(k, k')
  BY <1>1, <1>4, StillPassed
<1>7. Onward(k, k')
  BY <1>1, OnwardSame
<1>8. Waiters(k', call')
  BY <1>1, <1>3, <1>7, WaitersKept, Zenon
<1>9. FewMissed => Times(k', t, p, c, due'[t], left'[t])
  <2>1. 0 < 2 * TickMod
    BY TickModAssumption
  <2>2. call \in [Task -> CallType] /\ call'[t] = c
    BY DEF QInv, Base, Core
  <2>3. k' \in Kernel
    BY <1>1, <1>4
  <2>4. left'[t] = LeftAfter(call[t], call'[t], left[t], 0)
    BY <1>4, <1>6, <2>1, <2>3, KeepLeftIs
  <2>5. QED
    BY <1>1, <1>3, <2>2, <2>4
<1>10. k'.susp = 1 <=> p \in Locking \cup QLocking
  BY <1>1, <1>4
<1>11. Fit(k', {}) /\ Apart(k') /\ ToSet(k.terminating) \subseteq ToSet(k'.terminating) /\ k'.current = t /\ IsReady(k', k'.current)
  BY <1>1, <1>3, <1>4
<1>12. /\ due' \in [Task -> 0..2*TickMod-1]
       /\ \A x \in Task \ {t} : Awaits(k', x) /\ call[x].wait # portMAX_DELAY => Awaits(k, x) /\ due'[x] = due[x]
  BY <1>1, <1>5
<1>13. QED
  BY <1>1, <1>6, <1>8, <1>9, <1>10, <1>11, <1>12, MovedKeeps, Zenon

\* A call is entered.
LEMMA EnterKeeps ==
  ASSUME QInv, NEW t \in Task, NEW op \in Ops[t], NEW wait \in portTickType, Enter(t, op, wait), KeepLeft
  PROVE  QInv'
<1> DEFINE c == [NoCall EXCEPT !.op = op, !.wait = wait]
<1>1. op \in {"send", "receive", "peek"} /\ Ops[Idle] = {} /\ TickMod \in Nat /\ TickMod >= 3 /\ OverflowMod \in Nat \ {0}
  BY QueueAssumption, TickModAssumption, SchedAssumption, Zenon
<1>2. c \in CallType /\ c.timeSet = FALSE /\ c.path = "block" /\ c.op # "none" /\ c.wait = wait
  <2>1. NoCall \in CallType /\ NoCall.timeSet = FALSE /\ NoCall.path = "block"
    BY <1>1 DEF NoCall, NoTimeOut, CallType, portTickType
  <2>2. QED
    BY <1>1, <2>1, Zenon DEF CallType
<1>3. Runs(t, "app") /\ call' = [call EXCEPT ![t] = c] /\ pc' = [pc EXCEPT ![t] = "q_top"] /\ q' = q
      /\ UNCHANGED <<k, lastWake, due>> /\ t # Idle
  BY <1>1 DEF Enter, Goto
<1> HIDE DEF c
<1>4. InCall("q_top", c) /\ "q_top" \in Places \cup QPlaces
  BY <1>2 DEF InCall, QPlaces
<1>5. "app" \notin Locking \cup QLocking \cup QLocked /\ "q_top" \notin Locking \cup QLocking \cup QLocked
  BY DEF Locking, QLocking, QLocked
<1>6. /\ q \in [messages : 0..Length, txLock : -1..MaxLock, rxLock : -1..MaxLock]
      /\ q.txLock = queueUNLOCKED /\ q.rxLock = queueUNLOCKED /\ due \in [Task -> 0..2*TickMod-1]
  <2>1. Ops[t] # {}
    OBVIOUS
  <2>2. QED
    BY <1>3, <1>5, <2>1, Running, QueueAssumption
<1>7. Times(k, t, "q_top", c, due[t], LeftAfter(call[t], c, left[t], 0))
  <2>1. LeftAfter(call[t], c, left[t], 0) = 0
    BY <1>2 DEF LeftAfter
  <2>2. Times(k, t, "q_top", c, due[t], 0)
    BY <1>2, <1>6, TimesZero
  <2>3. QED
    BY <2>1, <2>2
<1>8. QED
  BY <1>2, <1>3, <1>4, <1>5, <1>6, <1>7, StayKeeps, Zenon

\* A call that does not wait returns.
LEMMA ReturnAtOnceKeeps == ASSUME QInv, NEW t \in Task, ReturnAtOnce(t), KeepLeft PROVE QInv'
<1>1. TickMod \in Nat /\ TickMod >= 3 /\ OverflowMod \in Nat \ {0}
  BY TickModAssumption, SchedAssumption
<1>2. NoCall \in CallType /\ NoCall.timeSet = FALSE /\ NoCall.path = "block" /\ NoCall.wait \in portTickType
  BY <1>1 DEF NoCall, NoTimeOut, CallType, portTickType
<1>3. Runs(t, "q_top") /\ call' = [call EXCEPT ![t] = NoCall] /\ pc' = [pc EXCEPT ![t] = "app"] /\ q' = q
      /\ UNCHANGED <<k, lastWake, due>>
  BY DEF ReturnAtOnce, Return, Goto
<1>4. "q_top" \in QPlaces /\ "app" \in Places /\ "app" \notin QPlaces
  BY DEF QPlaces, Places
<1>5. InCall("app", NoCall)
  BY <1>4 DEF InCall
<1>6. "app" \notin Locking \cup QLocking \cup QLocked /\ "q_top" \notin Locking \cup QLocking \cup QLocked
  BY DEF Locking, QLocking, QLocked
<1>7. /\ q \in [messages : 0..Length, txLock : -1..MaxLock, rxLock : -1..MaxLock] /\ t # Idle
      /\ q.txLock = queueUNLOCKED /\ q.rxLock = queueUNLOCKED /\ due \in [Task -> 0..2*TickMod-1]
  BY <1>3, <1>4, <1>6, QueueAssumption, Running
<1>8. Times(k, t, "app", NoCall, due[t], LeftAfter(call[t], NoCall, left[t], 0))
  <2>1. LeftAfter(call[t], NoCall, left[t], 0) = 0
    BY <1>2 DEF LeftAfter
  <2>2. Times(k, t, "app", NoCall, due[t], 0)
    BY <1>2, <1>7, TimesZero
  <2>3. QED
    BY <2>1, <2>2
<1>9. QED
  BY <1>2, <1>3, <1>4, <1>5, <1>6, <1>7, <1>8, StayKeeps, Zenon

\* The block time of a call that has not changed in what counts.
LEMMA TimesLike ==
  ASSUME NEW j, NEW x, NEW p, NEW s, NEW b, NEW c, NEW d, NEW l, Times(j, x, p, b, d, l),
         c.wait = b.wait, c.timeSet = b.timeSet, c.timeout = b.timeout, c.path = "fail" => l = 0,
         s \in {"q_test", "q_place"} => p \in {"q_test", "q_place"}
  PROVE  Times(j, x, s, c, d, l)
<1>1. Noted(c) = Noted(b)
  BY DEF Noted
<1>2. QED
  BY <1>1, Zenon DEF Times

\* What is left of a block time stays while no time passes.
LEMMA LeftSame ==
  ASSUME NEW j, NEW x, NEW p, NEW b, NEW c, NEW d, NEW l, Times(j, x, p, b, d, l),
         c.timeSet = b.timeSet, b.timeSet \in BOOLEAN
  PROVE  LeftAfter(b, c, l, 0) = l
<1>1. l \in Nat /\ (~b.timeSet => l = 0)
  BY Zenon DEF Times
<1>2. QED
  BY <1>1 DEF LeftAfter

\* A difference in rounds is one in ticks.
LEMMA RoundsApart ==
  ASSUME NEW a \in Nat, NEW b \in Nat
  PROVE  /\ a > b => a * TickMod >= b * TickMod + TickMod
         /\ a > b + 1 => a * TickMod >= b * TickMod + 2 * TickMod
<1>1. TickMod \in Nat
  BY TickModAssumption
<1>2. ASSUME a > b PROVE a * TickMod >= b * TickMod + TickMod
  <2> DEFINE m == a - b - 1
  <2>1. m \in Nat /\ a = b + 1 + m
    BY <1>2
  <2> HIDE DEF m
  <2>2. a * TickMod = b * TickMod + TickMod + m * TickMod /\ m * TickMod >= 0
    BY <1>1, <2>1
  <2>3. b * TickMod \in Int /\ m * TickMod \in Int /\ a * TickMod \in Int
    BY <1>1, <2>1
  <2>4. QED
    BY <1>1, <2>2, <2>3
<1>3. ASSUME a > b + 1 PROVE a * TickMod >= b * TickMod + 2 * TickMod
  <2> DEFINE m == a - b - 2
  <2>1. m \in Nat /\ a = b + 2 + m
    BY <1>3
  <2> HIDE DEF m
  <2>2. a * TickMod = b * TickMod + 2 * TickMod + m * TickMod /\ m * TickMod >= 0
    BY <1>1, <2>1
  <2>3. b * TickMod \in Int /\ m * TickMod \in Int /\ a * TickMod \in Int
    BY <1>1, <2>1
  <2>4. QED
    BY <1>1, <2>2, <2>3
<1>4. QED
  BY <1>2, <1>3

\* While block time is left, xTaskCheckForTimeOut() finds just that much.
LEMMA CheckFinds ==
  ASSUME NEW j \in Kernel, NEW c \in CallType, NEW l \in Nat, l > 0, l <= c.wait, c.wait # portMAX_DELAY,
         Now(j) = Noted(c) + (c.wait - l) \/ Now(j) = Noted(c) + (c.wait - l) - Round
  PROVE  ~TimedOut(j.overflows, j.tick, c.timeout, c.wait) /\ TicksLeft(j.tick, c.timeout, c.wait) = l
<1> DEFINE o == j.overflows
           v == c.timeout.overflows
           e == c.timeout.entered
           g == c.wait - l
           x == o * TickMod
           y == v * TickMod
           z == OverflowMod * TickMod
<1>1. /\ TickMod \in Nat /\ TickMod >= 3 /\ j.tick \in 0..TickMod-1 /\ o \in 0..OverflowMod-1
      /\ OverflowMod \in Nat /\ OverflowMod >= 2
  BY TimeFacts
<1>2. c.wait \in 0..TickMod-1 /\ v \in 0..OverflowMod-1 /\ e \in 0..TickMod-1
  BY DEF CallType, portTickType
<1>3. g \in Nat /\ g < c.wait /\ g < TickMod /\ l = c.wait - g
  BY <1>1, <1>2
<1>4. /\ o > v => x >= y + TickMod
      /\ o > v + 1 => x >= y + 2 * TickMod
      /\ v > o => y >= x + TickMod
      /\ OverflowMod > v + 1 => z >= y + 2 * TickMod
      /\ z >= y + TickMod
      /\ o > 0 => x >= TickMod
      /\ o = v => x = y
  <2>1. o \in Nat /\ v \in Nat /\ 0 \in Nat /\ OverflowMod > v
    BY <1>1, <1>2
  <2>2. (o > v => x >= y + TickMod) /\ (o > v + 1 => x >= y + 2 * TickMod)
    BY <2>1, RoundsApart
  <2>3. v > o => y >= x + TickMod
    BY <2>1, RoundsApart
  <2>4. (OverflowMod > v + 1 => z >= y + 2 * TickMod) /\ z >= y + TickMod
    BY <1>1, <2>1, RoundsApart, Zenon
  <2>5. o > 0 => x >= 0 * TickMod + TickMod
    BY <2>1, RoundsApart
  <2>6. 0 * TickMod = 0
    BY <1>1
  <2>7. QED
    BY <1>1, <2>2, <2>3, <2>4, <2>5, <2>6
<1>5. /\ Now(j) = x + j.tick /\ Noted(c) = y + e /\ Round = z /\ x \in Nat /\ y \in Nat /\ z \in Nat
  BY <1>1, <1>2 DEF Now, Noted, Round
<1> HIDE DEF x, y, z
<1>6. x + j.tick = y + e + g \/ x + j.tick + z = y + e + g
  BY <1>1, <1>2, <1>3, <1>5
<1> HIDE DEF g, o, v, e
<1>7. (j.tick = e + g /\ o = v) \/ j.tick + TickMod = e + g
  <2>1. CASE x + j.tick = y + e + g
    <3>1. CASE o = v
      BY <1>1, <1>2, <1>3, <1>4, <1>5, <2>1, <3>1
    <3>2. CASE o > v
      <4>1. ~(o > v + 1)
        BY <1>1, <1>2, <1>3, <1>4, <1>5, <2>1
      <4>2. o = v + 1
        BY <1>1, <1>2, <3>2, <4>1
      <4>3. x = y + TickMod
        BY <1>1, <1>2, <4>2, <1>5 DEF x, y
      <4>4. QED
        BY <1>1, <1>2, <1>3, <1>5, <2>1, <4>3
    <3>3. CASE v > o
      BY <1>1, <1>2, <1>3, <1>4, <1>5, <2>1, <3>3
    <3>4. QED
      BY <1>1, <1>2, <3>1, <3>2, <3>3
  <2>2. CASE x + j.tick + z = y + e + g
    <3>1. ~(OverflowMod > v + 1) /\ ~(o > 0)
      BY <1>1, <1>2, <1>3, <1>4, <1>5, <2>2
    <3>2. o = 0 /\ v = OverflowMod - 1
      BY <1>1, <1>2, <3>1
    <3>3. x = 0 /\ z = y + TickMod
      BY <1>1, <1>2, <3>2 DEF x, y, z
    <3>4. QED
      BY <1>1, <1>2, <1>3, <1>5, <2>2, <3>3
  <2>3. QED
    BY <1>6, <2>1, <2>2
<1>8. Minus(j.tick, e) = g /\ (j.tick >= e => o = v)
  BY <1>1, <1>2, <1>3, <1>7 DEF Minus
<1>9. QED
  BY <1>1, <1>2, <1>3, <1>8 DEF TimedOut, TicksLeft, o, v, e

\* With the fields of a call.
LEMMA CallFields ==
  ASSUME NEW c \in CallType
  PROVE  /\ c.op \in {"none", "send", "receive", "peek"} /\ c.wait \in portTickType /\ c.timeSet \in BOOLEAN
         /\ c.path \in {"block", "retry", "fail"} /\ c.timeout \in [overflows : 0..OverflowMod-1, entered : portTickType]
  BY DEF CallType

\* A call that is to wait notes the time.
LEMMA DecideKeeps == ASSUME QInv, NEW t \in Task, DecideToWait(t), KeepLeft PROVE QInv'
<1> DEFINE b == call[t]
           n == IF b.timeSet THEN b.timeout ELSE vTaskSetTimeOutState
           c == [b EXCEPT !.timeSet = TRUE, !.timeout = n]
<1>1. Runs(t, "q_top") /\ pc' = [pc EXCEPT ![t] = "q_suspend"] /\ q' = q /\ UNCHANGED <<k, lastWake, due>>
  BY DEF DecideToWait, Goto
<1>2. "q_top" \in QPlaces /\ "q_suspend" \in QPlaces /\ "q_top" \notin Parting /\ "q_suspend" # "q_place"
  BY DEF QPlaces, Parting
<1>3. "q_suspend" \notin Locking \cup QLocking \cup QLocked /\ "q_top" \notin Locking \cup QLocking \cup QLocked
  BY DEF Locking, QLocking, QLocked
<1>4. /\ k \in Kernel /\ t # Idle /\ call \in [Task -> CallType] /\ b \in CallType /\ InCall("q_top", b)
      /\ q \in [messages : 0..Length, txLock : -1..MaxLock, rxLock : -1..MaxLock]
      /\ q.txLock = queueUNLOCKED /\ q.rxLock = queueUNLOCKED /\ due \in [Task -> 0..2*TickMod-1]
      /\ FewMissed => Times(k, t, "q_top", b, due[t], left[t])
  BY <1>1, <1>2, <1>3, QueueAssumption, Running
<1>5. call' = [call EXCEPT ![t] = c]
  <2>1. call' = [call EXCEPT ![t].timeSet = TRUE, ![t].timeout = IF call[t].timeSet THEN @ ELSE vTaskSetTimeOutState]
    BY DEF DecideToWait
  <2>2. QED
    BY <1>4, <2>1, Zenon
<1> HIDE DEF b
<1>6. n \in [overflows : 0..OverflowMod-1, entered : portTickType]
  BY <1>4, CallFields DEF vTaskSetTimeOutState, Kernel
<1> HIDE DEF n
<1>7. /\ c \in CallType /\ c.op = b.op /\ c.wait = b.wait /\ c.timeSet = TRUE /\ c.path = b.path /\ c.timeout = n
  BY <1>4, <1>6, Zenon DEF CallType
<1> HIDE DEF c
<1>8. InCall("q_suspend", c) /\ c.path # "fail"
  BY <1>2, <1>4, <1>7 DEF InCall
<1>9. ASSUME FewMissed, ~Awaits(k, t)
      PROVE  Times(k, t, "q_suspend", c, due[t], LeftAfter(b, c, left[t], 0))
  <2>1. Times(k, t, "q_top", b, due[t], left[t])
    BY <1>4, <1>9
  <2>2. CASE b.timeSet
    <3>1. c.timeout = b.timeout /\ c.timeSet = b.timeSet
      BY <1>4, <1>7, <2>2, CallFields, Zenon DEF n
    <3>2. Times(k, t, "q_suspend", c, due[t], left[t])
      BY <1>7, <1>8, <2>1, <3>1, TimesLike
    <3>3. QED
      BY <1>4, <2>1, <3>1, <3>2, LeftSame, CallFields
  <2>3. CASE ~b.timeSet
    <3>1. LeftAfter(b, c, left[t], 0) = c.wait
      BY <1>7, <2>3 DEF LeftAfter
    <3>2. Noted(c) = Now(k)
      BY <1>7, <2>3 DEF n, Noted, Now, vTaskSetTimeOutState
    <3>3. c.wait \in Nat /\ Now(k) \in Int /\ due[t] \in 0..2*TickMod-1
      BY <1>4, <1>7, CallFields, TimeFacts, TickModAssumption DEF portTickType
    <3> DEFINE l == c.wait
               w == Now(k)
    <3>4. l \in Nat /\ l <= c.wait /\ w = w + (c.wait - l)
      BY <3>3
    <3> HIDE DEF l, w
    <3>5. Times(k, t, "q_suspend", c, due[t], l)
      BY <1>7, <1>8, <1>9, <3>2, <3>3, <3>4, Zenon DEF Times, w
    <3>6. QED
      BY <3>1, <3>5 DEF l
  <2>4. QED
    BY <2>2, <2>3
<1>10. FewMissed /\ ~Awaits(k, t) => Times(k, t, "q_suspend", c, due[t], LeftAfter(call[t], c, left[t], 0))
  BY <1>9 DEF b
<1>11. QED
  BY <1>1, <1>2, <1>3, <1>4, <1>5, <1>7, <1>8, <1>10, StayKeeps, Zenon

\* The queue is locked.
LEMMA QueueLockKeeps == ASSUME QInv, NEW t \in Task, prvLockQueue(t), KeepLeft PROVE QInv'
<1>1. Runs(t, "q_lock") /\ pc' = [pc EXCEPT ![t] = "q_check"] /\ UNCHANGED <<k, lastWake, due>> /\ call' = call
      /\ q' = [q EXCEPT !.rxLock = LockedNow(@), !.txLock = LockedNow(@)]
  BY DEF prvLockQueue, Goto
<1>2. "q_lock" \in QPlaces /\ "q_check" \in QPlaces /\ "q_lock" \notin Parting /\ "q_check" \notin Parting
      /\ "q_check" \notin {"q_test", "q_place"}
  BY DEF QPlaces, Parting
<1>3. "q_lock" \in QLocking /\ "q_check" \in QLocking /\ "q_check" \in QLocked
  BY DEF QLocking, QLocked
<1>4. /\ k \in Kernel /\ t # Idle /\ call \in [Task -> CallType] /\ call[t] \in CallType /\ InCall("q_lock", call[t])
      /\ q \in [messages : 0..Length, txLock : -1..MaxLock, rxLock : -1..MaxLock]
      /\ due \in [Task -> 0..2*TickMod-1]
      /\ FewMissed => Times(k, t, "q_lock", call[t], due[t], left[t])
  BY <1>1, <1>2, QueueAssumption, Running
<1>5. InCall("q_check", call[t])
  BY <1>2, <1>4 DEF InCall
<1>6. /\ q' \in [messages : 0..Length, txLock : -1..MaxLock, rxLock : -1..MaxLock]
      /\ q'.txLock # queueUNLOCKED /\ q'.rxLock # queueUNLOCKED
  <2>1. \A x \in -1..MaxLock : LockedNow(x) \in -1..MaxLock /\ LockedNow(x) # queueUNLOCKED
    BY QueueAssumption DEF LockedNow, queueUNLOCKED, queueLOCKED_UNMODIFIED
  <2>2. q'.txLock = LockedNow(q.txLock) /\ q'.rxLock = LockedNow(q.rxLock) /\ q.txLock \in -1..MaxLock /\ q.rxLock \in -1..MaxLock
        /\ q' = [q EXCEPT !.rxLock = LockedNow(q.rxLock), !.txLock = LockedNow(q.txLock)]
    BY <1>1, <1>4, Zenon
  <2>3. QED
    BY <1>4, <2>1, <2>2, Zenon
<1>7. call' = [call EXCEPT ![t] = call[t]]
  BY <1>1, <1>4
<1>8. ASSUME FewMissed PROVE Times(k, t, "q_check", call[t], due[t], LeftAfter(call[t], call[t], left[t], 0))
  <2>1. Times(k, t, "q_lock", call[t], due[t], left[t])
    BY <1>4, <1>8
  <2>2. call[t].path = "fail" => left[t] = 0
    BY <2>1, Zenon DEF Times
  <2>3. Times(k, t, "q_check", call[t], due[t], left[t])
    BY <1>2, <2>1, <2>2, TimesLike
  <2>4. QED
    BY <1>4, <2>1, <2>3, LeftSame, CallFields
<1>9. QED
  BY <1>1, <1>2, <1>3, <1>4, <1>5, <1>6, <1>7, <1>8, StayKeeps, Zenon

\* The queue is looked at again.
LEMMA TestKeeps == ASSUME QInv, NEW t \in Task, TestAgain(t), KeepLeft PROVE QInv'
<1> DEFINE b == call[t]
           must == MustWait(b.op)
           way == IF must THEN "block" ELSE "retry"
           p == IF must THEN "q_place" ELSE "q_unlock"
           c == [b EXCEPT !.path = way]
<1>1. Runs(t, "q_test") /\ pc' = [pc EXCEPT ![t] = p] /\ UNCHANGED <<k, lastWake, due>> /\ q' = q
  BY DEF TestAgain, Goto
<1>2. "q_test" \in QPlaces /\ "q_test" \notin Parting /\ p \in QPlaces /\ way \in {"block", "retry"}
      /\ (p = "q_place" => way = "block")
  BY DEF QPlaces, Parting
<1>3. "q_test" \in QLocking /\ p \in QLocking /\ "q_test" \in QLocked /\ p \in QLocked
  BY DEF QLocking, QLocked
<1>4. /\ k \in Kernel /\ t # Idle /\ call \in [Task -> CallType] /\ b \in CallType /\ InCall("q_test", b)
      /\ q \in [messages : 0..Length, txLock : -1..MaxLock, rxLock : -1..MaxLock]
      /\ q.txLock # queueUNLOCKED /\ q.rxLock # queueUNLOCKED
      /\ due \in [Task -> 0..2*TickMod-1]
      /\ FewMissed => Times(k, t, "q_test", b, due[t], left[t])
  BY <1>1, <1>2, <1>3, QueueAssumption, Running
<1>5. call' = [call EXCEPT ![t] = c]
  <2>1. call' = [call EXCEPT ![t].path = way]
    BY DEF TestAgain
  <2>2. QED
    BY <1>4, <2>1, Zenon
<1> HIDE DEF b, way, p
<1>6. c \in CallType /\ c.op = b.op /\ c.wait = b.wait /\ c.timeSet = b.timeSet /\ c.timeout = b.timeout /\ c.path = way
  BY <1>2, <1>4, Zenon DEF CallType
<1> HIDE DEF c
<1>7. InCall(p, c)
  BY <1>2, <1>4, <1>6 DEF InCall
<1>8. ASSUME FewMissed PROVE Times(k, t, p, c, due[t], LeftAfter(b, c, left[t], 0))
  <2>1. Times(k, t, "q_test", b, due[t], left[t])
    BY <1>4, <1>8
  <2>2. c.path = "fail" => left[t] = 0
    BY <1>2, <1>6
  <2>3. Times(k, t, p, c, due[t], left[t])
    BY <1>6, <2>1, <2>2, TimesLike
  <2>4. QED
    BY <1>4, <1>6, <2>1, <2>3, LeftSame, CallFields
<1>9. FewMissed /\ ~Awaits(k, t) => Times(k, t, p, c, due[t], LeftAfter(call[t], c, left[t], 0))
  BY <1>8 DEF b
<1>10. QED
  BY <1>1, <1>2, <1>3, <1>4, <1>5, <1>6, <1>7, <1>9, StayKeeps, Zenon

\* The block time is looked at: it is up, or what is left of it is noted.
LEMMA CheckTimeOutKeeps == ASSUME QInv, NEW t \in Task, xTaskCheckForTimeOut(t), KeepLeft PROVE QInv'
<1> DEFINE b == call[t]
           out == TimedOut(k.overflows, k.tick, b.timeout, b.wait)
           n == IF b.wait = portMAX_DELAY THEN b.timeout ELSE vTaskSetTimeOutState
           w == TicksLeft(k.tick, b.timeout, b.wait)
<1>1. Runs(t, "q_check") /\ UNCHANGED <<k, lastWake, due>> /\ q' = q
  BY DEF xTaskCheckForTimeOut
<1>2. /\ "q_check" \in QPlaces /\ "q_check" \notin Parting /\ "q_unlock" \in QPlaces /\ "q_test" \in QPlaces
      /\ "q_unlock" \in Parting /\ "q_test" \notin Parting
  BY DEF QPlaces, Parting
<1>3. {"q_check", "q_test", "q_unlock"} \subseteq QLocking /\ {"q_check", "q_test", "q_unlock"} \subseteq QLocked
  BY DEF QLocking, QLocked
<1>4. /\ k \in Kernel /\ t # Idle /\ call \in [Task -> CallType] /\ b \in CallType /\ InCall("q_check", b)
      /\ q \in [messages : 0..Length, txLock : -1..MaxLock, rxLock : -1..MaxLock]
      /\ q.txLock # queueUNLOCKED /\ q.rxLock # queueUNLOCKED
      /\ due \in [Task -> 0..2*TickMod-1]
      /\ FewMissed => Times(k, t, "q_check", b, due[t], left[t])
  BY <1>1, <1>2, <1>3, QueueAssumption, Running
<1>5. FewMissed /\ b.timeSet /\ left[t] > 0 /\ b.wait # portMAX_DELAY => ~out /\ w = left[t]
  <2> SUFFICES ASSUME FewMissed, b.timeSet, left[t] > 0, b.wait # portMAX_DELAY PROVE ~out /\ w = left[t]
    OBVIOUS
  <2>1. Times(k, t, "q_check", b, due[t], left[t])
    BY <1>4
  <2>2. left[t] \in Nat /\ left[t] <= b.wait
        /\ (Now(k) = Noted(b) + (b.wait - left[t]) \/ Now(k) = Noted(b) + (b.wait - left[t]) - Round)
    BY <2>1, Zenon DEF Times
  <2>3. QED
    BY <1>4, <2>2, CheckFinds
<1>6. FewMissed => left[t] \in Nat /\ (~b.timeSet => left[t] = 0) /\ (b.timeSet => left[t] <= b.wait)
  BY <1>4, Zenon DEF Times
<1>7. CASE out
  <2> DEFINE c == [b EXCEPT !.path = "fail"]
  <2>1. call' = [call EXCEPT ![t].path = "fail"] /\ pc' = [pc EXCEPT ![t] = "q_unlock"]
    BY <1>7 DEF xTaskCheckForTimeOut, Goto
  <2>2. call' = [call EXCEPT ![t] = c]
    BY <1>4, <2>1, Zenon
  <2>3. b.wait # portMAX_DELAY
    BY <1>7 DEF TimedOut
  <2>4. FewMissed => left[t] = 0
    BY <1>4, <1>5, <1>6, <1>7, <2>3, CallFields
  <2> HIDE DEF b, out
  <2>5. c \in CallType /\ c.op = b.op /\ c.wait = b.wait /\ c.timeSet = b.timeSet /\ c.timeout = b.timeout /\ c.path = "fail"
    BY <1>4, Zenon DEF CallType
  <2> HIDE DEF c
  <2>6. InCall("q_unlock", c)
    BY <1>2, <1>4, <2>5 DEF InCall
  <2>7. ASSUME FewMissed PROVE Times(k, t, "q_unlock", c, due[t], LeftAfter(b, c, left[t], 0))
    <3>1. Times(k, t, "q_check", b, due[t], left[t])
      BY <1>4, <2>7
    <3>2. Times(k, t, "q_unlock", c, due[t], left[t])
      BY <2>4, <2>5, <2>7, <3>1, TimesLike
    <3>3. QED
      BY <1>4, <2>5, <3>1, <3>2, LeftSame, CallFields
  <2>8. FewMissed /\ ~Awaits(k, t) => Times(k, t, "q_unlock", c, due[t], LeftAfter(call[t], c, left[t], 0))
    BY <2>7 DEF b
  <2>9. QED
    BY <1>1, <1>2, <1>3, <1>4, <2>1, <2>2, <2>5, <2>6, <2>8, StayKeeps, Zenon
<1>8. CASE ~out
  <2> DEFINE c == [b EXCEPT !.wait = w, !.timeout = n]
  <2>1. call' = [call EXCEPT ![t].wait = TicksLeft(k.tick, call[t].timeout, @),
                             ![t].timeout = IF call[t].wait = portMAX_DELAY THEN @ ELSE vTaskSetTimeOutState]
        /\ pc' = [pc EXCEPT ![t] = "q_test"]
    BY <1>8 DEF xTaskCheckForTimeOut, Goto
  <2>2. call' = [call EXCEPT ![t] = c]
    BY <1>4, <2>1, Zenon
  <2>3. w \in portTickType /\ (b.wait = portMAX_DELAY => w = b.wait)
    <3>1. b.wait \in portTickType /\ b.timeout.entered \in portTickType /\ k.tick \in portTickType
      BY <1>4, CallFields, Zenon DEF Kernel
    <3>2. CASE b.wait = portMAX_DELAY
      BY <3>1, <3>2 DEF TicksLeft
    <3>3. CASE b.wait # portMAX_DELAY
      <4>1. ~(Minus(k.tick, b.timeout.entered) >= b.wait)
        BY <1>8, <3>3 DEF TimedOut
      <4>2. w = b.wait - Minus(k.tick, b.timeout.entered)
        BY <3>3 DEF TicksLeft
      <4>3. QED
        BY <3>1, <3>3, <4>1, <4>2, TickModAssumption DEF Minus, portTickType
    <3>4. QED
      BY <3>2, <3>3
  <2>4. n \in [overflows : 0..OverflowMod-1, entered : portTickType]
    BY <1>4, CallFields DEF vTaskSetTimeOutState, Kernel
  <2> HIDE DEF b, out, n, w
  <2>5. c \in CallType /\ c.op = b.op /\ c.wait = w /\ c.timeSet = b.timeSet /\ c.timeout = n /\ c.path = b.path
    BY <1>4, <2>3, <2>4, Zenon DEF CallType
  <2> HIDE DEF c
  <2>6. InCall("q_test", c) /\ c.path # "fail"
    BY <1>2, <1>4, <2>5 DEF InCall
  <2>7. ASSUME FewMissed, ~Awaits(k, t) PROVE Times(k, t, "q_test", c, due[t], LeftAfter(b, c, left[t], 0))
    <3>1. Times(k, t, "q_check", b, due[t], left[t]) /\ due[t] \in 0..2*TickMod-1
      BY <1>4, <2>7
    <3>2. LeftAfter(b, c, left[t], 0) = left[t]
      BY <1>4, <2>5, <3>1, LeftSame, CallFields
    <3> DEFINE l == left[t]
    <3>3. l \in Nat /\ (IF c.timeSet THEN l <= c.wait ELSE l = 0) /\ (c.wait # portMAX_DELAY => l = 0 \/ l = c.wait)
      <4>1. c.wait \in Nat
        BY <2>3, <2>5, TickModAssumption DEF portTickType
      <4>2. CASE l = 0
        BY <1>4, <4>1, <4>2, CallFields
      <4>3. CASE l # 0 /\ b.wait # portMAX_DELAY
        <5>1. b.timeSet /\ l > 0
          BY <1>4, <1>6, <2>7, <4>3, CallFields
        <5>2. w = l
          BY <1>5, <2>7, <4>3, <5>1
        <5>3. QED
          BY <1>6, <2>5, <2>7, <5>1, <5>2
      <4>4. CASE l # 0 /\ b.wait = portMAX_DELAY
        <5>1. c.wait = b.wait
          BY <2>3, <2>5, <4>4
        <5>2. QED
          BY <1>4, <1>6, <2>5, <2>7, <4>4, <5>1, CallFields
      <4>5. QED
        BY <4>2, <4>3, <4>4
    <3>4. ASSUME l > 0, c.wait # portMAX_DELAY PROVE Now(k) = Noted(c) + (c.wait - l)
      <4>1. b.wait # portMAX_DELAY
        BY <2>3, <2>5, <3>4
      <4>2. Noted(c) = Now(k)
        BY <2>5, <4>1 DEF n, Noted, Now, vTaskSetTimeOutState
      <4>3. l = c.wait
        BY <3>3, <3>4
      <4>4. Now(k) \in Int
        BY <1>4, TimeFacts
      <4>5. QED
        BY <3>3, <4>2, <4>3, <4>4
    <3> HIDE DEF l
    <3>5. Times(k, t, "q_test", c, due[t], l)
      BY <2>6, <2>7, <3>1, <3>3, <3>4, Zenon DEF Times
    <3>6. QED
      BY <3>2, <3>5 DEF l
  <2>8. FewMissed /\ ~Awaits(k, t) => Times(k, t, "q_test", c, due[t], LeftAfter(call[t], c, left[t], 0))
    BY <2>7 DEF b
  <2>9. QED
    BY <1>1, <1>2, <1>3, <1>4, <2>1, <2>2, <2>5, <2>6, <2>8, StayKeeps, Zenon
<1>9. QED
  BY <1>7, <1>8

-----------------------------------------------------------------------------
(* The steps of a call, and of an interrupt, that wake tasks or let another *)
(* one run.                                                                 *)

\* The running task t goes to p, and its call goes on or ends.
LEMMA WokenKeeps ==
  ASSUME QInv, NEW t \in Task, t = k.current, NEW p \in Places \cup QPlaces, t # Idle \/ p = pc[t],
         pc' = [pc EXCEPT ![t] = p],
         NEW c \in CallType, call' = [call EXCEPT ![t] = c], InCall(p, c), c = call[t] \/ (c = NoCall /\ ~Awaits(k, t)),
         Fit(k', {}), Onward(k, k'), Apart(k'), ToSet(k.terminating) \subseteq ToSet(k'.terminating),
         k'.susp = 1 <=> p \in Locking \cup QLocking, k'.susp = 1 => k'.current = t,
         IsReady(k', k'.current) \/ (k'.current = t /\ Leaving(pc', call', t)),
         q' \in [messages : 0..Length, txLock : -1..MaxLock, rxLock : -1..MaxLock],
         q'.txLock # queueUNLOCKED <=> p \in QLocked, q'.rxLock # queueUNLOCKED <=> p \in QLocked \cup {"q_unlock_rx"},
         Elapses(k, k'), KeepDue \/ due' = due,
         p \in {"q_test", "q_place"} => p = pc[t] /\ k'.tick = k.tick /\ k'.overflows = k.overflows,
         KeepLeft, lastWake' = lastWake
  PROVE  QInv'
<1>1. /\ Core(k, pc, call) /\ k \in Kernel /\ call \in [Task -> CallType] /\ pc \in [Task -> Places \cup QPlaces]
      /\ due \in [Task -> 0..2*TickMod-1] /\ Timely(k, pc, call, due, left)
  BY DEF QInv, Base, Core, Fit
<1>2. k' \in Kernel
  BY DEF Fit
<1>3. Waiters(k', call')
  <2>1. c = call[t] \/ ~Awaits(k, t)
    OBVIOUS
  <2>2. QED
    BY <2>1, WaitersKept, Zenon
<1>4. /\ due' \in [Task -> 0..2*TickMod-1]
      /\ \A x \in Task : Awaits(k', x) /\ IsDelayed(k', x) => due'[x] = due[x]
  BY <1>1, KeepDueSame
<1>5. \A x \in Task : Awaits(k', x) /\ call'[x].wait # portMAX_DELAY => Awaits(k, x) /\ due'[x] = due[x]
  BY <1>3, <1>4, WaitingDelayed, OnwardAwaits, Zenon
<1>6. \A x \in Task \ {t} : Awaits(k', x) /\ call[x].wait # portMAX_DELAY => Awaits(k, x) /\ due'[x] = due[x]
  BY <1>1, <1>5
<1>7. ASSUME FewMissed PROVE Times(k', t, p, c, due'[t], left'[t])
  <2>1. pc'[t] = p /\ call'[t] = c
    BY <1>1
  <2>2. CASE c = call[t]
    <3>1. \/ pc'[t] \notin {"q_test", "q_place"}
          \/ pc[t] \in {"q_test", "q_place"} /\ k'.tick = k.tick /\ k'.overflows = k.overflows
      BY <2>1
    <3>2. Awaits(k', t) /\ call[t].wait # portMAX_DELAY => Awaits(k, t) /\ due'[t] = due[t]
      BY <1>5, <2>1, <2>2
    <3>3. call'[t] = call[t]
      BY <2>1, <2>2
    <3>4. Times(k', t, pc'[t], call'[t], due'[t], left'[t])
      BY <1>1, <1>2, <1>4, <1>7, <3>1, <3>2, <3>3, TimelySame
    <3>5. QED
      BY <2>1, <3>4
  <2>3. CASE c = NoCall
    <3>1. c.timeSet = FALSE
      BY <2>3 DEF NoCall
    <3>2. PICK n \in 0..MaxMissed : Passed(k, k', n)
      BY <1>7 DEF Elapses
    <3>3. n \in Nat /\ n < 2 * TickMod
      BY <1>7, <3>2, SchedAssumption, TickModAssumption DEF FewMissed
    <3>4. left'[t] = LeftAfter(call[t], call'[t], left[t], n)
      BY <1>1, <1>2, <3>2, <3>3, KeepLeftIs
    <3>5. left'[t] = 0
      BY <2>1, <3>1, <3>4 DEF LeftAfter
    <3>6. due'[t] \in 0..2*TickMod-1 /\ c.wait \in portTickType
      BY <1>4, CallFields
    <3>7. QED
      BY <3>5, <3>6, TimesZero
  <2>4. QED
    BY <2>2, <2>3
<1>8. QED
  BY <1>3, <1>4, <1>6, <1>7, MovedKeeps, Zenon

\* The task that runs next is ready, or still on its way to block.
LEMMA PickedReady ==
  ASSUME NEW j, NEW r, Fit(r, {}), Picks(j, r), \A x : IsReady(j, x) => IsReady(r, x)
  PROVE  IsReady(r, r.current) \/ (r.current = j.current /\ ~IsReady(j, j.current))
<1>1. r.prio[r.current] \in Priority
  BY DEF Fit, Kernel
<1>2. Chosen(r) => IsReady(r, r.current)
  BY <1>1 DEF Chosen, IsReady
<1>3. QED
  BY <1>2 DEF Picks

\* The scheduler is suspended.
LEMMA QueueSuspendKeeps == ASSUME QInv, NEW t \in Task, SuspendAll(t), KeepLeft PROVE QInv'
<1>1. Runs(t, "q_suspend") /\ pc' = [pc EXCEPT ![t] = "q_lock"] /\ q' = q /\ call' = call /\ due' = due
      /\ lastWake' = lastWake /\ k' = vTaskSuspendAll(k)
  BY DEF SuspendAll, Goto
<1>2. "q_suspend" \in QPlaces /\ "q_lock" \in QPlaces /\ "q_suspend" \notin Parting /\ "q_lock" \notin Parting
      /\ "q_suspend" \notin {"yield", "resume", "q_yield"}
  BY DEF QPlaces, Parting
<1>3. "q_suspend" \notin Locking \cup QLocking \cup QLocked /\ "q_lock" \in QLocking /\ "q_lock" \notin QLocked
  BY DEF Locking, QLocking, QLocked
<1>4. /\ k \in Kernel /\ Fit(k, {}) /\ Apart(k) /\ t # Idle /\ k.current = t /\ k.susp = 0
      /\ call \in [Task -> CallType] /\ call[t] \in CallType /\ InCall("q_suspend", call[t])
      /\ q \in [messages : 0..Length, txLock : -1..MaxLock, rxLock : -1..MaxLock]
      /\ q.txLock = queueUNLOCKED /\ q.rxLock = queueUNLOCKED
  BY <1>1, <1>2, <1>3, QueueAssumption, Running
<1>5. /\ Woken(k, k') /\ k'.susp = 1 /\ k'.current = t /\ k'.tick = k.tick /\ k'.overflows = k.overflows /\ Apart(k')
  BY <1>1, <1>4, SuspendAllOnward
<1>6. ~Leaving(pc, call, t)
  BY <1>1, <1>2 DEF Leaving, Runs
<1>7. IsReady(k', k'.current)
  BY <1>4, <1>5, <1>6, RunningReady DEF Woken
<1>8. InCall("q_lock", call[t]) /\ call' = [call EXCEPT ![t] = call[t]]
  BY <1>1, <1>2, <1>4 DEF InCall
<1>9. Elapses(k, k')
  BY <1>4, <1>5, StillPassed
<1>10. Fit(k', {}) /\ Onward(k, k') /\ ToSet(k.terminating) \subseteq ToSet(k'.terminating)
  BY <1>5 DEF Woken
<1>11. QED
  BY <1>1, <1>2, <1>3, <1>4, <1>5, <1>7, <1>8, <1>9, <1>10, WokenKeeps, Zenon

\* A call that has blocked yields.
LEMMA QueueYieldKeeps ==
  ASSUME QInv, NEW t \in Task, taskYIELD(t, "q_yield", "q_top"), UNCHANGED <<q, call>>, KeepLeft
  PROVE  QInv'
<1>1. Runs(t, "q_yield") /\ pc' = [pc EXCEPT ![t] = "q_top"] /\ q' = q /\ call' = call /\ KeepDue
      /\ lastWake' = lastWake /\ k' = vTaskSwitchContext(k)
  BY DEF taskYIELD, Goto
<1>2. "q_yield" \in QPlaces /\ "q_top" \in QPlaces /\ "q_yield" \notin Parting /\ "q_top" \notin Parting /\ "q_top" # "q_place"
      /\ "q_top" \notin {"q_test", "q_place"}
  BY DEF QPlaces, Parting
<1>3. "q_yield" \notin Locking \cup QLocking \cup QLocked \cup {"q_unlock_rx"} /\ "q_top" \notin Locking \cup QLocking \cup QLocked \cup {"q_unlock_rx"}
  BY DEF Locking, QLocking, QLocked
<1>4. /\ k \in Kernel /\ Fit(k, {}) /\ Apart(k) /\ t # Idle /\ k.current = t /\ k.susp = 0
      /\ call \in [Task -> CallType] /\ call[t] \in CallType /\ InCall("q_yield", call[t])
      /\ q \in [messages : 0..Length, txLock : -1..MaxLock, rxLock : -1..MaxLock]
      /\ q.txLock = queueUNLOCKED /\ q.rxLock = queueUNLOCKED
  BY <1>1, <1>2, <1>3, QueueAssumption, Running
<1>5. /\ Woken(k, k') /\ Still(k, k') /\ k'.pending = k.pending /\ Chosen(k')
  BY <1>1, <1>4, SwitchWoken
<1>6. k'.susp = 0 /\ Elapses(k, k') /\ Fit(k', {}) /\ Onward(k, k') /\ ToSet(k.terminating) \subseteq ToSet(k'.terminating)
  BY <1>4, <1>5, StillPassed DEF Woken, Still
<1>7. Apart(k')
  BY <1>4, <1>5, <1>6, ApartOnward DEF Apart
<1>8. IsReady(k', k'.current)
  <2>1. k'.prio[k'.current] \in Priority
    BY <1>6 DEF Fit, Kernel
  <2>2. QED
    BY <1>5, <2>1 DEF Chosen, IsReady
<1>9. InCall("q_top", call[t]) /\ call' = [call EXCEPT ![t] = call[t]]
  BY <1>1, <1>2, <1>4 DEF InCall
<1>10. /\ k'.susp = 1 <=> "q_top" \in Locking \cup QLocking
       /\ k'.susp = 1 => k'.current = t
       /\ q' \in [messages : 0..Length, txLock : -1..MaxLock, rxLock : -1..MaxLock]
       /\ q'.txLock # queueUNLOCKED <=> "q_top" \in QLocked
       /\ q'.rxLock # queueUNLOCKED <=> "q_top" \in QLocked \cup {"q_unlock_rx"}
  BY <1>1, <1>3, <1>4, <1>6
<1> DEFINE p == "q_top"
           c == call[t]
<1>11. /\ p \in Places \cup QPlaces /\ pc' = [pc EXCEPT ![t] = p] /\ InCall(p, c) /\ c \in CallType /\ c = call[t]
       /\ call' = [call EXCEPT ![t] = c] /\ (p \in {"q_test", "q_place"} => p = pc[t] /\ k'.tick = k.tick /\ k'.overflows = k.overflows)
  BY <1>1, <1>2, <1>4, <1>9, Zenon
<1>12. /\ k'.susp = 1 <=> p \in Locking \cup QLocking
       /\ q'.txLock # queueUNLOCKED <=> p \in QLocked
       /\ q'.rxLock # queueUNLOCKED <=> p \in QLocked \cup {"q_unlock_rx"}
  BY <1>10
<1> HIDE DEF p, c
<1>13. QED
  BY <1>1, <1>4, <1>6, <1>7, <1>8, <1>10, <1>11, <1>12, WokenKeeps, Zenon

\* Each of the two critical sections of prvUnlockQueue().
LEMMA UnlockKeeps ==
  ASSUME QInv, NEW t \in Task, UnlockTx(t) \/ UnlockRx(t), KeepLeft
  PROVE  QInv'
<1> DEFINE tx == pc[t] = "q_unlock"
           o == IF tx THEN "q_unlock" ELSE "q_unlock_rx"
           p == IF tx THEN "q_unlock_rx" ELSE "q_resume"
           l == IF tx THEN "toReceive" ELSE "toSend"
           lock == IF tx THEN q.txLock ELSE q.rxLock
<1>1. /\ Runs(t, o) /\ pc' = [pc EXCEPT ![t] = p] /\ call' = call /\ due' = due /\ lastWake' = lastWake
      /\ k' = WakeCounted(k, l, lock)
      /\ q' = IF tx THEN [q EXCEPT !.txLock = queueUNLOCKED] ELSE [q EXCEPT !.rxLock = queueUNLOCKED]
  <2>1. CASE UnlockTx(t)
    BY <2>1 DEF UnlockTx, Goto, Runs
  <2>2. CASE UnlockRx(t)
    BY <2>2 DEF UnlockRx, Goto, Runs
  <2>3. QED
    BY <2>1, <2>2
<1>2. /\ o \in QPlaces /\ p \in QPlaces /\ o \in Parting /\ p \in Parting /\ p \notin {"q_test", "q_place"}
      /\ o \in QLocking /\ p \in QLocking /\ (o \in QLocked <=> tx) /\ p \notin QLocked
      /\ (p = "q_unlock_rx" <=> tx) /\ (o = "q_unlock_rx" <=> ~tx) /\ l \in EventList
  BY QueueAssumption DEF QPlaces, Parting, QLocking, QLocked
<1> HIDE DEF o, p, l
<1>3. /\ k \in Kernel /\ Fit(k, {}) /\ Apart(k) /\ t # Idle /\ k.current = t /\ k.susp = 1
      /\ call \in [Task -> CallType] /\ call[t] \in CallType /\ InCall(o, call[t])
      /\ q \in [messages : 0..Length, txLock : -1..MaxLock, rxLock : -1..MaxLock]
      /\ q.txLock # queueUNLOCKED <=> o \in QLocked
      /\ q.rxLock # queueUNLOCKED <=> o \in QLocked \cup {"q_unlock_rx"}
  BY <1>1, <1>2, QueueAssumption, Running
<1>4. lock \in Int /\ MaxLock \in Nat
  BY <1>3, QueueAssumption
<1>5. PICK W : Released(k, k', W)
  BY <1>1, <1>2, <1>3, <1>4, WakeCountedReleases
<1>6. /\ Fit(k', {}) /\ Onward(k, k') /\ Apart(k') /\ k'.current = t /\ k'.susp = 1 /\ k'.tick = k.tick /\ k'.overflows = k.overflows
      /\ ToSet(k.terminating) \subseteq ToSet(k'.terminating) /\ \A x : IsReady(k, x) => IsReady(k', x)
  BY <1>3, <1>5 DEF Released, Woken, Still
<1>7. IsReady(k', k'.current) \/ (k'.current = t /\ Leaving(pc', call', t))
  <2>1. CASE call[t].path = "block"
    <3>1. pc \in [Task -> Places \cup QPlaces]
      BY DEF QInv, Base, Core
    <3>2. pc'[t] \in Parting /\ call'[t].path = "block"
      BY <1>1, <1>2, <2>1, <3>1
    <3>3. QED
      BY <1>6, <3>2 DEF Leaving
  <2>2. CASE call[t].path # "block"
    <3>1. o \notin {"yield", "resume", "q_yield"}
      BY DEF o
    <3>2. ~Leaving(pc, call, t)
      BY <1>1, <2>2, <3>1 DEF Leaving, Runs
    <3>3. QED
      BY <1>3, <1>6, <3>2, RunningReady
  <2>3. QED
    BY <2>1, <2>2
<1>8. InCall(p, call[t]) /\ call' = [call EXCEPT ![t] = call[t]]
  BY <1>1, <1>2, <1>3 DEF InCall
<1>9. /\ q' \in [messages : 0..Length, txLock : -1..MaxLock, rxLock : -1..MaxLock]
      /\ q'.txLock # queueUNLOCKED <=> p \in QLocked
      /\ q'.rxLock # queueUNLOCKED <=> p \in QLocked \cup {"q_unlock_rx"}
  <2>1. queueUNLOCKED \in -1..MaxLock
    BY <1>4 DEF queueUNLOCKED
  <2>2. QED
    BY <1>1, <1>2, <1>3, <2>1
<1>10. Elapses(k, k')
  BY <1>3, <1>6, StillPassed
<1>11. QED
  BY <1>1, <1>2, <1>3, <1>6, <1>7, <1>8, <1>9, <1>10, WokenKeeps, Zenon

\* The scheduler is resumed, and what the ticks that were missed have to do is
\* made up for.
LEMMA QueueResumeKeeps == ASSUME QInv, NEW t \in Task, QueueResume(t), KeepLeft PROVE QInv'
<1> DEFINE path == call[t].path
           r == xTaskResumeAll(k)
           p == IF path = "fail" THEN "app" ELSE IF path = "block" /\ ~r.yielded THEN "q_yield" ELSE "q_top"
           c == IF path = "fail" THEN NoCall ELSE call[t]
<1>1. "q_resume" \in QPlaces /\ "q_resume" \in Parting /\ "q_resume" \in QLocking
      /\ "q_resume" \notin QLocked \cup {"q_unlock_rx"} /\ "q_resume" \notin {"yield", "resume", "q_yield"}
  BY DEF QPlaces, Parting, QLocking, QLocked
<1>2. Runs(t, "q_resume") /\ k' = r.k /\ KeepDue /\ lastWake' = lastWake /\ q' = q
  BY DEF QueueResume, ResumeAll
<1>3. /\ k \in Kernel /\ Fit(k, {}) /\ Apart(k) /\ t # Idle /\ k.current = t /\ k.susp = 1
      /\ call \in [Task -> CallType] /\ call[t] \in CallType /\ InCall("q_resume", call[t])
      /\ q \in [messages : 0..Length, txLock : -1..MaxLock, rxLock : -1..MaxLock]
      /\ q.txLock = queueUNLOCKED /\ q.rxLock = queueUNLOCKED
  BY <1>1, <1>2, QueueAssumption, Running
<1>4. path \in {"block", "retry", "fail"} /\ r.yielded \in BOOLEAN
  BY <1>3, CallFields, ResumeWoken
<1>5. pc' = [pc EXCEPT ![t] = p] /\ call' = [call EXCEPT ![t] = c]
  <2>1. pc' = [pc EXCEPT ![t] = IF r.yielded THEN (IF path = "fail" THEN "app" ELSE "q_top")
                 ELSE CASE path = "block" -> "q_yield" [] path = "retry" -> "q_top" [] path = "fail" -> "app"]
    BY DEF QueueResume, ResumeAll, Goto
  <2>2. call' = IF path = "fail" THEN [call EXCEPT ![t] = NoCall] ELSE call
    BY DEF QueueResume
  <2> HIDE DEF r
  <2>3. call' = [call EXCEPT ![t] = c]
    BY <1>3, <2>2, Zenon
  <2>4. CASE path = "block"
    BY <1>4, <2>1, <2>3, <2>4, Zenon
  <2>5. CASE path = "retry"
    BY <1>4, <2>1, <2>3, <2>5
  <2>6. CASE path = "fail"
    BY <1>4, <2>1, <2>3, <2>6
  <2>7. QED
    BY <1>4, <2>4, <2>5, <2>6
<1>6. /\ Woken(k, r.k) /\ Elapses(k, r.k) /\ r.k.susp = 0 /\ ToSet(r.k.pending) = {}
      /\ IF r.yielded THEN Chosen(r.k) ELSE r.k.current = k.current
  BY <1>3, ResumeWoken
<1>7. p \in {"app", "q_top", "q_yield"} /\ p \in Places \cup QPlaces /\ p \notin {"q_test", "q_place"}
      /\ p \notin Locking \cup QLocking /\ p \notin QLocked \cup {"q_unlock_rx"}
      /\ (path = "fail" => p = "app") /\ (path = "block" /\ ~r.yielded => p = "q_yield")
  BY DEF Places, QPlaces, QLocking, QLocked, Locking
<1> HIDE DEF r, p
<1>8. /\ Woken(k, k') /\ Elapses(k, k') /\ k'.susp = 0 /\ ToSet(k'.pending) = {} /\ k' \in Kernel
      /\ IF r.yielded THEN Chosen(k') ELSE k'.current = k.current
  BY <1>2, <1>6 DEF Woken, Fit
<1>9. /\ Fit(k', {}) /\ Onward(k, k') /\ ToSet(k.terminating) \subseteq ToSet(k'.terminating)
      /\ \A x : IsReady(k, x) => IsReady(k', x)
  BY <1>8 DEF Woken
<1>10. Apart(k')
  BY <1>3, <1>8, <1>9, ApartOnward
<1>11. path # "block" => ~Awaits(k, t) /\ IsReady(k, t)
  <2>1. path # "block" => ~Leaving(pc, call, t)
    BY <1>1, <1>2 DEF Leaving, Runs
  <2>2. QED
    BY <1>3, <2>1, RunningReady
<1>12. c \in CallType /\ InCall(p, c) /\ (c = call[t] \/ (c = NoCall /\ ~Awaits(k, t)))
  <2>1. NoCall \in CallType
    BY SchedAssumption, TickModAssumption DEF NoCall, NoTimeOut, CallType, portTickType
  <2>2. InCall(p, c)
    <3>1. CASE path = "fail"
      <4>1. "app" \notin QPlaces
        BY DEF QPlaces
      <4>2. QED
        BY <1>7, <3>1, <4>1 DEF InCall
    <3>2. CASE path # "fail"
      BY <1>1, <1>3, <1>7, <3>2 DEF InCall
    <3>3. QED
      BY <3>1, <3>2
  <2>3. QED
    BY <1>3, <1>11, <2>1, <2>2
<1>13. IsReady(k', k'.current) \/ (k'.current = t /\ Leaving(pc', call', t))
  <2>1. CASE r.yielded
    <3>1. k'.prio[k'.current] \in Priority
      BY <1>8 DEF Kernel
    <3>2. QED
      BY <1>8, <2>1, <3>1 DEF Chosen, IsReady
  <2>2. CASE ~r.yielded /\ path # "block"
    BY <1>3, <1>8, <1>9, <1>11, <2>2
  <2>3. CASE ~r.yielded /\ path = "block"
    <3>1. pc \in [Task -> Places \cup QPlaces]
      BY DEF QInv, Base, Core
    <3>2. pc'[t] = "q_yield"
      BY <1>5, <1>7, <2>3, <3>1
    <3>3. QED
      BY <1>3, <1>8, <2>3, <3>2 DEF Leaving
  <2>4. QED
    BY <1>4, <2>1, <2>2, <2>3
<1> HIDE DEF c
<1>14. /\ k'.susp = 1 <=> p \in Locking \cup QLocking
       /\ k'.susp = 1 => k'.current = t
       /\ q' \in [messages : 0..Length, txLock : -1..MaxLock, rxLock : -1..MaxLock]
       /\ q'.txLock # queueUNLOCKED <=> p \in QLocked
       /\ q'.rxLock # queueUNLOCKED <=> p \in QLocked \cup {"q_unlock_rx"}
       /\ p \in {"q_test", "q_place"} => p = pc[t] /\ k'.tick = k.tick /\ k'.overflows = k.overflows
  BY <1>2, <1>3, <1>7, <1>8
<1>15. t = k.current /\ t # Idle
  BY <1>3
<1>16. QED
  BY <1>2, <1>5, <1>7, <1>8, <1>9, <1>10, <1>12, <1>13, <1>14, <1>15, WokenKeeps, Zenon

\* The transfer of an item, or of none, ends the call; j is the kernel when a
\* waiting task is woken.
LEMMA ReturnKeeps ==
  ASSUME QInv, NEW t \in Task, Runs(t, "q_top"), ~MustWait(call[t].op),
         q' = [q EXCEPT !.messages = Transferred(call[t].op)],
         NEW j, Fit(j, {}), Onward(k, j), Apart(j), Still(k, j), j.current = k.current, IsReady(j, t),
         j.terminating = k.terminating, NEW l \in EventList, Served(j, k', l),
         Return(t), KeepDue, lastWake' = lastWake, KeepLeft
  PROVE  QInv'
<1> DEFINE p == "app"
           c == NoCall
<1>1. "q_top" \in QPlaces /\ "q_top" \notin Parting /\ "q_top" \notin {"yield", "resume", "q_yield"}
      /\ "q_top" \notin Locking \cup QLocking /\ "q_top" \notin QLocked \cup {"q_unlock_rx"}
  BY DEF QPlaces, Parting, QLocking, QLocked, Locking
<1>2. /\ k \in Kernel /\ Fit(k, {}) /\ Apart(k) /\ t # Idle /\ k.current = t /\ k.susp = 0
      /\ call \in [Task -> CallType] /\ call[t] \in CallType /\ InCall("q_top", call[t])
      /\ q \in [messages : 0..Length, txLock : -1..MaxLock, rxLock : -1..MaxLock]
      /\ q.txLock = queueUNLOCKED /\ q.rxLock = queueUNLOCKED
  BY <1>1, QueueAssumption, Running
<1>3. p \in Places \cup QPlaces /\ p \notin QPlaces /\ p \notin Locking \cup QLocking /\ p \notin QLocked \cup {"q_unlock_rx"}
      /\ p \notin {"q_test", "q_place"}
  BY DEF Places, QPlaces, QLocking, QLocked, Locking
<1>4. pc' = [pc EXCEPT ![t] = p] /\ call' = [call EXCEPT ![t] = c]
  BY DEF Return, Goto
<1>5. c \in CallType /\ c = NoCall
  BY SchedAssumption, TickModAssumption DEF NoCall, NoTimeOut, CallType, portTickType
<1>6. InCall(p, c)
  BY <1>3 DEF InCall
<1>7. ~Awaits(k, t)
  <2>1. ~Leaving(pc, call, t)
    BY <1>1 DEF Leaving, Runs
  <2>2. QED
    BY <1>2, <2>1, RunningReady
<1>8. Fit(k', {}) /\ Onward(j, k') /\ Apart(k') /\ Still(j, k') /\ k'.terminating = j.terminating /\ Picks(j, k')
      /\ \A x : IsReady(j, x) => IsReady(k', x)
  BY DEF Served, Woken
<1>9. Onward(k, k') /\ ToSet(k.terminating) \subseteq ToSet(k'.terminating) /\ k'.susp = 0
      /\ k'.tick = k.tick /\ k'.overflows = k.overflows
  BY <1>2, <1>8, OnwardOnward DEF Still
<1>10. IsReady(k', k'.current)
  BY <1>2, <1>8, PickedReady
<1>11. Elapses(k, k')
  BY <1>2, <1>9, StillPassed
<1>12. q' \in [messages : 0..Length, txLock : -1..MaxLock, rxLock : -1..MaxLock] /\ q'.txLock = queueUNLOCKED /\ q'.rxLock = queueUNLOCKED
  <2>1. call[t].op \in {"send", "receive", "peek"}
    BY <1>1, <1>2, CallFields DEF InCall
  <2>2. Length \in Nat /\ q.messages \in 0..Length
    BY <1>2, QueueAssumption
  <2>3. Transferred(call[t].op) \in 0..Length
    BY <2>1, <2>2 DEF Transferred, MustWait, prvIsQueueEmpty, prvIsQueueFull
  <2>4. QED
    BY <1>2, <2>3
<1>13. /\ k'.susp = 1 <=> p \in Locking \cup QLocking
       /\ k'.susp = 1 => k'.current = t
       /\ q'.txLock # queueUNLOCKED <=> p \in QLocked
       /\ q'.rxLock # queueUNLOCKED <=> p \in QLocked \cup {"q_unlock_rx"}
       /\ p \in {"q_test", "q_place"} => p = pc[t] /\ k'.tick = k.tick /\ k'.overflows = k.overflows
  BY <1>3, <1>9, <1>12
<1> HIDE DEF p, c
<1>14. t = k.current /\ t # Idle /\ p \in Places \cup QPlaces
  BY <1>2, <1>3
<1>15. QED
  BY <1>4, <1>5, <1>6, <1>7, <1>8, <1>9, <1>10, <1>11, <1>12, <1>13, <1>14, WokenKeeps, Zenon

\* An item goes in or out.
LEMMA TransferKeeps == ASSUME QInv, NEW t \in Task, Transfer(t), KeepLeft PROVE QInv'
<1>1. /\ Runs(t, "q_top") /\ ~MustWait(call[t].op) /\ q' = [q EXCEPT !.messages = Transferred(call[t].op)]
      /\ Return(t) /\ KeepDue /\ lastWake' = lastWake /\ k' = WakeAndYield(k, Waking(call[t].op))
  BY DEF Transfer
<1>2. /\ Fit(k, {}) /\ Apart(k) /\ k.current = t
  BY <1>1 DEF QInv, Base, Core, Runs
<1>3. ~Leaving(pc, call, t)
  BY <1>1 DEF Leaving, Runs, Parting
<1>4. IsReady(k, t)
  BY <1>2, <1>3, RunningReady
<1> DEFINE l == Waking(call[t].op)
<1>5. l \in EventList
  BY QueueAssumption DEF Waking
<1>6. Served(k, k', l)
  BY <1>1, <1>2, <1>5, WakeAndYieldServes
<1>7. Onward(k, k) /\ Still(k, k)
  BY OnwardSame DEF Still
<1> HIDE DEF l
<1>8. QED
  BY <1>1, <1>2, <1>4, <1>5, <1>6, <1>7, ReturnKeeps

\* An interrupt leaves the running task where it is.
LEMMA InterruptKeeps ==
  ASSUME QInv, UNCHANGED <<pc, lastWake, call>>, KeepDue, KeepLeft,
         q' \in [messages : 0..Length, txLock : -1..MaxLock, rxLock : -1..MaxLock],
         q'.txLock # queueUNLOCKED <=> q.txLock # queueUNLOCKED,
         q'.rxLock # queueUNLOCKED <=> q.rxLock # queueUNLOCKED,
         Woken(k, k'), Apart(k'), Still(k, k'), Picks(k, k'), k.susp = 1 => k'.current = k.current
  PROVE  QInv'
<1> DEFINE t == k.current
           p == pc[t]
           c == call[t]
<1>1. /\ Core(k, pc, call) /\ Callers(pc, call) /\ Ring(k, pc, q) /\ k \in Kernel
      /\ pc \in [Task -> Places \cup QPlaces] /\ call \in [Task -> CallType] /\ t \in Task
  BY Zenon DEF QInv, Base, Core, Fit, Kernel
<1>2. /\ p \in Places \cup QPlaces /\ c \in CallType /\ InCall(p, c)
      /\ k.susp = 1 <=> p \in Locking \cup QLocking
      /\ q.txLock # queueUNLOCKED <=> p \in QLocked
      /\ q.rxLock # queueUNLOCKED <=> p \in QLocked \cup {"q_unlock_rx"}
      /\ ~Leaving(pc, call, t) => IsReady(k, t)
  BY <1>1 DEF Core, Callers, Ring
<1>3. pc' = [pc EXCEPT ![t] = p] /\ call' = [call EXCEPT ![t] = c]
  BY <1>1
<1>4. /\ Fit(k', {}) /\ Onward(k, k') /\ ToSet(k.terminating) \subseteq ToSet(k'.terminating) /\ k'.susp = k.susp
      /\ k'.tick = k.tick /\ k'.overflows = k.overflows /\ \A x : IsReady(k, x) => IsReady(k', x)
  BY DEF Woken, Still
<1>5. Elapses(k, k')
  BY <1>1, <1>4, StillPassed
<1>6. IsReady(k', k'.current) \/ (k'.current = t /\ Leaving(pc', call', t))
  <2>1. IsReady(k', k'.current) \/ (k'.current = k.current /\ ~IsReady(k, k.current))
    BY <1>4, PickedReady
  <2>2. Leaving(pc', call', t) <=> Leaving(pc, call, t)
    BY DEF Leaving
  <2>3. QED
    BY <1>2, <2>1, <2>2
<1>7. /\ k'.susp = 1 <=> p \in Locking \cup QLocking
      /\ k'.susp = 1 => k'.current = t
      /\ q'.txLock # queueUNLOCKED <=> p \in QLocked
      /\ q'.rxLock # queueUNLOCKED <=> p \in QLocked \cup {"q_unlock_rx"}
      /\ p \in {"q_test", "q_place"} => p = pc[t] /\ k'.tick = k.tick /\ k'.overflows = k.overflows
  BY <1>2, <1>4
<1>8. t \in Task /\ t = k.current /\ p = pc[t] /\ c = call[t]
  BY <1>1
<1> HIDE DEF t, p, c
<1>9. QED
  BY <1>2, <1>3, <1>4, <1>5, <1>6, <1>7, <1>8, WokenKeeps, Zenon

\* An interrupt that wakes a task, or none.
LEMMA ServedInterrupt ==
  ASSUME NEW j, Fit(j, {}), Apart(j), NEW r, r = j \/ \E l \in EventList : Served(j, r, l)
  PROVE  Woken(j, r) /\ Apart(r) /\ Still(j, r) /\ Picks(j, r) /\ (j.susp = 1 => r.current = j.current)
<1>1. CASE r = j
  <2>1. Onward(j, j)
    BY OnwardSame
  <2>2. QED
    BY <1>1, <2>1 DEF Woken, Still, Picks
<1>2. ASSUME NEW l \in EventList, Served(j, r, l)
      PROVE  Woken(j, r) /\ Apart(r) /\ Still(j, r) /\ Picks(j, r) /\ (j.susp = 1 => r.current = j.current)
  BY <1>2 DEF Served
<1>3. QED
  BY <1>1, <1>2

\* An interrupt sends.
LEMMA SendFromISRKeeps == ASSUME QInv, xQueueSendFromISR, KeepLeft PROVE QInv'
<1>1. Fit(k, {}) /\ Apart(k) /\ q \in [messages : 0..Length, txLock : -1..MaxLock, rxLock : -1..MaxLock]
  BY DEF QInv, Base, Core, Ring
<1>2. Length \in Nat /\ MaxLock \in Nat /\ q.messages # Length /\ "toReceive" \in EventList
  BY QueueAssumption DEF xQueueSendFromISR, prvIsQueueFull
<1>3. q.messages + 1 \in 0..Length
  BY <1>1, <1>2
<1>4. UNCHANGED <<pc, lastWake, call>> /\ KeepDue
  BY DEF xQueueSendFromISR
<1>5. /\ q' \in [messages : 0..Length, txLock : -1..MaxLock, rxLock : -1..MaxLock]
      /\ q'.txLock # queueUNLOCKED <=> q.txLock # queueUNLOCKED
      /\ q'.rxLock # queueUNLOCKED <=> q.rxLock # queueUNLOCKED
  <2>1. CASE q.txLock = queueUNLOCKED
    <3>1. q' = [q EXCEPT !.messages = q.messages + 1]
      BY <1>1, <2>1 DEF xQueueSendFromISR
    <3>2. QED
      BY <1>1, <1>3, <3>1
  <2>2. CASE q.txLock # queueUNLOCKED
    <3>1. q' = [q EXCEPT !.messages = q.messages + 1, !.txLock = q.txLock + 1] /\ q.txLock < MaxLock
      BY <1>1, <2>2 DEF xQueueSendFromISR
    <3>2. q.txLock + 1 \in -1..MaxLock /\ q.txLock + 1 # queueUNLOCKED
      BY <1>1, <1>2, <2>2, <3>1 DEF queueUNLOCKED
    <3>3. QED
      BY <1>1, <1>3, <2>2, <3>1, <3>2, Zenon
  <2>3. QED
    BY <2>1, <2>2
<1>6. k' = k \/ Served(k, k', "toReceive")
  BY <1>1, <1>2, WakeAndYieldServes DEF xQueueSendFromISR
<1>7. Woken(k, k') /\ Apart(k') /\ Still(k, k') /\ Picks(k, k') /\ (k.susp = 1 => k'.current = k.current)
  BY <1>1, <1>2, <1>6, ServedInterrupt
<1>8. QED
  BY <1>4, <1>5, <1>7, InterruptKeeps

\* An interrupt receives.
LEMMA ReceiveFromISRKeeps == ASSUME QInv, xQueueReceiveFromISR, KeepLeft PROVE QInv'
<1>1. Fit(k, {}) /\ Apart(k) /\ q \in [messages : 0..Length, txLock : -1..MaxLock, rxLock : -1..MaxLock]
  BY DEF QInv, Base, Core, Ring
<1>2. Length \in Nat /\ MaxLock \in Nat /\ q.messages # 0 /\ "toSend" \in EventList
  BY QueueAssumption DEF xQueueReceiveFromISR, prvIsQueueEmpty
<1>3. q.messages - 1 \in 0..Length
  BY <1>1, <1>2
<1>4. UNCHANGED <<pc, lastWake, call>> /\ KeepDue
  BY DEF xQueueReceiveFromISR
<1>5. /\ q' \in [messages : 0..Length, txLock : -1..MaxLock, rxLock : -1..MaxLock]
      /\ q'.txLock # queueUNLOCKED <=> q.txLock # queueUNLOCKED
      /\ q'.rxLock # queueUNLOCKED <=> q.rxLock # queueUNLOCKED
  <2>1. CASE q.rxLock = queueUNLOCKED
    <3>1. q' = [q EXCEPT !.messages = q.messages - 1]
      BY <1>1, <2>1 DEF xQueueReceiveFromISR
    <3>2. QED
      BY <1>1, <1>3, <3>1
  <2>2. CASE q.rxLock # queueUNLOCKED
    <3>1. q' = [q EXCEPT !.messages = q.messages - 1, !.rxLock = q.rxLock + 1] /\ q.rxLock < MaxLock
      BY <1>1, <2>2 DEF xQueueReceiveFromISR
    <3>2. q.rxLock + 1 \in -1..MaxLock /\ q.rxLock + 1 # queueUNLOCKED
      BY <1>1, <1>2, <2>2, <3>1 DEF queueUNLOCKED
    <3>3. QED
      BY <1>1, <1>3, <2>2, <3>1, <3>2, Zenon
  <2>3. QED
    BY <2>1, <2>2
<1>6. k' = k \/ Served(k, k', "toSend")
  BY <1>1, <1>2, WakeAndYieldServes DEF xQueueReceiveFromISR
<1>7. Woken(k, k') /\ Apart(k') /\ Still(k, k') /\ Picks(k, k') /\ (k.susp = 1 => k'.current = k.current)
  BY <1>1, <1>2, <1>6, ServedInterrupt
<1>8. QED
  BY <1>4, <1>5, <1>7, InterruptKeeps

-----------------------------------------------------------------------------
(* A task joins an event list.                                             *)

\* Task t has left the ready lists for the event list l and for the list of the
\* suspended tasks or of the delayed ones.
Listed(j, r, t, l, wait) ==
    /\ Fit(r, {}) /\ Apart(r)
    /\ r.prio = j.prio /\ r.base = j.base /\ r.item = j.item /\ r.current = j.current
    /\ r.terminating = j.terminating /\ r.free = j.free /\ r.pending = j.pending
    /\ r.tick = j.tick /\ r.overflows = j.overflows /\ r.susp = j.susp /\ r.missed = j.missed
    /\ r.event[l] = vListInsert(j.event[l], t, [x \in Task |-> MaxPriorities - j.item[x]])
    /\ ToSet(r.event[l]) = ToSet(j.event[l]) \cup {t}
    /\ \A x \in EventList : x # l => r.event[x] = j.event[x]
    /\ IF wait = portMAX_DELAY THEN t \in r.suspended ELSE IsDelayed(r, t)
    /\ \A x : x # t => (IsDelayed(r, x) <=> IsDelayed(j, x)) /\ (x \in r.suspended <=> x \in j.suspended)
    /\ \A p \in Priority : ToSet(r.ready[p]) = ToSet(j.ready[p]) \ {t}

\* Its generic item is in the suspended list, and nothing else has changed.
Shelved(j, r, t) ==
    /\ Fit(r, {})
    /\ r.prio = j.prio /\ r.base = j.base /\ r.item = j.item /\ r.current = j.current
    /\ r.terminating = j.terminating /\ r.free = j.free /\ r.pending = j.pending
    /\ r.tick = j.tick /\ r.overflows = j.overflows /\ r.susp = j.susp /\ r.missed = j.missed
    /\ r.event = j.event /\ r.suspended = j.suspended \cup {t}
    /\ \A p \in Priority : ToSet(r.ready[p]) = ToSet(j.ready[p]) \ {t}
    /\ ToSet(r.delayed) = ToSet(j.delayed) \ {t}
    /\ ToSet(r.overflowed) = ToSet(j.overflowed) \ {t}

\* Waiting without limit moves a task to the suspended list.
LEMMA MovedToSuspended ==
  ASSUME NEW j, NEW t \in Task, t # Idle, Fit(j, {}), t \notin j.free \cup ToSet(j.terminating)
  PROVE  Shelved(j, [RemoveGeneric(j, {t}) EXCEPT !.suspended = @ \cup {t}], t)
<1> DEFINE S == {t}
           g == RemoveGeneric(j, S)
           r == [g EXCEPT !.suspended = @ \cup {t}]
<1>1. j \in Kernel /\ Placed(j, S) /\ TopCovers(j) /\ Idle \in ToSet(j.ready[0]) /\ j.deleted = Len(j.terminating)
  BY DEF Fit, Placed
<1>2. t \in S /\ \A x : x \in S <=> x = t
  OBVIOUS
<1>3. /\ g \in Kernel /\ Placed(g, S)
      /\ \A p \in Priority : ToSet(g.ready[p]) = ToSet(j.ready[p]) \ S
      /\ ToSet(g.delayed) = ToSet(j.delayed) \ S
      /\ ToSet(g.overflowed) = ToSet(j.overflowed) \ S
      /\ ToSet(g.terminating) = ToSet(j.terminating) \ S
      /\ g.suspended = j.suspended \ S
  BY <1>1, RemoveGenericFacts, Zenon
<1>4. /\ g.terminating = Without(j.terminating, S)
      /\ g.current = j.current /\ g.prio = j.prio /\ g.base = j.base /\ g.item = j.item
      /\ g.pending = j.pending /\ g.deleted = j.deleted /\ g.free = j.free /\ g.event = j.event
      /\ g.tick = j.tick /\ g.overflows = j.overflows /\ g.missed = j.missed
      /\ g.susp = j.susp /\ g.top = j.top
  BY <1>1 DEF RemoveGeneric, RemoveReady, Kernel
<1>5. g.terminating = j.terminating
  <2>1. ToSet(j.terminating) \cap S = {}
    BY <1>2
  <2>2. QED
    BY <1>4, <2>1, WithoutNone
<1> HIDE DEF g
<1>6. /\ r \in Kernel /\ r.suspended = g.suspended \cup {t} /\ r.susp = g.susp /\ r.current = g.current
      /\ r.prio = g.prio /\ r.ready = g.ready /\ r.delayed = g.delayed /\ r.overflowed = g.overflowed
      /\ r.pending = g.pending /\ r.terminating = g.terminating
      /\ r.deleted = g.deleted /\ r.free = g.free /\ r.wake = g.wake /\ r.tick = g.tick
      /\ r.overflows = g.overflows /\ r.top = g.top /\ r.missed = g.missed
      /\ r.event = g.event /\ r.base = g.base /\ r.item = g.item
  BY <1>3, Zenon DEF Kernel
<1> HIDE DEF r, S
<1>7. \A x : x \in S <=> x = t
  BY <1>2
<1>8. /\ \A p \in Priority : ToSet(r.ready[p]) = ToSet(j.ready[p]) \ {t}
      /\ ToSet(r.delayed) = ToSet(j.delayed) \ {t} /\ ToSet(r.overflowed) = ToSet(j.overflowed) \ {t}
      /\ r.suspended = j.suspended \cup {t}
  BY <1>3, <1>6, <1>7
<1>9. r.terminating = j.terminating
  BY <1>5, <1>6
<1>10. Placed(r, {})
  <2>1. NoDups(r)
    BY <1>3, <1>6 DEF Placed, NoDups
  <2>2. ASSUME NEW y \in Task
        PROVE  OnePlace(r, y) /\ \A p \in Priority : y \in ToSet(r.ready[p]) => r.prio[y] = p
    <3>1. CASE y = t
      BY <1>4, <1>6, <1>8, <1>9, <3>1 DEF OnePlace, IsReady
    <3>2. CASE y # t
      <4>1. OnePlace(g, y) /\ \A p \in Priority : y \in ToSet(g.ready[p]) => g.prio[y] = p
        BY <1>3, <1>7, <3>2 DEF Placed
      <4>2. OnePlace(r, y)
        BY <1>6, <3>2, <4>1 DEF OnePlace, IsReady
      <4>3. QED
        BY <1>6, <4>1, <4>2
    <3>3. QED
      BY <3>1, <3>2
  <2>3. QED
    BY <2>1, <2>2 DEF Placed
<1>11. TopCovers(r)
  <2> SUFFICES ASSUME NEW p \in Priority, r.ready[p] # <<>> PROVE p <= r.top
    BY DEF TopCovers
  <2>1. r.ready[p] \in Seq(Task) /\ j.ready[p] \in Seq(Task)
    BY <1>1, <1>6, Zenon DEF Kernel
  <2>2. ToSet(r.ready[p]) # {}
    BY <2>1, NotEmpty, Zenon
  <2>3. j.ready[p] # <<>>
    BY <1>8, <2>1, <2>2, NotEmpty, Zenon
  <2>4. QED
    BY <1>1, <1>4, <1>6, <2>3 DEF TopCovers
<1>12. Idle \in ToSet(r.ready[0])
  BY <1>1, <1>8, PriorityFacts
<1>13. Fit(r, {})
  BY <1>1, <1>4, <1>6, <1>9, <1>10, <1>11, <1>12 DEF Fit
<1>14. Shelved(j, r, t)
  BY <1>4, <1>6, <1>8, <1>9, <1>13 DEF Shelved
<1>15. QED
  BY <1>14 DEF r, g, S

\* vTaskPlaceOnEventList.
LEMMA PlaceLists ==
  ASSUME NEW j, Fit(j, {}), Apart(j), NEW t \in Task, t # Idle, IsReady(j, t),
         NEW l \in EventList, NEW wait \in portTickType
  PROVE  Listed(j, vTaskPlaceOnEventList(j, t, l, wait), t, l, wait)
<1> DEFINE value == [x \in Task |-> MaxPriorities - j.item[x]]
           s == vListInsert(j.event[l], t, value)
           u == [j EXCEPT !.event[l] = s]
           w == Plus(j.tick, wait)
           r == vTaskPlaceOnEventList(j, t, l, wait)
<1>1. j \in Kernel /\ OnePlace(j, t) /\ j.event[l] \in Seq(Task)
  BY Zenon DEF Fit, Kernel, Placed
<1>2. ~IsDelayed(j, t) /\ t \notin j.suspended /\ t \notin j.free \cup ToSet(j.terminating)
  BY <1>1 DEF OnePlace, IsDelayed
<1>3. ~Awaits(j, t) /\ t \notin ToSet(j.pending)
  BY <1>2 DEF Apart
<1>4. s \in Seq(Task) /\ ToSet(s) = ToSet(j.event[l]) \cup {t} /\ NoDup(s)
  <2>1. t \notin ToSet(j.event[l]) /\ NoDup(j.event[l])
    BY <1>3 DEF Awaits, Apart
  <2>2. QED
    BY <1>1, <2>1, InsertFacts
<1>5. r = IF wait = portMAX_DELAY THEN [RemoveGeneric(u, {t}) EXCEPT !.suspended = @ \cup {t}] ELSE DelayTask(u, t, w)
  BY DEF vTaskPlaceOnEventList
<1>6. w \in portTickType
  <2>1. j.tick \in portTickType
    BY <1>1 DEF Kernel
  <2>2. QED
    BY <2>1, TickModAssumption DEF Plus, portTickType
<1> HIDE DEF s, r, w
<1>7. /\ u \in Kernel /\ u.event = [j.event EXCEPT ![l] = s]
      /\ u.susp = j.susp /\ u.current = j.current /\ u.prio = j.prio /\ u.base = j.base /\ u.item = j.item
      /\ u.ready = j.ready /\ u.delayed = j.delayed /\ u.overflowed = j.overflowed
      /\ u.pending = j.pending /\ u.suspended = j.suspended /\ u.terminating = j.terminating
      /\ u.deleted = j.deleted /\ u.free = j.free /\ u.wake = j.wake /\ u.tick = j.tick
      /\ u.overflows = j.overflows /\ u.top = j.top /\ u.missed = j.missed
  BY ZenonT(60), <1>1, <1>4 DEF Kernel
<1> HIDE DEF u
<1>8. Fit(u, {})
  BY SMTT(30), <1>7 DEF Fit, Placed, NoDups, OnePlace, IsReady, TopCovers
<1>9. u.event[l] = s /\ \A x \in EventList : x # l => u.event[x] = j.event[x]
  BY <1>1, <1>7 DEF Kernel
<1>10. t \notin u.free \cup ToSet(u.terminating)
  BY <1>2, <1>7
<1>11. /\ Fit(r, {})
       /\ r.prio = u.prio /\ r.base = u.base /\ r.item = u.item /\ r.current = u.current
       /\ r.terminating = u.terminating /\ r.free = u.free /\ r.pending = u.pending
       /\ r.tick = u.tick /\ r.overflows = u.overflows /\ r.susp = u.susp /\ r.missed = u.missed
       /\ r.event = u.event
       /\ \A p \in Priority : ToSet(r.ready[p]) = ToSet(u.ready[p]) \ {t}
       /\ IF wait = portMAX_DELAY THEN t \in r.suspended ELSE IsDelayed(r, t)
       /\ \A x : x # t => (IsDelayed(r, x) <=> IsDelayed(u, x)) /\ (x \in r.suspended <=> x \in u.suspended)
  <2>1. CASE wait = portMAX_DELAY
    <3>1. r = [RemoveGeneric(u, {t}) EXCEPT !.suspended = @ \cup {t}]
      BY <1>5, <2>1
    <3>2. Shelved(u, r, t)
      BY <1>8, <1>10, <3>1, MovedToSuspended, Zenon
    <3>3. \A x : x # t => (IsDelayed(r, x) <=> IsDelayed(u, x)) /\ (x \in r.suspended <=> x \in u.suspended)
      BY <3>2 DEF IsDelayed, Shelved
    <3>4. QED
      BY <2>1, <3>2, <3>3 DEF Shelved
  <2>2. CASE wait # portMAX_DELAY
    <3>1. r = DelayTask(u, t, w)
      BY <1>5, <2>2
    <3>2. Blocked(u, r, t, w)
      BY <1>6, <1>8, <1>10, <3>1, DelayTaskPlace
    <3>3. IsDelayed(r, t) /\ \A x : x # t => (IsDelayed(r, x) <=> IsDelayed(u, x)) /\ (x \in r.suspended <=> x \in u.suspended)
      BY <3>2 DEF Blocked, IsDelayed
    <3>4. /\ Fit(r, {})
          /\ r.prio = u.prio /\ r.base = u.base /\ r.item = u.item /\ r.current = u.current
          /\ r.terminating = u.terminating /\ r.free = u.free /\ r.pending = u.pending
          /\ r.tick = u.tick /\ r.overflows = u.overflows /\ r.susp = u.susp /\ r.missed = u.missed
          /\ r.event = u.event
          /\ \A p \in Priority : ToSet(r.ready[p]) = ToSet(u.ready[p]) \ {t}
      BY <3>2 DEF Blocked
    <3>5. QED
      BY <2>2, <3>3, <3>4
  <2>3. QED
    BY <2>1, <2>2
<1>12. /\ r.event[l] = s /\ ToSet(r.event[l]) = ToSet(j.event[l]) \cup {t} /\ NoDup(r.event[l])
       /\ \A x \in EventList : x # l => r.event[x] = j.event[x]
  BY <1>4, <1>9, <1>11
<1>13. Apart(r)
  <2>1. \A x \in EventList : NoDup(r.event[x])
    BY <1>12 DEF Apart
  <2>2. \A x : Awaits(r, x) => x = t \/ Awaits(j, x)
    BY <1>12 DEF Awaits
  <2>3. \A x : x # t => (IsDelayed(r, x) <=> IsDelayed(j, x)) /\ (x \in r.suspended <=> x \in j.suspended)
    BY <1>7, <1>11 DEF IsDelayed
  <2>4. r.pending = j.pending /\ r.susp = j.susp /\ (IsDelayed(r, t) \/ t \in r.suspended)
    BY <1>7, <1>11
  <2>5. \A x \in ToSet(r.pending) : ~Awaits(r, x)
    BY <1>3, <2>2, <2>4 DEF Apart
  <2>6. \A x : Awaits(r, x) \/ x \in ToSet(r.pending) => IsDelayed(r, x) \/ x \in r.suspended
    BY <2>2, <2>3, <2>4 DEF Apart
  <2>7. QED
    BY <2>1, <2>4, <2>5, <2>6 DEF Apart
<1>14. Listed(j, r, t, l, wait)
  <2>1. \A x : x # t => (IsDelayed(r, x) <=> IsDelayed(j, x)) /\ (x \in r.suspended <=> x \in j.suspended)
    BY <1>7, <1>11 DEF IsDelayed
  <2>2. r.event[l] = vListInsert(j.event[l], t, [x \in Task |-> MaxPriorities - j.item[x]])
    BY <1>12 DEF s
  <2>3. QED
    BY <1>7, <1>11, <1>12, <1>13, <2>1, <2>2 DEF Listed
<1>15. QED
  BY <1>14 DEF r

\* A later time of the clock in numbers.
LEMMA LaterIs ==
  ASSUME NEW j \in Kernel, NEW n \in portTickType
  PROVE  LET d == Later(Clock(j), n)
         IN d \in 0..2*TickMod-1 /\ (Clock(j) + n = d \/ Clock(j) + n = d + 2 * TickMod)
<1> DEFINE m == 2 * TickMod
           a == Clock(j) + n
<1>1. /\ m \in Nat /\ m > 0 /\ Clock(j) \in 0..m-1 /\ n \in Nat /\ n < m
  BY TimeFacts DEF portTickType
<1> HIDE DEF m
<1>2. a \in Nat /\ a < 2 * m
  BY <1>1
<1> HIDE DEF a
<1>3. CASE a < m
  <2>1. a % m = a
    BY <1>1, <1>2, <1>3, ModSmall
  <2>2. QED
    BY <1>1, <1>2, <1>3, <2>1 DEF Later, a, m
<1>4. CASE ~(a < m)
  <2>1. m <= a
    BY <1>1, <1>2, <1>4
  <2>2. a % m = a - m
    BY <1>1, <1>2, <2>1, ModOnce
  <2>3. a % m \in 0..m-1 /\ a = (a % m) + m
    BY <1>1, <1>2, <2>1, <2>2
  <2>4. QED
    BY <2>3 DEF Later, a, m
<1>5. QED
  BY <1>3, <1>4

\* The running task t joins the list it waits in; j is the kernel before that.
LEMMA JoinKeeps ==
  ASSUME QInv, NEW t \in Task, Runs(t, "q_place"),
         NEW j, Onward(k, j), Still(k, j), j.current = k.current, j.terminating = k.terminating, ~Awaits(j, t),
         Listed(j, k', t, Waiting(call[t].op), call[t].wait),
         due' = IF call[t].wait = portMAX_DELAY THEN due ELSE [due EXCEPT ![t] = Later(Clock(k), call[t].wait)],
         Goto(t, "q_unlock"), UNCHANGED <<lastWake, q, call>>, KeepLeft
  PROVE  QInv'
<1> DEFINE p == "q_unlock"
           c == call[t]
           l == Waiting(c.op)
<1>1. "q_place" \in QPlaces /\ p \in QPlaces /\ p \in Parting /\ "q_place" \notin Parting /\ "q_place" \in QLocked /\ p \in QLocked
      /\ "q_place" \in QLocking /\ p \in QLocking /\ p \notin {"q_test", "q_place"} /\ p # "q_place" /\ p \notin {"yield", "resume", "q_yield"}
  BY DEF QPlaces, Parting, QLocking, QLocked
<1>2. /\ k \in Kernel /\ Waiters(k, call) /\ t # Idle /\ k.current = t /\ k.susp = 1
      /\ pc \in [Task -> Places \cup QPlaces] /\ call \in [Task -> CallType] /\ c \in CallType /\ InCall("q_place", c)
      /\ q \in [messages : 0..Length, txLock : -1..MaxLock, rxLock : -1..MaxLock]
      /\ q.txLock # queueUNLOCKED /\ q.rxLock # queueUNLOCKED
      /\ due \in [Task -> 0..2*TickMod-1]
      /\ FewMissed => Times(k, t, "q_place", c, due[t], left[t])
  BY <1>1, QueueAssumption, Running
<1>3. pc' = [pc EXCEPT ![t] = p] /\ call' = call /\ call' = [call EXCEPT ![t] = c] /\ q' = q /\ lastWake' = lastWake
  BY <1>2 DEF Goto
<1>4. c.op # "none" /\ c.path = "block" /\ l \in EventList /\ InCall(p, c) /\ c.wait \in portTickType
  BY <1>1, <1>2, CallFields, QueueAssumption DEF InCall, Waiting
<1>5. /\ Fit(k', {}) /\ Apart(k') /\ k'.current = t /\ k'.terminating = k.terminating
      /\ k'.tick = k.tick /\ k'.overflows = k.overflows /\ k'.susp = 1
      /\ ToSet(k'.event[l]) = ToSet(j.event[l]) \cup {t}
      /\ \A x \in EventList : x # l => k'.event[x] = j.event[x]
      /\ IF c.wait = portMAX_DELAY THEN t \in k'.suspended ELSE IsDelayed(k', t)
      /\ \A x : x # t => (IsDelayed(k', x) <=> IsDelayed(j, x)) /\ (x \in k'.suspended <=> x \in j.suspended)
  BY <1>2 DEF Listed, Still
<1>6. \A x : x # t /\ Awaits(k', x) => Awaits(j, x) /\ Awaits(k, x)
  BY <1>5, OnwardAwaits DEF Awaits
<1>7. Waiters(k', call')
  <2>1. Waiters(j, call)
    BY <1>2, WaitingOnward
  <2> SUFFICES ASSUME NEW y \in EventList, NEW x \in ToSet(k'.event[y]) PROVE InList(k', x, y, call[x])
    BY <1>3 DEF Waiters
  <2>2. CASE x = t
    <3>1. y = l
      BY <1>5, <2>2 DEF Awaits
    <3>2. QED
      BY <1>4, <1>5, <2>2, <3>1 DEF InList
  <2>3. CASE x # t
    <3>1. x \in ToSet(j.event[y])
      BY <1>5, <2>3
    <3>2. InList(j, x, y, call[x])
      BY <2>1, <3>1 DEF Waiters
    <3>3. (IsDelayed(k', x) <=> IsDelayed(j, x)) /\ (x \in k'.suspended <=> x \in j.suspended)
      BY <1>5, <2>3
    <3>4. QED
      BY <3>2, <3>3, Zenon DEF InList
  <2>4. QED
    BY <2>2, <2>3
<1>8. Leaving(pc', call', t)
  <2>1. pc'[t] = p /\ call'[t] = c
    BY <1>2, <1>3
  <2>2. QED
    BY <1>1, <1>4, <2>1 DEF Leaving
<1>9. /\ due' \in [Task -> 0..2*TickMod-1] /\ \A x \in Task \ {t} : due'[x] = due[x]
      /\ c.wait # portMAX_DELAY => due'[t] = Later(Clock(k), c.wait)
  <2>1. Later(Clock(k), c.wait) \in 0..2*TickMod-1
    BY <1>2, <1>4, LaterIs
  <2>2. QED
    BY <1>2, <2>1
<1>10. ASSUME FewMissed PROVE Times(k', t, p, c, due'[t], left'[t])
  <2> DEFINE b == left[t]
             d == due'[t]
  <2>1. Times(k, t, "q_place", c, due[t], b)
    BY <1>2, <1>10
  <2>2. left'[t] = b
    <3>1. Passed(k, k', 0) /\ k' \in Kernel
      BY <1>2, <1>5, StillPassed DEF Fit
    <3>2. left'[t] = LeftAfter(call[t], call'[t], left[t], 0)
      BY <1>2, <3>1, KeepLeftIs, TickModAssumption
    <3>3. QED
      BY <1>2, <1>3, <2>1, <3>2, LeftSame, CallFields
  <2>3. c.wait # portMAX_DELAY => b = 0 \/ b = c.wait
    BY <2>1, Zenon DEF Times
  <2>4. Clock(k') = Clock(k) /\ Now(k') = Now(k)
    BY <1>5 DEF Clock, Now
  <2>5. d \in 0..2*TickMod-1
    BY <1>9
  <2>6. c.wait # portMAX_DELAY /\ b # 0 => Clock(k') + b = d \/ Clock(k') + b = d + 2 * TickMod
    BY <1>2, <1>4, <1>9, <2>3, <2>4, LaterIs
  <2> HIDE DEF b, d
  <2>7. Times(k', t, p, c, d, b)
    BY <1>1, <2>1, <2>3, <2>4, <2>5, <2>6, Zenon DEF Times
  <2>8. QED
    BY <2>2, <2>7 DEF d
<1>11. /\ k'.susp = 1 <=> p \in Locking \cup QLocking
       /\ k'.susp = 1 => k'.current = t
       /\ q' \in [messages : 0..Length, txLock : -1..MaxLock, rxLock : -1..MaxLock]
       /\ q'.txLock # queueUNLOCKED <=> p \in QLocked
       /\ q'.rxLock # queueUNLOCKED <=> p \in QLocked \cup {"q_unlock_rx"}
       /\ p \in Places \cup QPlaces /\ t = k.current /\ ToSet(k.terminating) \subseteq ToSet(k'.terminating)
  BY <1>1, <1>2, <1>3, <1>5
<1>12. Elapses(k, k')
  BY <1>2, <1>5, StillPassed
<1>13. \A x \in Task \ {t} : Awaits(k', x) /\ call[x].wait # portMAX_DELAY => Awaits(k, x) /\ due'[x] = due[x]
  BY <1>6, <1>9
<1> HIDE DEF p, c, l
<1>14. QED
  BY <1>2, <1>3, <1>4, <1>5, <1>7, <1>8, <1>9, <1>10, <1>11, <1>12, <1>13, MovedKeeps, Zenon

\* A task joins an event list.
LEMMA PlaceKeeps == ASSUME QInv, NEW t \in Task, Place(t), KeepLeft PROVE QInv'
<1>1. /\ Runs(t, "q_place") /\ Goto(t, "q_unlock") /\ UNCHANGED <<lastWake, q, call>>
      /\ k' = vTaskPlaceOnEventList(k, t, Waiting(call[t].op), call[t].wait)
      /\ due' = IF call[t].wait = portMAX_DELAY THEN due ELSE [due EXCEPT ![t] = Later(Clock(k), call[t].wait)]
  BY DEF Place
<1>2. "q_place" \in QPlaces /\ "q_place" \notin {"yield", "resume", "q_yield"} \cup Parting
  BY DEF QPlaces, Parting
<1>3. /\ Fit(k, {}) /\ Apart(k) /\ t # Idle /\ k.current = t /\ call[t] \in CallType
  BY <1>1, <1>2, QueueAssumption, Running
<1>4. IsReady(k, t) /\ ~Awaits(k, t)
  <2>1. ~Leaving(pc, call, t)
    BY <1>1, <1>2 DEF Leaving, Runs
  <2>2. QED
    BY <1>3, <2>1, RunningReady
<1>5. Waiting(call[t].op) \in EventList /\ call[t].wait \in portTickType
  BY <1>3, CallFields, QueueAssumption DEF Waiting
<1>6. Listed(k, k', t, Waiting(call[t].op), call[t].wait)
  BY <1>1, <1>3, <1>4, <1>5, PlaceLists
<1>7. Onward(k, k) /\ Still(k, k)
  BY OnwardSame DEF Still
<1>8. QED
  BY <1>1, <1>4, <1>6, <1>7, JoinKeeps

-----------------------------------------------------------------------------
(* The invariant holds, and with it what the queue promises.               *)

\* The queue has been created with n items, and nobody has called it.
Begins(n) ==
    /\ Init /\ q = [messages |-> n, txLock |-> queueUNLOCKED, rxLock |-> queueUNLOCKED]
    /\ call = [t \in Task |-> NoCall] /\ left = [t \in Task |-> 0]

\* The invariant holds then.
LEMMA QueueBegins == ASSUME NEW n \in 0..Length, Begins(n) PROVE QInv
<1>1. IInv /\ TickMod \in Nat /\ TickMod >= 3
  BY InitGood, TickModAssumption DEF Begins
<1>2. /\ k.event = [l \in EventList |-> <<>>] /\ k.susp = 0
      /\ pc = [t \in Task |-> "app"] /\ lastWake = [t \in Task |-> 0] /\ due = [t \in Task |-> 0]
  BY Zenon DEF Begins, Init
<1>3. /\ q = [messages |-> n, txLock |-> queueUNLOCKED, rxLock |-> queueUNLOCKED]
      /\ call = [t \in Task |-> NoCall] /\ left = [t \in Task |-> 0]
  BY DEF Begins
<1>4. /\ Fit(k, {}) /\ ToSet(k.pending) = {} /\ due \in [Task -> 0..2*TickMod-1] /\ lastWake \in [Task -> portTickType]
      /\ (pc[k.current] \notin {"yield", "resume"} => Chosen(k)) /\ k \in Kernel /\ k.current \in Task
  BY <1>1, Zenon DEF IInv, Good, Fit, Kernel
<1>5. "app" \in Places /\ "app" \notin Locking \cup QLocking /\ "app" \notin {"yield", "resume", "q_yield"} \cup Parting
      /\ "app" \notin QLocked \cup {"q_unlock_rx"} /\ "app" \notin QPlaces /\ "app" # "free"
  BY DEF Places, Locking, QLocking, QLocked, Parting, QPlaces
<1>6. NoCall \in CallType
  BY <1>1, SchedAssumption DEF NoCall, NoTimeOut, CallType, portTickType
<1>7. \A x : ~Awaits(k, x)
  <2>1. \A l \in EventList : ToSet(k.event[l]) = {}
    BY <1>2 DEF ToSet
  <2>2. QED
    BY <2>1 DEF Awaits
<1>8. Apart(k)
  <2>1. \A l \in EventList : NoDup(k.event[l])
    BY <1>2 DEF NoDup
  <2>2. QED
    BY <1>4, <1>7, <2>1 DEF Apart
<1>9. IsReady(k, k.current)
  <2>1. k.prio[k.current] \in Priority
    BY <1>4 DEF Kernel
  <2>2. QED
    BY <1>2, <1>4, <1>5, <2>1 DEF Chosen, IsReady
<1>10. Core(k, pc, call)
  BY <1>2, <1>3, <1>4, <1>5, <1>6, <1>8, <1>9, IdleIsTask DEF Core
<1>11. Callers(pc, call)
  BY <1>2, <1>5 DEF Callers, InCall
<1>12. Waiters(k, call)
  BY <1>7 DEF Waiters, Awaits
<1>13. Ring(k, pc, q)
  BY <1>2, <1>3, <1>4, <1>5, QueueAssumption DEF Ring, queueUNLOCKED
<1>14. Timely(k, pc, call, due, left)
  <2> SUFFICES ASSUME NEW x \in Task PROVE Times(k, x, pc[x], call[x], due[x], left[x])
    BY DEF Timely
  <2>1. left[x] = 0 /\ call[x].wait \in portTickType /\ due[x] \in 0..2*TickMod-1
    BY <1>3, <1>4, <1>6, CallFields
  <2>2. QED
    BY <2>1, TimesZero
<1>15. QED
  BY <1>4, <1>10, <1>11, <1>12, <1>13, <1>14 DEF QInv, Base

\* It holds at the start of the queue.
LEMMA QueueStarts == QInit => QInv
<1> SUFFICES ASSUME QInit PROVE QInv
  OBVIOUS
<1>1. Begins(0) /\ 0 \in 0..Length
  BY QueueAssumption DEF QInit, Begins
<1>2. QED
  BY <1>1, QueueBegins

\* Each step of the loops that a queue and a mutex have in common.
LEMMA LoopKeeps == ASSUME QInv, NEW t \in Task, LoopStep(t), KeepLeft PROVE QInv'
<1>1. CASE ReturnAtOnce(t)
  BY <1>1, ReturnAtOnceKeeps
<1>2. CASE DecideToWait(t)
  BY <1>2, DecideKeeps
<1>3. CASE SuspendAll(t)
  BY <1>3, QueueSuspendKeeps
<1>4. CASE prvLockQueue(t)
  BY <1>4, QueueLockKeeps
<1>5. CASE xTaskCheckForTimeOut(t)
  BY <1>5, CheckTimeOutKeeps
<1>6. CASE TestAgain(t)
  BY <1>6, TestKeeps
<1>7. CASE UnlockTx(t) \/ UnlockRx(t)
  BY <1>7, UnlockKeeps
<1>8. CASE QueueResume(t)
  BY <1>8, QueueResumeKeeps
<1>9. CASE taskYIELD(t, "q_yield", "q_top") /\ UNCHANGED <<q, call>>
  BY <1>9, QueueYieldKeeps
<1>10. QED
  BY <1>1, <1>2, <1>3, <1>4, <1>5, <1>6, <1>7, <1>8, <1>9 DEF LoopStep

\* Every step keeps the invariant.
LEMMA QueueKeeps == QInv /\ [QNext]_qvars => QInv'
<1> SUFFICES ASSUME QInv, [QNext]_qvars PROVE QInv'
  OBVIOUS
<1>1. CASE UNCHANGED qvars
  BY <1>1 DEF qvars, QInv, Base, Timely
<1>2. ASSUME NEW t \in Task, QueueStep(t), KeepLeft PROVE QInv'
  <2>1. CASE Transfer(t)
    BY <1>2, <2>1, TransferKeeps
  <2>2. CASE Place(t)
    BY <1>2, <2>2, PlaceKeeps
  <2>3. CASE LoopStep(t)
    BY <1>2, <2>3, LoopKeeps
  <2>4. QED
    BY <1>2, <2>1, <2>2, <2>3 DEF QueueStep
<1>3. ASSUME NEW t \in Task, NEW op \in Ops[t], NEW wait \in Waits[t], Enter(t, op, wait), KeepLeft PROVE QInv'
  <2>1. wait \in portTickType
    BY QueueAssumption
  <2>2. QED
    BY <1>3, <2>1, EnterKeeps
<1>4. CASE xQueueSendFromISR /\ KeepLeft
  BY <1>4, SendFromISRKeeps
<1>5. CASE xQueueReceiveFromISR /\ KeepLeft
  BY <1>5, ReceiveFromISRKeeps
<1>6. CASE Next /\ UNCHANGED <<q, call>> /\ KeepLeft
  BY <1>6, OutsideKeeps
<1>7. QED
  BY <1>1, <1>2, <1>3, <1>4, <1>5, <1>6 DEF QNext, QueueActions

\* What is left of the block time of a waiting task is the time up to its wake
\* time.
LEMMA AheadLeft ==
  ASSUME NEW l \in Nat, l < 2 * TickMod, NEW d \in 0..2*TickMod-1, k \in Kernel,
         Clock(k) + l = d \/ Clock(k) + l = d + 2 * TickMod
  PROVE  Ahead(d) = l
<1> DEFINE m == 2 * TickMod
           a == d + m - Clock(k)
<1>1. m \in Nat /\ m > 0 /\ Clock(k) \in 0..m-1 /\ d \in 0..m-1 /\ l < m
  BY TimeFacts
<1>2. Clock(k) + l = d \/ Clock(k) + l = d + m
  OBVIOUS
<1> HIDE DEF m
<1>3. a = l + m \/ a = l
  BY <1>1, <1>2
<1> HIDE DEF a
<1>4. CASE a = l
  BY <1>1, <1>4, ModSmall DEF Ahead, a, m
<1>5. CASE a = l + m
  <2>1. a \in Nat /\ m <= a /\ a < 2 * m /\ a - m = l
    BY <1>1, <1>5
  <2>2. a % m = a - m
    BY <1>1, <2>1, ModOnce, Zenon
  <2>3. QED
    BY <2>1, <2>2 DEF Ahead, a, m
<1>6. QED
  BY <1>3, <1>4, <1>5

\* The invariant gives the types,
LEMMA InvariantTypes == QInv => QTypeOK
<1> SUFFICES ASSUME QInv PROVE QTypeOK
  OBVIOUS
<1>1. /\ k \in Kernel /\ call \in [Task -> CallType]
      /\ q \in [messages : 0..Length, txLock : -1..MaxLock, rxLock : -1..MaxLock]
  BY DEF QInv, Base, Core, Fit, Ring
<1>2. QED
  BY <1>1, Zenon DEF QTypeOK, CallType

\* that who waits is blocked,
LEMMA InvariantBlocks == ASSUME FewMissed, QInv PROVE WaitersBlocked
<1> SUFFICES ASSUME NEW t \in Task, NEW l \in EventList, WaitsFor(t, l)
             PROVE  /\ call[t].op # "none" /\ l = Waiting(call[t].op)
                    /\ IF call[t].wait = portMAX_DELAY THEN t \in k.suspended
                       ELSE Delayed(t) /\ left[t] \in {0, Ahead(due[t])}
  BY DEF WaitersBlocked
<1>1. InList(k, t, l, call[t]) /\ Awaits(k, t)
  BY DEF QInv, Base, Waiters, WaitsFor, Awaits
<1>2. k \in Kernel /\ call[t] \in CallType /\ Times(k, t, pc[t], call[t], due[t], left[t])
  BY DEF QInv, Base, Core, Fit, Timely
<1>3. ASSUME call[t].wait # portMAX_DELAY, left[t] # 0 PROVE left[t] = Ahead(due[t])
  <2>1. /\ left[t] \in Nat /\ due[t] \in 0..2*TickMod-1 /\ IF call[t].timeSet THEN left[t] <= call[t].wait ELSE left[t] = 0
        /\ (Clock(k) + left[t] = due[t] \/ Clock(k) + left[t] = due[t] + 2 * TickMod)
    BY <1>1, <1>2, <1>3, Zenon DEF Times
  <2>2. left[t] < 2 * TickMod
    BY <1>2, <1>3, <2>1, CallFields, TickModAssumption DEF portTickType
  <2>3. QED
    BY <1>2, <2>1, <2>2, AheadLeft
<1>4. QED
  BY <1>1, <1>3 DEF InList, Delayed

\* and that nobody gives up too early.
LEMMA InvariantTimes == ASSUME FewMissed, QInv PROVE NoEarlyTimeout
<1> SUFFICES ASSUME NEW t \in Task, call[t].path = "fail" PROVE left[t] = 0
  BY DEF NoEarlyTimeout
<1>1. Times(k, t, pc[t], call[t], due[t], left[t])
  BY DEF QInv, Base, Timely
<1>2. QED
  BY <1>1, Zenon DEF Times

\* The invariant of the queue holds at every step.
THEOREM QueueInvariance == QSpec => []QInv
<1>1. QED
  BY QueueStarts, QueueKeeps, PTL DEF QSpec

\* The fields of the queue and the locals of its calls keep their types, however
\* tasks, interrupts and ticks interleave.
THEOREM QueueTypeCorrect == QSpec => []QTypeOK
<1>1. QED
  BY QueueInvariance, InvariantTypes, PTL

\* A task is in an event list only from within its call, and sleeps up to the end
\* of its block time, if no suspension of the scheduler is so long that the tick
\* count goes round twice in it.
THEOREM WaitersAreBlocked == ASSUME FewMissed PROVE QSpec => []WaitersBlocked
<1>1. QInv => WaitersBlocked
  BY InvariantBlocks
<1>2. QED
  BY <1>1, QueueInvariance, PTL

\* Under the same condition no call gives up before the end of its block time.
THEOREM TimeoutsNotEarly == ASSUME FewMissed PROVE QSpec => []NoEarlyTimeout
<1>1. QInv => NoEarlyTimeout
  BY InvariantTimes
<1>2. QED
  BY <1>1, QueueInvariance, PTL

-----------------------------------------------------------------------------
(* What the steps of a call do to the kernel.                              *)

\* From j to r the running task is left alone, or a task that should run has been
\* chosen.
Choice(j, at, c, r, bt, b) ==
    \/ Leaving(bt, b, r.current) \/ Chosen(r)
    \/ r.current = j.current /\ ~Leaving(at, c, j.current) /\ (Chosen(j) => Chosen(r))

\* The running task goes on running.
LEMMA ReadyChoice ==
  ASSUME NEW t \in Task, k.current = t, k'.current = t, ~Leaving(pc, call, t), Chosen(k) => Chosen(k')
  PROVE  Choice(k, pc, call, k', pc', call')
  BY DEF Choice

\* A critical section of prvUnlockQueue() wakes tasks of one list.
LEMMA UnlockIs ==
  ASSUME QInv, NEW t \in Task, NEW o \in {"q_unlock", "q_unlock_rx"}, Runs(t, o), NEW l \in EventList,
         NEW lock \in Int, k' = WakeCounted(k, l, lock)
  PROVE  \E W \in SUBSET ToSet(k.event[l]) :
            /\ Released(k, k', W) /\ IsFiniteSet(W)
            /\ W = ToSet(k.event[l]) \/ Cardinality(W) = IF lock > 0 THEN lock ELSE 0
<1>1. o \in QPlaces /\ o \in QLocking
  BY DEF QPlaces, QLocking
<1>2. Fit(k, {}) /\ Apart(k) /\ k.susp = 1
  BY <1>1, QueueAssumption, Running
<1>3. QED
  BY <1>2, WakeCountedReleases, Zenon

\* The steps of the loops wake tasks, and let a task run that should.
LEMMA LoopEffect ==
  ASSUME QInv, NEW t \in Task, LoopStep(t)
  PROVE  Woken(k, k') /\ Choice(k, pc, call, k', pc', call')
<1>1. /\ k \in Kernel /\ Fit(k, {}) /\ Apart(k) /\ pc \in [Task -> Places \cup QPlaces] /\ call \in [Task -> CallType]
      /\ Ring(k, pc, q)
  BY DEF QInv, Base, Core, Fit
<1>2. Woken(k, k)
  BY <1>1, OnwardSame DEF Woken
<1>3. ASSUME NEW o \in {"q_top", "q_lock", "q_check", "q_test"}, Runs(t, o), k' = k
      PROVE  Woken(k, k') /\ Choice(k, pc, call, k', pc', call')
  <2>1. ~Leaving(pc, call, t) /\ k.current = t
    BY <1>3 DEF Leaving, Parting, Runs
  <2>2. QED
    BY <1>2, <1>3, <2>1, ReadyChoice
<1>4. CASE ReturnAtOnce(t) \/ DecideToWait(t) \/ prvLockQueue(t) \/ xTaskCheckForTimeOut(t) \/ TestAgain(t)
  BY <1>3, <1>4 DEF ReturnAtOnce, DecideToWait, prvLockQueue, xTaskCheckForTimeOut, TestAgain
<1>5. CASE SuspendAll(t)
  <2>1. Runs(t, "q_suspend") /\ k' = vTaskSuspendAll(k)
    BY <1>5 DEF SuspendAll
  <2>2. "q_suspend" \in QPlaces /\ "q_suspend" \notin Locking \cup QLocking /\ "q_suspend" \notin {"yield", "resume", "q_yield"} \cup Parting
    BY DEF QPlaces, Locking, QLocking, Parting
  <2>3. k.susp = 0 /\ k.current = t
    BY <2>1, <2>2, QueueAssumption, Running
  <2>4. Woken(k, k') /\ k'.current = k.current /\ (Chosen(k) => Chosen(k'))
    BY <1>1, <2>1, <2>3, SuspendAllOnward
  <2>5. ~Leaving(pc, call, t)
    BY <2>1, <2>2 DEF Leaving, Runs
  <2>6. QED
    BY <2>3, <2>4, <2>5, ReadyChoice
<1>6. ASSUME NEW o \in {"q_unlock", "q_unlock_rx"}, Runs(t, o), NEW l \in EventList, NEW lock \in Int,
             k' = WakeCounted(k, l, lock), call' = call, NEW p \in Parting, pc' = [pc EXCEPT ![t] = p]
      PROVE  Woken(k, k') /\ Choice(k, pc, call, k', pc', call')
  <2>1. PICK W : Released(k, k', W)
    BY <1>6, UnlockIs
  <2>2. Woken(k, k') /\ k'.current = k.current /\ (Chosen(k) => Chosen(k')) /\ k.current = t
    BY <1>6, <2>1 DEF Released, Runs
  <2>3. CASE call[t].path = "block"
    <3>1. Leaving(pc', call', k'.current)
      BY <1>1, <1>6, <2>2, <2>3 DEF Leaving
    <3>2. QED
      BY <2>2, <3>1 DEF Choice
  <2>4. CASE call[t].path # "block"
    <3>1. ~Leaving(pc, call, t)
      BY <1>6, <2>4 DEF Leaving, Runs
    <3>2. QED
      BY <2>2, <3>1, ReadyChoice
  <2>5. QED
    BY <2>3, <2>4
<1>7. CASE UnlockTx(t)
  <2>1. q.txLock \in Int /\ "toReceive" \in EventList /\ "q_unlock_rx" \in Parting
    BY <1>1, QueueAssumption DEF Ring, Parting
  <2>2. QED
    BY <1>6, <1>7, <2>1, Zenon DEF UnlockTx, Goto
<1>8. CASE UnlockRx(t)
  <2>1. q.rxLock \in Int /\ "toSend" \in EventList /\ "q_resume" \in Parting
    BY <1>1, QueueAssumption DEF Ring, Parting
  <2>2. QED
    BY <1>6, <1>8, <2>1, Zenon DEF UnlockRx, Goto
<1>9. CASE QueueResume(t)
  <2> DEFINE path == call[t].path
             r == xTaskResumeAll(k)
  <2>1. Runs(t, "q_resume") /\ k' = r.k
    BY <1>9 DEF QueueResume, ResumeAll
  <2>2. call' = IF path = "fail" THEN [call EXCEPT ![t] = NoCall] ELSE call
    BY <1>9 DEF QueueResume
  <2>3. pc' = [pc EXCEPT ![t] = IF r.yielded THEN (IF path = "fail" THEN "app" ELSE "q_top")
                 ELSE CASE path = "block" -> "q_yield" [] path = "retry" -> "q_top" [] path = "fail" -> "app"]
    BY <1>9 DEF QueueResume, ResumeAll, Goto
  <2>4. "q_resume" \in QPlaces /\ "q_resume" \in QLocking /\ "q_resume" \notin {"yield", "resume", "q_yield"}
    BY DEF QPlaces, QLocking
  <2>5. k.susp = 1 /\ k.current = t
    BY <2>1, <2>4, QueueAssumption, Running
  <2>6. /\ Woken(k, r.k) /\ r.yielded \in BOOLEAN
        /\ IF r.yielded THEN Chosen(r.k) ELSE r.k.current = k.current /\ (Chosen(k) => Chosen(r.k))
    BY <1>1, <2>5, ResumeWoken
  <2> HIDE DEF r
  <2>7. CASE r.yielded
    BY <2>1, <2>6, <2>7 DEF Choice
  <2>8. CASE ~r.yielded /\ path = "block"
    <3>1. pc' = [pc EXCEPT ![t] = "q_yield"]
      BY <2>3, <2>8
    <3>2. pc'[t] = "q_yield" /\ k'.current = t
      BY <1>1, <2>1, <2>5, <2>6, <2>8, <3>1
    <3>3. Leaving(pc', call', k'.current)
      BY <3>2 DEF Leaving
    <3>4. QED
      BY <2>1, <2>6, <3>3 DEF Choice
  <2>9. CASE ~r.yielded /\ path # "block"
    <3>1. ~Leaving(pc, call, t)
      BY <2>1, <2>4, <2>9 DEF Leaving, Runs
    <3>2. QED
      BY <2>1, <2>5, <2>6, <2>9, <3>1, ReadyChoice
  <2>10. QED
    BY <2>7, <2>8, <2>9
<1>10. CASE taskYIELD(t, "q_yield", "q_top")
  <2>1. Runs(t, "q_yield") /\ k' = vTaskSwitchContext(k)
    BY <1>10 DEF taskYIELD
  <2>2. "q_yield" \in QPlaces /\ "q_yield" \notin Locking \cup QLocking
    BY DEF QPlaces, Locking, QLocking
  <2>3. k.susp = 0
    BY <2>1, <2>2, QueueAssumption, Running
  <2>4. Woken(k, k') /\ Chosen(k')
    BY <1>1, <2>1, <2>3, SwitchWoken
  <2>5. QED
    BY <2>4 DEF Choice
<1>11. QED
  BY <1>4, <1>5, <1>7, <1>8, <1>9, <1>10 DEF LoopStep

\* What a transfer does to the tasks.
LEMMA TransferEffect ==
  ASSUME QInv, NEW t \in Task, Transfer(t)
  PROVE  /\ Woken(k, k') /\ Choice(k, pc, call, k', pc', call') /\ Served(k, k', Waking(call[t].op))
         /\ ~Awaits(k, t) /\ k.current = t /\ IsReady(k, t)
<1>1. /\ Runs(t, "q_top") /\ k' = WakeAndYield(k, Waking(call[t].op)) /\ Waking(call[t].op) \in EventList
  BY QueueAssumption DEF Transfer, Waking
<1>2. Fit(k, {}) /\ Apart(k) /\ k.current = t
  BY <1>1 DEF QInv, Base, Core, Runs
<1>3. ~Leaving(pc, call, t)
  BY <1>1 DEF Leaving, Runs, Parting
<1>4. Served(k, k', Waking(call[t].op))
  BY <1>1, <1>2, WakeAndYieldServes
<1>5. Woken(k, k') /\ Picks(k, k')
  BY <1>4 DEF Served
<1>6. Choice(k, pc, call, k', pc', call')
  BY <1>2, <1>3, <1>5 DEF Picks, Choice
<1>7. QED
  BY <1>2, <1>3, <1>4, <1>5, <1>6, RunningReady

\* What an interrupt does to them.
LEMMA InterruptEffect ==
  ASSUME QInv, xQueueSendFromISR \/ xQueueReceiveFromISR
  PROVE  Woken(k, k') /\ Choice(k, pc, call, k', pc', call')
<1>1. Fit(k, {}) /\ Apart(k) /\ "toSend" \in EventList /\ "toReceive" \in EventList
  BY QueueAssumption DEF QInv, Base, Core
<1>2. k' = k \/ \E l \in EventList : Served(k, k', l)
  <2>1. CASE xQueueSendFromISR
    BY <1>1, <2>1, WakeAndYieldServes DEF xQueueSendFromISR
  <2>2. CASE xQueueReceiveFromISR
    BY <1>1, <2>2, WakeAndYieldServes DEF xQueueReceiveFromISR
  <2>3. QED
    BY <2>1, <2>2
<1>3. Woken(k, k') /\ Picks(k, k')
  BY <1>1, <1>2, ServedInterrupt
<1>4. pc' = pc /\ call' = call
  BY DEF xQueueSendFromISR, xQueueReceiveFromISR
<1>5. Choice(k, pc, call, k', pc', call')
  BY <1>3, <1>4 DEF Picks, Choice, Leaving
<1>6. QED
  BY <1>3, <1>5

\* What waiting does to them.
LEMMA PlaceEffect ==
  ASSUME QInv, NEW t \in Task, Place(t)
  PROVE  /\ Listed(k, k', t, Waiting(call[t].op), call[t].wait) /\ Choice(k, pc, call, k', pc', call')
         /\ Waiting(call[t].op) \in EventList /\ ~Awaits(k, t) /\ k.current = t
<1>1. /\ Runs(t, "q_place") /\ pc' = [pc EXCEPT ![t] = "q_unlock"] /\ call' = call
      /\ k' = vTaskPlaceOnEventList(k, t, Waiting(call[t].op), call[t].wait)
  BY DEF Place, Goto
<1>2. "q_place" \in QPlaces /\ "q_place" \notin {"yield", "resume", "q_yield"} \cup Parting /\ "q_unlock" \in Parting
  BY DEF QPlaces, Parting
<1>3. /\ Fit(k, {}) /\ Apart(k) /\ t # Idle /\ k.current = t /\ call[t] \in CallType /\ InCall("q_place", call[t])
      /\ pc \in [Task -> Places \cup QPlaces]
  BY <1>1, <1>2, QueueAssumption, Running
<1>4. IsReady(k, t) /\ ~Awaits(k, t)
  <2>1. ~Leaving(pc, call, t)
    BY <1>1, <1>2 DEF Leaving, Runs
  <2>2. QED
    BY <1>3, <2>1, RunningReady
<1>5. Waiting(call[t].op) \in EventList /\ call[t].wait \in portTickType
  BY <1>3, CallFields, QueueAssumption DEF Waiting
<1>6. Listed(k, k', t, Waiting(call[t].op), call[t].wait)
  BY <1>1, <1>3, <1>4, <1>5, PlaceLists
<1>7. Leaving(pc', call', k'.current)
  <2>1. k'.current = t /\ pc'[t] = "q_unlock" /\ call'[t].path = "block"
    BY <1>1, <1>3, <1>6 DEF Listed, InCall
  <2>2. QED
    BY <1>2, <2>1 DEF Leaving
<1>8. QED
  BY <1>3, <1>4, <1>5, <1>6, <1>7 DEF Choice

-----------------------------------------------------------------------------
(* The order of the event lists.                                           *)

\* Where vListInsert puts an item: behind those whose value is not greater, and
\* before the others if the list is sorted.
LEMMA InsertPoint ==
  ASSUME NEW s \in Seq(Task), NEW t \in Task, NEW value \in [Task -> Int],
         \A i, m \in DOMAIN s : i < m => value[s[i]] <= value[s[m]]
  PROVE  LET n == Cardinality({i \in DOMAIN s : \A j \in 1..i : value[s[j]] <= value[t]})
         IN /\ n \in 0..Len(s)
            /\ \A i \in 1..n : value[s[i]] <= value[t]
            /\ \A i \in n+1..Len(s) : value[t] <= value[s[i]]
<1> DEFINE N == {i \in DOMAIN s : \A j \in 1..i : value[s[j]] <= value[t]}
           z == Len(s)
           C == (1..z+1) \ N
<1>1. z \in Nat /\ DOMAIN s = 1..z /\ N \subseteq 1..z /\ z + 1 \in C /\ C \in SUBSET Nat
      /\ (\A i \in 1..z : s[i] \in Task /\ value[s[i]] \in Int) /\ value[t] \in Int
  OBVIOUS
<1>2. \A i \in N : \A j \in 1..i : j \in 1..z /\ value[s[j]] <= value[t]
  BY <1>1
<1>3. \A i \in 1..z : (\A j \in 1..i : value[s[j]] <= value[t]) => i \in N
  BY <1>1
<1> HIDE DEF N, z
<1>4. PICK m \in C : \A i \in C : m <= i
  BY <1>1, Least, Zenon
<1>5. m \in 1..z+1 /\ m \notin N /\ \A i \in 1..z+1 : i < m => i \in N
  BY <1>1, <1>4
<1>6. \A i \in N : i < m
  <2> SUFFICES ASSUME NEW i \in N, ~(i < m) PROVE FALSE
    OBVIOUS
  <2>1. i \in 1..z /\ m \in 1..i /\ m \in 1..z
    BY <1>1, <1>5
  <2>2. \A j \in 1..m : value[s[j]] <= value[t]
    BY <1>2, <2>1
  <2>3. QED
    BY <1>3, <1>5, <2>1, <2>2
<1>7. N = 1..m-1
  <2>1. ASSUME NEW i \in N PROVE i \in 1..m-1
    BY <1>1, <1>5, <1>6
  <2>2. ASSUME NEW i \in 1..m-1 PROVE i \in N
    BY <1>1, <1>5
  <2>3. QED
    BY <2>1, <2>2, Zenon
<1>8. Cardinality(N) = m - 1
  <2>1. \A b \in Int : Cardinality(1..b) = IF 1 > b THEN 0 ELSE b - 1 + 1
    BY FS_Interval
  <2>2. QED
    BY <1>1, <1>5, <1>7, <2>1
<1>9. \A i \in 1..m-1 : value[s[i]] <= value[t]
  <2> SUFFICES ASSUME NEW i \in 1..m-1 PROVE value[s[i]] <= value[t]
    OBVIOUS
  <2>1. i \in N /\ i \in 1..i
    BY <1>1, <1>5, <1>7
  <2>2. QED
    BY <1>2, <2>1
<1>10. \A i \in m..z : value[t] <= value[s[i]]
  <2> SUFFICES ASSUME NEW i \in m..z PROVE value[t] <= value[s[i]]
    OBVIOUS
  <2>1. m \in 1..z /\ i \in 1..z /\ m <= i
    BY <1>1, <1>5
  <2>2. PICK j \in 1..m : ~(value[s[j]] <= value[t])
    BY <1>3, <1>5, <2>1
  <2>3. j = m
    BY <1>1, <1>5, <1>9, <2>2
  <2>4. value[s[m]] <= value[s[i]]
    BY <1>1, <2>1
  <2>5. QED
    BY <1>1, <2>1, <2>2, <2>3, <2>4
<1>11. QED
  <2>1. m - 1 \in 0..z /\ (m - 1) + 1 = m
    BY <1>1, <1>5
  <2>2. QED
    BY <1>8, <1>9, <1>10, <2>1, Zenon DEF N, z

\* The entries of a list behind another.
LEMMA ConcatEntries ==
  ASSUME NEW T, NEW r \in Seq(T), NEW s \in Seq(T)
  PROVE  /\ DOMAIN (r \o s) = 1..Len(r)+Len(s)
         /\ \A i \in 1..Len(r) : (r \o s)[i] = r[i]
         /\ \A i \in Len(r)+1..Len(r)+Len(s) : (r \o s)[i] = s[i - Len(r)]
  OBVIOUS

\* A sorted list remains sorted.
LEMMA InsertSorts ==
  ASSUME NEW s \in Seq(Task), NEW t \in Task, NEW value \in [Task -> Int],
         \A i, m \in DOMAIN s : i < m => value[s[i]] <= value[s[m]]
  PROVE  \A i, m \in DOMAIN vListInsert(s, t, value) :
            i < m => value[vListInsert(s, t, value)[i]] <= value[vListInsert(s, t, value)[m]]
<1> DEFINE n == Cardinality({i \in DOMAIN s : \A j \in 1..i : value[s[j]] <= value[t]})
           z == Len(s)
           a == SubSeq(s, 1, n)
           b == SubSeq(s, n + 1, z)
           r == a \o <<t>> \o b
<1>1. vListInsert(s, t, value) = r
  BY DEF vListInsert
<1>2. /\ n \in 0..z
      /\ \A i \in 1..n : value[s[i]] <= value[t]
      /\ \A i \in n+1..z : value[t] <= value[s[i]]
  BY InsertPoint, Zenon
<1> HIDE DEF n
<1>3. z \in Nat /\ DOMAIN s = 1..z /\ (\A i \in 1..z : s[i] \in Task /\ value[s[i]] \in Int) /\ value[t] \in Int
  OBVIOUS
<1>4. /\ a \in Seq(Task) /\ b \in Seq(Task) /\ Len(a) = n /\ Len(b) = z - n
      /\ \A i \in 1..n : a[i] = s[i]
      /\ \A i \in 1..z-n : b[i] = s[i + n]
  <2>1. n \in 0..Len(s) /\ n \in Nat /\ Len(s) \in Nat
    BY <1>2
  <2>2. Len(a) = n /\ Len(b) = Len(s) - n /\ a \in Seq(Task) /\ b \in Seq(Task)
    BY <2>1
  <2>3. \A i \in 1..n : a[i] = s[i]
    BY <2>1
  <2>4. \A i \in 1..z-n : b[i] = s[i + n]
    BY <2>1
  <2>5. QED
    BY <2>2, <2>3, <2>4, Zenon
<1> HIDE DEF a, b
<1>5. /\ DOMAIN r = 1..z+1
      /\ \A i \in 1..n : r[i] = s[i]
      /\ r[n+1] = t
      /\ \A i \in n+2..z+1 : r[i] = s[i - 1]
  <2>1. a \o <<t>> \in Seq(Task) /\ Len(a \o <<t>>) = n + 1
        /\ (\A i \in 1..n : (a \o <<t>>)[i] = a[i]) /\ (a \o <<t>>)[n+1] = t
    BY <1>2, <1>3, <1>4
  <2> DEFINE c == a \o <<t>>
  <2>2. c \in Seq(Task) /\ Len(c) = n + 1 /\ (\A i \in 1..n : c[i] = a[i]) /\ c[n+1] = t /\ r = c \o b
    BY <2>1, Zenon
  <2> HIDE DEF c, r
  <2>3. /\ DOMAIN r = 1..z+1
        /\ \A i \in 1..n+1 : r[i] = c[i]
        /\ \A i \in n+2..z+1 : r[i] = b[i - (n + 1)]
    <3> DEFINE x == n + 1
               y == z - n
    <3>1. x \in Nat /\ y \in Nat /\ x + y = z + 1 /\ x + 1 = n + 2
      BY <1>2, <1>3
    <3>2. c \in Seq(Task) /\ b \in Seq(Task) /\ Len(c) = x /\ Len(b) = y
      BY <1>4, <2>2
    <3> HIDE DEF x, y
    <3>3. DOMAIN r = 1..x+y /\ (\A i \in 1..x : r[i] = c[i]) /\ (\A i \in x+1..x+y : r[i] = b[i - x])
      <4>1. /\ DOMAIN (c \o b) = 1..Len(c)+Len(b) /\ (\A i \in 1..Len(c) : (c \o b)[i] = c[i])
            /\ (\A i \in Len(c)+1..Len(c)+Len(b) : (c \o b)[i] = b[i - Len(c)])
        BY <3>2, ConcatEntries, Zenon
      <4>2. r = c \o b
        BY <2>2
      <4>3. QED
        BY <3>2, <4>1, <4>2, Zenon
    <3>4. QED
      BY <3>1, <3>3 DEF x
  <2>4. \A i \in n+2..z+1 : i - (n + 1) \in 1..z-n /\ (i - (n + 1)) + n = i - 1
    BY <1>2, <1>3
  <2>5. \A i \in 1..n : r[i] = s[i]
    BY <1>2, <1>4, <2>2, <2>3
  <2>6. r[n+1] = t
    BY <1>2, <2>2, <2>3
  <2>7. ASSUME NEW i \in n+2..z+1 PROVE r[i] = s[i - 1]
    <3>1. r[i] = b[i - (n + 1)] /\ b[i - (n + 1)] = s[(i - (n + 1)) + n]
      BY <1>4, <2>3, <2>4, Zenon
    <3>2. QED
      BY <2>4, <3>1
  <2>8. QED
    BY <2>3, <2>5, <2>6, <2>7
<1> HIDE DEF r
<1>6. ASSUME NEW i \in 1..z+1, NEW m \in 1..z+1, i < m PROVE value[r[i]] <= value[r[m]]
  <2> DEFINE u == IF i <= n THEN i ELSE i - 1
             v == IF m <= n THEN m ELSE m - 1
  <2>1. CASE i # n + 1 /\ m # n + 1
    <3>1. u \in 1..z /\ v \in 1..z /\ u < v
      BY <1>2, <1>3, <1>6, <2>1
    <3>2. i \in 1..n \/ i \in n+2..z+1
      BY <1>2, <1>3, <2>1
    <3>3. m \in 1..n \/ m \in n+2..z+1
      BY <1>2, <1>3, <2>1
    <3>4. r[i] = s[u]
      BY <1>2, <1>5, <3>2
    <3>5. r[m] = s[v]
      BY <1>2, <1>5, <3>3
    <3> HIDE DEF u, v
    <3>6. QED
      BY <1>3, <3>1, <3>4, <3>5, Zenon
  <2>2. CASE i = n + 1
    <3>1. r[i] = t /\ r[m] = s[m - 1] /\ m - 1 \in n+1..z
      BY <1>2, <1>3, <1>5, <1>6, <2>2
    <3>2. QED
      BY <1>2, <3>1, Zenon
  <2>3. CASE m = n + 1
    <3>1. r[m] = t /\ r[i] = s[i] /\ i \in 1..n
      BY <1>2, <1>3, <1>5, <1>6, <2>3
    <3>2. QED
      BY <1>2, <3>1
  <2>4. QED
    BY <2>1, <2>2, <2>3
<1>7. QED
  BY <1>1, <1>5, <1>6

\* The pairs of tasks of which the second one has no higher priority.
Below(j) == {pair \in Task \X Task : j.prio[pair[1]] >= j.prio[pair[2]]}

\* The items carry the priorities, and those of the event lists are in their
\* order.
Sorted(j) == j.item = j.prio /\ \A l \in EventList : Ordered(j.event[l], Below(j))

\* A list that tasks leave stays in order.
LEMMA SortedOnward ==
  ASSUME NEW j, NEW r, Sorted(j), Onward(j, r), r.prio = j.prio, r.item = j.item
  PROVE  Sorted(r)
<1>1. Below(r) = Below(j)
  BY DEF Below
<1>2. QED
  BY <1>1 DEF Sorted, Onward

\* A list that a task joins stays in order.
LEMMA SortedListed ==
  ASSUME NEW j \in Kernel, Sorted(j), NEW r, NEW t \in Task, NEW l \in EventList, NEW wait, Listed(j, r, t, l, wait)
  PROVE  Sorted(r)
<1> DEFINE value == [x \in Task |-> MaxPriorities - j.item[x]]
           s == j.event[l]
           u == vListInsert(s, t, value)
<1>1. r.prio = j.prio /\ r.item = j.item /\ r.event[l] = u /\ (\A x \in EventList : x # l => r.event[x] = j.event[x])
  BY DEF Listed
<1>2. s \in Seq(Task) /\ j.prio \in [Task -> Priority] /\ j.item = j.prio /\ MaxPriorities \in Nat /\ Priority \subseteq Nat
  BY PriorityFacts, SchedAssumption DEF Kernel, Sorted
<1>3. value \in [Task -> Int] /\ \A x, y \in Task : value[x] <= value[y] <=> j.prio[x] >= j.prio[y]
  <2>1. \A x \in Task : value[x] = MaxPriorities - j.prio[x] /\ j.prio[x] \in Nat
    BY <1>2, Zenon
  <2>2. DOMAIN value = Task /\ (\A x \in Task : value[x] \in Int) /\ value = [x \in Task |-> value[x]]
    BY <1>2, <2>1
  <2> HIDE DEF value
  <2>3. QED
    BY <1>2, <2>1, <2>2
<1> HIDE DEF value
<1>4. Below(r) = Below(j) /\ \A x, y \in Task : <<x, y>> \in Below(j) <=> j.prio[x] >= j.prio[y]
  BY <1>1 DEF Below
<1>5. \A i \in DOMAIN s : s[i] \in Task
  BY <1>2
<1>6. \A i, m \in DOMAIN s : i < m => value[s[i]] <= value[s[m]]
  BY <1>3, <1>4, <1>5, Zenon DEF Sorted, Ordered
<1>7. \A i, m \in DOMAIN u : i < m => value[u[i]] <= value[u[m]]
  BY <1>2, <1>3, <1>6, InsertSorts, Zenon
<1>8. u \in Seq(Task)
  BY <1>2, InsertFacts
<1> HIDE DEF u
<1>9. \A i \in DOMAIN u : u[i] \in Task
  BY <1>8
<1>10. Ordered(u, Below(j))
  BY <1>3, <1>4, <1>7, <1>9 DEF Ordered
<1>11. QED
  BY <1>1, <1>2, <1>4, <1>10 DEF Sorted

-----------------------------------------------------------------------------
(* The right task runs, and the event lists are sorted.                    *)

\* What entering a call does to the tasks.
LEMMA EnterEffect ==
  ASSUME QInv, NEW t \in Task, NEW op \in Ops[t], NEW wait, Enter(t, op, wait)
  PROVE  k' = k /\ Choice(k, pc, call, k', pc', call')
<1>1. Runs(t, "app") /\ k' = k
  BY DEF Enter
<1>2. k.current = t /\ ~Leaving(pc, call, t)
  BY <1>1 DEF Leaving, Parting, Runs
<1>3. QED
  BY <1>1, <1>2, ReadyChoice

\* What a step of the scheduler does to them.
LEMMA OutsideEffect ==
  ASSUME QInv, Next, UNCHANGED <<q, call>>
  PROVE  /\ Onward(k, k') /\ Choice(k, pc, call, k', pc', call') /\ k \in Kernel /\ k' \in Kernel
         /\ FixedPriorities => k'.prio = k.prio /\ k'.base = k.base /\ k'.item = k.item
<1>1. Outside(call, k, pc, due, k', pc', due') /\ k \in Kernel
  BY OutsideNext DEF QInv, Base, Core, Fit
<1>2. k' \in Kernel
  BY <1>1 DEF Outside, Core, Fit
<1>3. call' = call
  OBVIOUS
<1>4. Choice(k, pc, call, k', pc', call')
  BY <1>1, <1>3 DEF Outside, Choice
<1>5. ASSUME FixedPriorities PROVE k'.prio = k.prio /\ k'.base = k.base /\ k'.item = k.item
  <2>1. \A t \in Task : k'.prio[t] = k.prio[t] /\ k'.base[t] = k.base[t] /\ k'.item[t] = k.item[t]
    BY <1>1, <1>5 DEF Outside
  <2>2. /\ k.prio \in [Task -> Priority] /\ k.base \in [Task -> Priority] /\ k.item \in [Task -> Priority]
        /\ k'.prio \in [Task -> Priority] /\ k'.base \in [Task -> Priority] /\ k'.item \in [Task -> Priority]
    BY <1>1, <1>2, Zenon DEF Kernel
  <2>3. QED
    BY <2>1, <2>2
<1>6. QED
  BY <1>1, <1>2, <1>4, <1>5 DEF Outside

\* One list is joined, or none is; the priorities change with vTaskPrioritySet
\* alone.
Joins(j, r) == \E t \in Task, l \in EventList, wait \in portTickType : Listed(j, r, t, l, wait)
Leaves(j, r) == Onward(j, r) /\ (FixedPriorities => r.prio = j.prio /\ r.item = j.item)

\* What a step does to them.
LEMMA StepEffect ==
  ASSUME QInv, QNext
  PROVE  Choice(k, pc, call, k', pc', call') /\ (Leaves(k, k') \/ Joins(k, k'))
<1>1. ASSUME NEW t \in Task, QueueStep(t) PROVE Choice(k, pc, call, k', pc', call') /\ (Leaves(k, k') \/ Joins(k, k'))
  <2>1. CASE Transfer(t)
    BY <2>1, TransferEffect DEF Woken, Leaves
  <2>2. CASE Place(t)
    <3>1. call[t] \in CallType
      BY DEF QInv, Base, Core
    <3>2. call[t].wait \in portTickType
      BY <3>1, CallFields
    <3>3. QED
      BY <2>2, <3>2, PlaceEffect DEF Joins
  <2>3. CASE LoopStep(t)
    BY <2>3, LoopEffect DEF Woken, Leaves
  <2>4. QED
    BY <1>1, <2>1, <2>2, <2>3 DEF QueueStep
<1>2. ASSUME NEW t \in Task, NEW op \in Ops[t], NEW wait, Enter(t, op, wait)
      PROVE  Choice(k, pc, call, k', pc', call') /\ (Leaves(k, k') \/ Joins(k, k'))
  <2>1. k' = k /\ Choice(k, pc, call, k', pc', call')
    BY <1>2, EnterEffect
  <2>2. Onward(k, k)
    BY OnwardSame
  <2>3. QED
    BY <2>1, <2>2 DEF Leaves
<1>3. CASE xQueueSendFromISR \/ xQueueReceiveFromISR
  BY <1>3, InterruptEffect DEF Woken, Leaves
<1>4. CASE Next /\ UNCHANGED <<q, call>>
  BY <1>4, OutsideEffect DEF Leaves
<1>5. QED
  BY <1>1, <1>2, <1>3, <1>4 DEF QNext, QueueActions

\* A task that is not about to yield is the right one.
Right == ~Leaving(pc, call, k.current) => Chosen(k)

\* Every step leaves the right task running.
LEMMA RightKeeps == QInv /\ Right /\ [QNext]_qvars => Right'
<1> SUFFICES ASSUME QInv, Right, [QNext]_qvars PROVE Right'
  OBVIOUS
<1>1. CASE UNCHANGED qvars
  BY <1>1 DEF qvars, Right
<1>2. CASE QNext
  BY <1>2, StepEffect DEF Choice, Right
<1>3. QED
  BY <1>1, <1>2

\* The right task runs at first.
LEMMA RightStarts == QInit => Right
<1> SUFFICES ASSUME QInit PROVE Right
  OBVIOUS
<1>1. Good(k, pc, due) /\ pc = [t \in Task |-> "app"] /\ k.current \in Task
  BY InitGood DEF QInit, Init, IInv, Good, Fit, Kernel
<1>2. QED
  BY <1>1 DEF Good, Right

\* The right task is one of the highest priority.
LEMMA RightRuns == QInv /\ Right => HighestRuns
<1> SUFFICES ASSUME QInv, Right, k.susp = 0, pc[k.current] \notin {"yield", "q_yield"} PROVE Chosen(k)
  BY DEF HighestRuns, Chosen
<1>1. pc[k.current] \notin Locking \cup QLocking
  BY DEF QInv, Base, Core
<1>2. ~Leaving(pc, call, k.current)
  BY <1>1 DEF Leaving, Locking, QLocking, Parting
<1>3. QED
  BY <1>2 DEF Right

\* The event lists are empty at first.
LEMMA SortedStarts == QInit => Sorted(k)
<1> SUFFICES ASSUME QInit PROVE Sorted(k)
  OBVIOUS
<1>1. k.item = k.prio /\ k.event = [l \in EventList |-> <<>>]
  BY Zenon DEF QInit, Init
<1>2. \A R : Ordered(<<>>, R)
  BY DEF Ordered
<1>3. QED
  BY <1>1, <1>2 DEF Sorted

\* Every step leaves them in order.
LEMMA SortedKeeps == ASSUME FixedPriorities PROVE QInv /\ Sorted(k) /\ [QNext]_qvars => Sorted(k')
<1> SUFFICES ASSUME QInv, Sorted(k), [QNext]_qvars PROVE Sorted(k')
  OBVIOUS
<1>1. CASE UNCHANGED qvars
  BY <1>1 DEF qvars
<1>2. CASE QNext
  <2>1. CASE Leaves(k, k')
    BY <2>1, SortedOnward DEF Leaves
  <2>2. CASE Joins(k, k')
    <3>1. k \in Kernel
      BY DEF QInv, Base, Core, Fit
    <3>2. QED
      BY <2>2, <3>1, SortedListed DEF Joins
  <2>3. QED
    BY <1>2, <2>1, <2>2, StepEffect
<1>3. QED
  BY <1>1, <1>2

\* The first of a list that is in order has the highest priority.
LEMMA SortedServes == QInv /\ Sorted(k) => SortedByPriority
<1> SUFFICES ASSUME QInv, Sorted(k), NEW l \in EventList, NEW i \in DOMAIN k.event[l], NEW j \in DOMAIN k.event[l], i < j
             PROVE  k.prio[k.event[l][i]] >= k.prio[k.event[l][j]]
  BY DEF SortedByPriority
<1>1. <<k.event[l][i], k.event[l][j]>> \in Below(k)
  BY DEF Sorted, Ordered
<1>2. QED
  BY <1>1 DEF Below

\* Also with the queue, the running task is one of the highest priority that can
\* run, but for one that is about to yield.
THEOREM QueueHighestRuns == QSpec => []HighestRuns
<1>1. QInit => Right
  BY RightStarts
<1>2. QInv /\ Right /\ [QNext]_qvars => Right'
  BY RightKeeps
<1>3. QInv /\ Right => HighestRuns
  BY RightRuns
<1>4. QED
  BY <1>1, <1>2, <1>3, QueueInvariance, PTL DEF QSpec

\* While no task changes a priority, the first task of each event list is one of
\* the highest priority in it: vListInsert() keeps the order, and neither a
\* timeout nor a deletion nor an event disturbs it.
THEOREM EventListsSorted == ASSUME FixedPriorities PROVE QSpec => []SortedByPriority
<1>1. QInit => Sorted(k)
  BY SortedStarts
<1>2. QInv /\ Sorted(k) /\ [QNext]_qvars => Sorted(k)'
  BY SortedKeeps
<1>3. QInv /\ Sorted(k) => SortedByPriority
  BY SortedServes
<1>4. QED
  BY <1>1, <1>2, <1>3, QueueInvariance, PTL DEF QSpec

-----------------------------------------------------------------------------
(* No wakeup is lost: the items of the queue and the tasks on their way to *)
(* fetch them are counted, and so are the free places.                     *)

\* A task that is at p in the call c is on its way to the queue, or from the list
\* l that it has joined to its yield.
Comes(p, c, l) ==
    /\ c.op # "none" /\ Waiting(c.op) = l
    /\ p \in {"q_top", "q_yield"} \/ (p \in Parting /\ c.path = "block")

\* The tasks that come and do not wait.
Coming(j, at, c, l) == {x \in Task : Comes(at[x], c[x], l) /\ x \notin ToSet(j.event[l])}

\* Tasks wait in l, or one is about to.
Needed(j, at, c, l) ==
    ToSet(j.event[l]) # {} \/ (at[j.current] = "q_place" /\ Waiting(c[j.current].op) = l)

\* What the tasks of l wait for, and what has been counted for them.
Stock(m, l) == IF l = "toReceive" THEN m.messages ELSE Length - m.messages
Lock(m, l) == IF l = "toReceive" THEN m.txLock ELSE m.rxLock
Count(lock) == IF lock > 0 THEN lock ELSE 0

Enough(j, at, c, m, l) ==
    Needed(j, at, c, l) => Stock(m, l) <= Cardinality(Coming(j, at, c, l)) + Count(Lock(m, l))

\* Those that wait come too once they are woken.
Passing(j, at, c) == \A l \in EventList : \A x \in ToSet(j.event[l]) : Comes(at[x], c[x], l)

Supplied == Passing(k, pc, call) /\ \A l \in EventList : Enough(k, pc, call, q, l)

\* There are finitely many tasks.
LEMMA TaskFinite == IsFiniteSet(Task)
  BY CreatedFacts, Members

\* From j to r the tasks of W leave the list l and join those that come, and those
\* of D leave them.
Shift(j, r, at, bt, c, b, l, W, D) ==
    /\ W \subseteq ToSet(j.event[l]) /\ W \subseteq Task /\ D \subseteq Task /\ W \cap D = {}
    /\ ToSet(r.event[l]) \subseteq ToSet(j.event[l]) \ W
    /\ \A x \in Task \ D : Comes(at[x], c[x], l) => Comes(bt[x], b[x], l)
    /\ \A x \in W : Comes(at[x], c[x], l)

\* The tasks that come are counted.
LEMMA ComingCount ==
  ASSUME NEW j, NEW r, NEW at, NEW bt, NEW c, NEW b, NEW l, NEW W, NEW D, Shift(j, r, at, bt, c, b, l, W, D)
  PROVE  /\ Cardinality(Coming(r, bt, b, l)) + Cardinality(D) >= Cardinality(Coming(j, at, c, l)) + Cardinality(W)
         /\ Cardinality(Coming(r, bt, b, l)) \in Nat /\ Cardinality(Coming(j, at, c, l)) \in Nat
         /\ Cardinality(D) \in Nat /\ Cardinality(W) \in Nat
<1> DEFINE C == Coming(j, at, c, l)
           B == Coming(r, bt, b, l)
<1>1. C \subseteq Task /\ B \subseteq Task /\ C \cap W = {} /\ C \cup W \subseteq B \cup D
  BY DEF Coming, Shift
<1> HIDE DEF C, B
<1>2. IsFiniteSet(C) /\ IsFiniteSet(B) /\ IsFiniteSet(W) /\ IsFiniteSet(D)
  BY <1>1, TaskFinite, FS_Subset DEF Shift
<1>3. /\ Cardinality(C) \in Nat /\ Cardinality(B) \in Nat /\ Cardinality(W) \in Nat /\ Cardinality(D) \in Nat
      /\ Cardinality(B \cap D) \in Nat /\ Cardinality(C \cap W) = 0
  <2>1. IsFiniteSet(B \cap D)
    BY <1>2, FS_Intersection
  <2>2. QED
    BY <1>1, <1>2, <2>1, FS_CardinalityType, FS_EmptySet, Zenon
<1>4. /\ IsFiniteSet(B \cup D) /\ Cardinality(B \cup D) = Cardinality(B) + Cardinality(D) - Cardinality(B \cap D)
      /\ Cardinality(C \cup W) = Cardinality(C) + Cardinality(W) - Cardinality(C \cap W)
  BY <1>2, FS_Union
<1>5. Cardinality(C \cup W) <= Cardinality(B \cup D)
  BY <1>1, <1>4, FS_Subset
<1>6. QED
  BY <1>3, <1>4, <1>5 DEF C, B

\* Then there is enough again, if the stock has changed no more than that.
LEMMA EnoughAfter ==
  ASSUME NEW j, NEW r, NEW at, NEW bt, NEW c, NEW b, NEW l, NEW m, NEW n, NEW W, NEW D,
         Shift(j, r, at, bt, c, b, l, W, D),
         Enough(j, at, c, m, l), Needed(r, bt, b, l) => Needed(j, at, c, l),
         Stock(m, l) \in Int, Stock(n, l) \in Int, Lock(m, l) \in Int, Lock(n, l) \in Int,
         Stock(n, l) + Cardinality(D) + Count(Lock(m, l)) <= Stock(m, l) + Cardinality(W) + Count(Lock(n, l))
  PROVE  Enough(r, bt, b, n, l)
<1> DEFINE C == Cardinality(Coming(j, at, c, l))
           B == Cardinality(Coming(r, bt, b, l))
<1>1. B + Cardinality(D) >= C + Cardinality(W) /\ B \in Nat /\ C \in Nat /\ Cardinality(D) \in Nat /\ Cardinality(W) \in Nat
  <2>1. /\ Cardinality(Coming(r, bt, b, l)) + Cardinality(D) >= Cardinality(Coming(j, at, c, l)) + Cardinality(W)
        /\ Cardinality(Coming(r, bt, b, l)) \in Nat /\ Cardinality(Coming(j, at, c, l)) \in Nat
        /\ Cardinality(D) \in Nat /\ Cardinality(W) \in Nat
    BY ComingCount
  <2>2. QED
    BY <2>1
<1>2. Count(Lock(m, l)) \in Nat /\ Count(Lock(n, l)) \in Nat
  BY DEF Count
<1>3. Needed(r, bt, b, l) => Stock(m, l) <= C + Count(Lock(m, l))
  BY DEF Enough
<1> HIDE DEF C, B
<1>4. Needed(r, bt, b, l) => Stock(n, l) <= B + Count(Lock(n, l))
  BY <1>1, <1>2, <1>3
<1>5. QED
  BY <1>4 DEF Enough, B

\* What a step of the running task t within a call leaves, if it does not come to
\* wait for l.
LEMMA MovedEnough ==
  ASSUME QInv, Supplied, NEW t \in Task, k.current = t, k'.current \in Task, NEW p, pc' = [pc EXCEPT ![t] = p],
         NEW c, call' = [call EXCEPT ![t] = c], NEW l \in EventList,
         NEW W \in SUBSET ToSet(k.event[l]), ToSet(k'.event[l]) \subseteq ToSet(k.event[l]) \ W,
         NEW D \in {{}, {t}}, D = {} => (Comes(pc[t], call[t], l) => Comes(p, c, l)), D # {} => ~Awaits(k, t),
         p = "q_place" => Waiting(c.op) # l \/ pc[t] = "q_place",
         pc[t] = "q_place" => c.op = call[t].op,
         q' \in [messages : 0..Length, txLock : -1..MaxLock, rxLock : -1..MaxLock],
         Stock(q', l) + Cardinality(D) + Count(Lock(q, l)) <= Stock(q, l) + Cardinality(W) + Count(Lock(q', l))
  PROVE  Enough(k', pc', call', q', l)
<1>1. /\ pc \in [Task -> Places \cup QPlaces] /\ call \in [Task -> CallType]
      /\ \A x \in Task \ {t} : pc[x] \notin QLocking
      /\ k \in Kernel /\ q \in [messages : 0..Length, txLock : -1..MaxLock, rxLock : -1..MaxLock]
  BY Zenon DEF QInv, Base, Core, Fit, Ring
<1>2. /\ pc'[t] = p /\ call'[t] = c /\ \A x \in Task \ {t} : pc'[x] = pc[x] /\ call'[x] = call[x]
  BY <1>1
<1>3. W \subseteq Task /\ D \in SUBSET Task /\ W \cap D = {}
  <2>1. W \subseteq Task
    BY <1>1 DEF Kernel, ToSet
  <2>2. QED
    BY <2>1 DEF Awaits
<1>4. \A x \in Task \ D : Comes(pc[x], call[x], l) => Comes(pc'[x], call'[x], l)
  BY <1>2
<1>5. \A x \in W : Comes(pc[x], call[x], l)
  BY DEF Supplied, Passing
<1>6. Needed(k', pc', call', l) => Needed(k, pc, call, l)
  <2> SUFFICES ASSUME pc'[k'.current] = "q_place", Waiting(call'[k'.current].op) = l PROVE Needed(k, pc, call, l)
    BY DEF Needed
  <2>1. k'.current = t
    <3>1. "q_place" \in QLocking
      BY DEF QLocking
    <3>2. QED
      BY <1>1, <1>2, <3>1
  <2>2. QED
    BY <1>2, <2>1 DEF Needed
<1>7. Shift(k, k', pc, pc', call, call', l, W, D)
  BY <1>3, <1>4, <1>5 DEF Shift
<1>8. /\ Stock(q, l) \in Int /\ Stock(q', l) \in Int /\ Lock(q, l) \in Int /\ Lock(q', l) \in Int
  BY <1>1, QueueAssumption DEF Stock, Lock
<1>9. Enough(k, pc, call, q, l)
  BY DEF Supplied
<1>10. QED
  BY <1>6, <1>7, <1>8, <1>9, EnoughAfter

\* Those that wait come to the queue also after a step of the running task t, if it
\* does when it is one of them.
LEMMA MovedPassing ==
  ASSUME QInv, Passing(k, pc, call), NEW t \in Task, NEW p, pc' = [pc EXCEPT ![t] = p], NEW c, call' = [call EXCEPT ![t] = c],
         Onward(k, k'), Awaits(k, t) => \A l \in EventList : Comes(pc[t], call[t], l) => Comes(p, c, l)
  PROVE  Passing(k', pc', call')
<1> SUFFICES ASSUME NEW l \in EventList, NEW x \in ToSet(k'.event[l]) PROVE Comes(pc'[x], call'[x], l)
  BY DEF Passing
<1>1. /\ pc \in [Task -> Places \cup QPlaces] /\ call \in [Task -> CallType] /\ k \in Kernel
  BY DEF QInv, Base, Core, Fit
<1>2. x \in ToSet(k.event[l]) /\ Awaits(k, x) /\ x \in Task
  <2>1. x \in ToSet(k.event[l])
    BY DEF Onward
  <2>2. k.event[l] \in Seq(Task)
    BY <1>1 DEF Kernel
  <2>3. QED
    BY <2>1, <2>2 DEF Awaits, ToSet
<1>3. Comes(pc[x], call[x], l)
  BY <1>2 DEF Passing
<1>4. QED
  BY <1>1, <1>2, <1>3

\* A step of the running task that comes to nothing new, and leaves no list.
LEMMA MovedSupplied ==
  ASSUME QInv, Supplied, NEW t \in Task, k.current = t, k'.current \in Task, NEW p, pc' = [pc EXCEPT ![t] = p],
         NEW c, call' = [call EXCEPT ![t] = c], Onward(k, k'),
         \A l \in EventList : Comes(pc[t], call[t], l) => Comes(p, c, l),
         p = "q_place" => pc[t] = "q_place", pc[t] = "q_place" => c.op = call[t].op,
         q' \in [messages : 0..Length, txLock : -1..MaxLock, rxLock : -1..MaxLock],
         \A l \in EventList : Stock(q', l) + Count(Lock(q, l)) <= Stock(q, l) + Count(Lock(q', l))
  PROVE  Supplied'
<1>1. Passing(k', pc', call')
  BY MovedPassing, Zenon DEF Supplied
<1>2. ASSUME NEW l \in EventList PROVE Enough(k', pc', call', q', l)
  <2>1. {} \in SUBSET ToSet(k.event[l]) /\ ToSet(k'.event[l]) \subseteq ToSet(k.event[l]) \ {} /\ {} \in {{}, {t}}
        /\ Cardinality({}) = 0
    BY FS_EmptySet DEF Onward
  <2>2. q \in [messages : 0..Length, txLock : -1..MaxLock, rxLock : -1..MaxLock]
    BY DEF QInv, Base, Ring
  <2>3. Stock(q', l) + Cardinality({}) + Count(Lock(q, l)) <= Stock(q, l) + Cardinality({}) + Count(Lock(q', l))
    <3>1. /\ Stock(q', l) \in Int /\ Stock(q, l) \in Int /\ Count(Lock(q, l)) \in Int /\ Count(Lock(q', l)) \in Int
      BY <2>2, QueueAssumption DEF Stock, Lock, Count
    <3>2. QED
      BY <2>1, <3>1
  <2>4. Comes(pc[t], call[t], l) => Comes(p, c, l)
    OBVIOUS
  <2> DEFINE N == {}
  <2>5. /\ N \in SUBSET ToSet(k.event[l]) /\ ToSet(k'.event[l]) \subseteq ToSet(k.event[l]) \ N /\ N \in {{}, {t}}
        /\ N = {} => (Comes(pc[t], call[t], l) => Comes(p, c, l))
        /\ N # {} => ~Awaits(k, t)
        /\ Stock(q', l) + Cardinality(N) + Count(Lock(q, l)) <= Stock(q, l) + Cardinality(N) + Count(Lock(q', l))
        /\ (p = "q_place" => Waiting(c.op) # l \/ pc[t] = "q_place")
    BY <2>1, <2>3, <2>4
  <2> HIDE DEF N
  <2>6. QED
    BY <2>5, MovedEnough, Zenon
<1>3. QED
  BY <1>1, <1>2, Zenon DEF Supplied

\* A call that must wait leaves nothing to fetch, or no room.
LEMMA NothingLeft ==
  ASSUME QInv, NEW op \in {"send", "receive", "peek"}, MustWait(op)
  PROVE  Stock(q, Waiting(op)) = 0
<1>1. q \in [messages : 0..Length, txLock : -1..MaxLock, rxLock : -1..MaxLock]
  BY DEF QInv, Base, Ring
<1>2. QED
  BY <1>1, QueueAssumption DEF MustWait, prvIsQueueEmpty, prvIsQueueFull, Stock, Waiting

\* There is always somebody for each of no items.
LEMMA EnoughOfNone == ASSUME NEW j, NEW at, NEW c, NEW m, NEW l, Stock(m, l) = 0, Lock(m, l) \in Int PROVE Enough(j, at, c, m, l)
<1>1. Coming(j, at, c, l) \subseteq Task
  BY DEF Coming
<1>2. Cardinality(Coming(j, at, c, l)) \in Nat
  BY <1>1, TaskFinite, FS_Subset, FS_CardinalityType
<1>3. Count(Lock(m, l)) \in Nat
  BY DEF Count
<1>4. QED
  BY <1>1, <1>2, <1>3 DEF Enough

\* Such a call may turn away from the queue, or to its event list.
LEMMA WaitSupplied ==
  ASSUME QInv, Supplied, NEW t \in Task, k.current = t, k' = k, q' = q, NEW p, pc' = [pc EXCEPT ![t] = p],
         NEW c, call' = [call EXCEPT ![t] = c], call[t].op \in {"send", "receive", "peek"}, MustWait(call[t].op),
         ~Awaits(k, t), pc[t] # "q_place", p # "q_place" \/ c.op = call[t].op
  PROVE  Supplied'
<1>1. Onward(k, k)
  BY OnwardSame
<1>2. Passing(k', pc', call')
  BY <1>1, MovedPassing, Zenon DEF Supplied
<1>3. k.current \in Task /\ q \in [messages : 0..Length, txLock : -1..MaxLock, rxLock : -1..MaxLock]
  BY DEF QInv, Base, Ring
<1>4. ASSUME NEW l \in EventList PROVE Enough(k', pc', call', q', l)
  <2>1. CASE l = Waiting(call[t].op)
    <3>1. Lock(q, l) \in Int /\ Stock(q, l) = 0
      BY <1>3, <2>1, NothingLeft, QueueAssumption DEF Lock
    <3>2. QED
      BY <3>1, EnoughOfNone
  <2>2. CASE l # Waiting(call[t].op)
    <3> DEFINE N == {}
    <3>1. ~Comes(pc[t], call[t], l)
      BY <2>2 DEF Comes
    <3>2. /\ Stock(q, l) \in Int /\ Count(Lock(q, l)) \in Int /\ Cardinality(N) = 0
      BY <1>3, QueueAssumption, FS_EmptySet DEF Stock, Lock, Count
    <3>3. /\ N \in SUBSET ToSet(k.event[l]) /\ ToSet(k'.event[l]) \subseteq ToSet(k.event[l]) \ N /\ N \in {{}, {t}}
          /\ N = {} => (Comes(pc[t], call[t], l) => Comes(p, c, l))
          /\ N # {} => ~Awaits(k, t)
          /\ (p = "q_place" => Waiting(c.op) # l \/ pc[t] = "q_place")
      BY <2>2, <3>1
    <3>4. Stock(q', l) + Cardinality(N) + Count(Lock(q, l)) <= Stock(q, l) + Cardinality(N) + Count(Lock(q', l))
      BY <3>2
    <3>5. k'.current \in Task /\ q' \in [messages : 0..Length, txLock : -1..MaxLock, rxLock : -1..MaxLock]
      BY <1>3
    <3> HIDE DEF N
    <3>6. QED
      BY <3>3, <3>4, <3>5, MovedEnough, Zenon
  <2>3. QED
    BY <2>1, <2>2
<1>5. QED
  BY <1>2, <1>4, Zenon DEF Supplied

\* prvUnlockQueue wakes a task for each transfer that its lock has counted.
LEMMA UnlockSupplied ==
  ASSUME QInv, Supplied, NEW t \in Task, NEW o \in {"q_unlock", "q_unlock_rx"}, Runs(t, o), NEW l \in EventList,
         k' = WakeCounted(k, l, Lock(q, l)), NEW p \in Parting, pc' = [pc EXCEPT ![t] = p], call' = call,
         q' \in [messages : 0..Length, txLock : -1..MaxLock, rxLock : -1..MaxLock], q'.messages = q.messages,
         Lock(q', l) = queueUNLOCKED, \A x \in EventList : x # l => Lock(q', x) = Lock(q, x)
  PROVE  Supplied'
<1>1. /\ k.current = t /\ pc[t] = o /\ o # "q_place" /\ p # "q_place" /\ o \in Parting /\ o \notin {"q_top", "q_yield"}
      /\ p \notin {"q_top", "q_yield"}
  BY DEF Runs, Parting
<1>2. /\ pc \in [Task -> Places \cup QPlaces] /\ call \in [Task -> CallType] /\ Waiters(k, call)
      /\ q \in [messages : 0..Length, txLock : -1..MaxLock, rxLock : -1..MaxLock]
  BY DEF QInv, Base, Core, Ring
<1>3. \A x \in EventList : /\ Lock(q, x) \in Int /\ Stock(q, x) \in Int /\ Stock(q', x) = Stock(q, x)
                           /\ Count(Lock(q, x)) \in Int
  BY <1>2, QueueAssumption DEF Lock, Stock, Count
<1>4. PICK W \in SUBSET ToSet(k.event[l]) :
         /\ Released(k, k', W) /\ IsFiniteSet(W)
         /\ W = ToSet(k.event[l]) \/ Cardinality(W) = IF Lock(q, l) > 0 THEN Lock(q, l) ELSE 0
  BY <1>3, UnlockIs, Zenon
<1>5. /\ Onward(k, k') /\ k'.current = t /\ \A x \in EventList : ToSet(k'.event[x]) = ToSet(k.event[x]) \ W
  BY <1>1, <1>4 DEF Released, Woken
<1>6. call' = [call EXCEPT ![t] = call[t]]
  BY <1>2
<1>7. \A x \in EventList : Comes(pc[t], call[t], x) => Comes(p, call[t], x)
  BY <1>1 DEF Comes
<1>8. Passing(k', pc', call')
  BY <1>5, <1>6, <1>7, MovedPassing, Zenon DEF Supplied
<1>9. ASSUME NEW x \in EventList, NEW V \in SUBSET ToSet(k.event[x]), ToSet(k'.event[x]) \subseteq ToSet(k.event[x]) \ V,
             Stock(q', x) + Cardinality({}) + Count(Lock(q, x)) <= Stock(q, x) + Cardinality(V) + Count(Lock(q', x))
      PROVE  Enough(k', pc', call', q', x)
  <2> DEFINE N == {}
  <2>1. /\ N \in {{}, {t}} /\ (N = {} => (Comes(pc[t], call[t], x) => Comes(p, call[t], x)))
        /\ (N # {} => ~Awaits(k, t))
        /\ (p = "q_place" => Waiting(call[t].op) # x \/ pc[t] = "q_place")
        /\ Stock(q', x) + Cardinality(N) + Count(Lock(q, x)) <= Stock(q, x) + Cardinality(V) + Count(Lock(q', x))
    BY <1>1, <1>7, <1>9
  <2>2. k'.current \in Task /\ k.current = t
    BY <1>1, <1>5
  <2> HIDE DEF N
  <2>3. QED
    BY <1>1, <1>6, <1>9, <2>1, <2>2, MovedEnough, Zenon
<1>10. ASSUME NEW x \in EventList, x # l PROVE Enough(k', pc', call', q', x)
  <2> DEFINE V == {}
  <2>1. V \in SUBSET ToSet(k.event[x]) /\ ToSet(k'.event[x]) \subseteq ToSet(k.event[x]) \ V /\ Cardinality(V) = 0
    BY <1>5, FS_EmptySet
  <2>2. Stock(q', x) + Cardinality({}) + Count(Lock(q, x)) <= Stock(q, x) + Cardinality(V) + Count(Lock(q', x))
    BY <1>3, <1>10, <2>1, FS_EmptySet
  <2> HIDE DEF V
  <2>3. QED
    BY <1>9, <2>1, <2>2, Zenon
<1>11. Enough(k', pc', call', q', l)
  <2>1. CASE W = ToSet(k.event[l])
    <3>1. ToSet(k'.event[l]) = {} /\ pc'[k'.current] = p
      BY <1>2, <1>5, <2>1
    <3>2. QED
      BY <1>1, <3>1 DEF Enough, Needed
  <2>2. CASE W # ToSet(k.event[l])
    <3>1. Cardinality(W) = Count(Lock(q, l)) /\ Count(Lock(q', l)) = 0 /\ Cardinality({}) = 0
      BY <1>4, <2>2, FS_EmptySet DEF Count, queueUNLOCKED
    <3>2. Stock(q', l) + Cardinality({}) + Count(Lock(q, l)) <= Stock(q, l) + Cardinality(W) + Count(Lock(q', l))
      BY <1>3, <3>1
    <3>3. QED
      BY <1>5, <1>9, <3>2, Zenon
  <2>3. QED
    BY <2>1, <2>2
<1>12. QED
  BY <1>8, <1>10, <1>11, Zenon DEF Supplied

\* A call that comes to its yield is still coming.
LEMMA ResumeSupplied == ASSUME QInv, Supplied, NEW t \in Task, QueueResume(t) PROVE Supplied'
<1> DEFINE path == call[t].path
           r == xTaskResumeAll(k)
           p == IF path = "fail" THEN "app" ELSE IF path = "block" /\ ~r.yielded THEN "q_yield" ELSE "q_top"
           c == IF path = "fail" THEN NoCall ELSE call[t]
<1>1. Runs(t, "q_resume") /\ q' = q
  BY DEF QueueResume, ResumeAll
<1>2. /\ call \in [Task -> CallType] /\ path \in {"block", "retry", "fail"} /\ pc[t] = "q_resume" /\ k.current = t
      /\ q \in [messages : 0..Length, txLock : -1..MaxLock, rxLock : -1..MaxLock]
  <2>1. call \in [Task -> CallType] /\ q \in [messages : 0..Length, txLock : -1..MaxLock, rxLock : -1..MaxLock]
    BY DEF QInv, Base, Core, Ring
  <2>2. QED
    BY <1>1, <2>1, CallFields DEF Runs
<1>3. pc' = [pc EXCEPT ![t] = p] /\ call' = [call EXCEPT ![t] = c]
  <2>1. pc' = [pc EXCEPT ![t] = IF r.yielded THEN (IF path = "fail" THEN "app" ELSE "q_top")
                 ELSE CASE path = "block" -> "q_yield" [] path = "retry" -> "q_top" [] path = "fail" -> "app"]
    BY DEF QueueResume, ResumeAll, Goto
  <2>2. call' = IF path = "fail" THEN [call EXCEPT ![t] = NoCall] ELSE call
    BY DEF QueueResume
  <2> HIDE DEF r
  <2>3. call' = [call EXCEPT ![t] = c]
    BY <1>2, <2>2, Zenon
  <2>4. CASE path = "block"
    BY <1>2, <2>1, <2>3, <2>4, Zenon
  <2>5. CASE path = "retry"
    BY <1>2, <2>1, <2>3, <2>5
  <2>6. CASE path = "fail"
    BY <1>2, <2>1, <2>3, <2>6
  <2>7. QED
    BY <1>2, <2>4, <2>5, <2>6
<1>4. Woken(k, k')
  BY LoopEffect DEF LoopStep
<1>5. Onward(k, k') /\ k'.current \in Task
  BY <1>4 DEF Woken, Fit, Kernel
<1>6. p \in {"app", "q_top", "q_yield"} /\ (path = "block" => p \in {"q_top", "q_yield"} /\ c = call[t])
  OBVIOUS
<1> HIDE DEF p, r, c
<1>7. \A l \in EventList : Comes(pc[t], call[t], l) => Comes(p, c, l)
  BY <1>2, <1>6 DEF Comes
<1>8. (p = "q_place" => pc[t] = "q_place") /\ (pc[t] = "q_place" => c.op = call[t].op)
  BY <1>2, <1>6
<1>9. \A l \in EventList : Stock(q', l) + Count(Lock(q, l)) <= Stock(q, l) + Count(Lock(q', l))
  BY <1>1, <1>2, QueueAssumption DEF Stock, Lock, Count
<1>10. q' \in [messages : 0..Length, txLock : -1..MaxLock, rxLock : -1..MaxLock]
  BY <1>1, <1>2
<1>11. QED
  BY <1>2, <1>3, <1>5, <1>7, <1>8, <1>9, <1>10, MovedSupplied, Zenon

\* A step that leaves the kernel and the queue alone, or suspends the scheduler.
LEMMA QuietSupplied ==
  ASSUME QInv, Supplied, NEW t \in Task, NEW o, Runs(t, o), o \notin {"q_top", "q_yield", "q_place"} \cup Parting,
         Woken(k, k'), NEW p, p # "q_place", pc' = [pc EXCEPT ![t] = p], NEW c, call' = [call EXCEPT ![t] = c],
         q' \in [messages : 0..Length, txLock : -1..MaxLock, rxLock : -1..MaxLock],
         \A l \in EventList : Stock(q', l) = Stock(q, l) /\ Count(Lock(q', l)) = Count(Lock(q, l))
  PROVE  Supplied'
<1>1. k.current = t /\ pc[t] = o /\ k'.current \in Task /\ Onward(k, k')
  BY DEF Runs, Woken, Fit, Kernel
<1>2. q \in [messages : 0..Length, txLock : -1..MaxLock, rxLock : -1..MaxLock]
  BY DEF QInv, Base, Ring
<1>3. \A l \in EventList : Stock(q', l) + Count(Lock(q, l)) <= Stock(q, l) + Count(Lock(q', l))
  <2>1. \A l \in EventList : Stock(q, l) \in Int /\ Count(Lock(q, l)) \in Int
    BY <1>2, QueueAssumption DEF Stock, Lock, Count
  <2>2. QED
    BY <2>1
<1>4. \A l \in EventList : Comes(pc[t], call[t], l) => Comes(p, c, l)
  BY <1>1 DEF Comes
<1>5. (p = "q_place" => pc[t] = "q_place") /\ (pc[t] = "q_place" => c.op = call[t].op)
  BY <1>1
<1>6. QED
  BY <1>1, <1>3, <1>4, <1>5, MovedSupplied, Zenon

\* What is counted in a lock is paid when the queue is unlocked.
LEMMA LoopSupplied == ASSUME QInv, Supplied, NEW t \in Task, LoopStep(t) PROVE Supplied'
<1>1. /\ call \in [Task -> CallType] /\ q \in [messages : 0..Length, txLock : -1..MaxLock, rxLock : -1..MaxLock]
      /\ \A x \in Task : call[x].op \in {"none", "send", "receive", "peek"}
      /\ Callers(pc, call)
  <2>1. /\ call \in [Task -> CallType] /\ q \in [messages : 0..Length, txLock : -1..MaxLock, rxLock : -1..MaxLock]
        /\ Callers(pc, call)
    BY DEF QInv, Base, Core, Ring
  <2>2. QED
    BY <2>1, CallFields
<1>2. Woken(k, k')
  BY LoopEffect
<1>3. call = [call EXCEPT ![t] = call[t]]
  BY <1>1
<1>4. ASSUME NEW o \in QPlaces, Runs(t, o) PROVE call[t].op \in {"send", "receive", "peek"} /\ k.current = t
  BY <1>1, <1>4 DEF Callers, InCall, Runs
<1>5. ASSUME NEW o \in {"q_top", "q_test"}, Runs(t, o) PROVE ~Awaits(k, t) /\ pc[t] # "q_place" /\ o \in QPlaces
  <2>1. ~Leaving(pc, call, t) /\ k.current = t
    BY <1>5 DEF Leaving, Parting, Runs
  <2>2. QED
    BY <1>5, <2>1, RunningReady DEF Runs, QPlaces
<1>6. CASE ReturnAtOnce(t)
  <2>1. /\ Runs(t, "q_top") /\ MustWait(call[t].op) /\ k' = k /\ q' = q
        /\ pc' = [pc EXCEPT ![t] = "app"] /\ call' = [call EXCEPT ![t] = NoCall]
    BY <1>6 DEF ReturnAtOnce, Return, Goto
  <2>2. call[t].op \in {"send", "receive", "peek"} /\ k.current = t /\ ~Awaits(k, t) /\ pc[t] # "q_place"
    BY <1>4, <1>5, <2>1
  <2>3. "app" # "q_place" \/ NoCall.op = call[t].op
    OBVIOUS
  <2>4. QED
    BY <2>1, <2>2, <2>3, WaitSupplied, Zenon
<1>7. CASE DecideToWait(t)
  <2> DEFINE c == [call[t] EXCEPT !.timeSet = TRUE,
                                  !.timeout = IF call[t].timeSet THEN call[t].timeout ELSE vTaskSetTimeOutState]
  <2>1. /\ Runs(t, "q_top") /\ MustWait(call[t].op) /\ k' = k /\ q' = q /\ pc' = [pc EXCEPT ![t] = "q_suspend"]
    BY <1>7 DEF DecideToWait, Goto
  <2>2. call[t].op \in {"send", "receive", "peek"} /\ k.current = t /\ ~Awaits(k, t) /\ pc[t] # "q_place"
    BY <1>4, <1>5, <2>1
  <2>3. call' = [call EXCEPT ![t] = c]
    <3>1. call' = [call EXCEPT ![t].timeSet = TRUE, ![t].timeout = IF call[t].timeSet THEN @ ELSE vTaskSetTimeOutState]
      BY <1>7 DEF DecideToWait
    <3>2. QED
      BY <1>1, <3>1, Zenon
  <2> HIDE DEF c
  <2>4. "q_suspend" # "q_place" \/ c.op = call[t].op
    OBVIOUS
  <2>5. QED
    BY <2>1, <2>2, <2>3, <2>4, WaitSupplied, Zenon
<1>8. CASE SuspendAll(t)
  <2>1. Runs(t, "q_suspend") /\ q' = q /\ call' = call /\ pc' = [pc EXCEPT ![t] = "q_lock"]
    BY <1>8 DEF SuspendAll, Goto
  <2>2. "q_suspend" \notin {"q_top", "q_yield", "q_place"} \cup Parting
    BY DEF Parting
  <2>3. QED
    BY <1>1, <1>2, <1>3, <2>1, <2>2, QuietSupplied, Zenon
<1>9. CASE prvLockQueue(t)
  <2>1. Runs(t, "q_lock") /\ call' = call /\ pc' = [pc EXCEPT ![t] = "q_check"]
        /\ q' = [q EXCEPT !.rxLock = LockedNow(q.rxLock), !.txLock = LockedNow(q.txLock)]
    BY <1>9 DEF prvLockQueue, Goto
  <2>2. "q_lock" \notin {"q_top", "q_yield", "q_place"} \cup Parting
    BY DEF Parting
  <2>3. \A x \in -1..MaxLock : LockedNow(x) \in -1..MaxLock /\ Count(LockedNow(x)) = Count(x)
    BY QueueAssumption DEF LockedNow, Count, queueUNLOCKED, queueLOCKED_UNMODIFIED
  <2>4. /\ q'.messages = q.messages /\ q'.rxLock = LockedNow(q.rxLock) /\ q'.txLock = LockedNow(q.txLock)
        /\ q.txLock \in -1..MaxLock /\ q.rxLock \in -1..MaxLock
    BY <1>1, <2>1
  <2>5. q' \in [messages : 0..Length, txLock : -1..MaxLock, rxLock : -1..MaxLock]
    BY <1>1, <2>1, <2>3, Zenon
  <2>6. \A l \in EventList : Stock(q', l) = Stock(q, l) /\ Count(Lock(q', l)) = Count(Lock(q, l))
    BY <2>3, <2>4 DEF Stock, Lock
  <2>7. QED
    BY <1>2, <1>3, <2>1, <2>2, <2>5, <2>6, QuietSupplied, Zenon
<1>10. CASE xTaskCheckForTimeOut(t)
  <2>1. "q_check" \notin {"q_top", "q_yield", "q_place"} \cup Parting
    BY DEF Parting
  <2>2. Runs(t, "q_check") /\ q' = q
    BY <1>10 DEF xTaskCheckForTimeOut
  <2>3. \E p, c : p # "q_place" /\ pc' = [pc EXCEPT ![t] = p] /\ call' = [call EXCEPT ![t] = c]
    <3> DEFINE late == TimedOut(k.overflows, k.tick, call[t].timeout, call[t].wait)
               c == [call[t] EXCEPT !.wait = TicksLeft(k.tick, call[t].timeout, call[t].wait),
                                    !.timeout = IF call[t].wait = portMAX_DELAY THEN call[t].timeout ELSE vTaskSetTimeOutState]
    <3>1. CASE late
      <4>1. call' = [call EXCEPT ![t].path = "fail"] /\ pc' = [pc EXCEPT ![t] = "q_unlock"]
        BY <1>10, <3>1 DEF xTaskCheckForTimeOut, Goto
      <4>2. call' = [call EXCEPT ![t] = [call[t] EXCEPT !.path = "fail"]]
        BY <1>1, <4>1, Zenon
      <4>3. QED
        BY <4>1, <4>2, Zenon
    <3>2. CASE ~late
      <4>1. /\ call' = [call EXCEPT ![t].wait = TicksLeft(k.tick, call[t].timeout, @),
                                    ![t].timeout = IF call[t].wait = portMAX_DELAY THEN @ ELSE vTaskSetTimeOutState]
            /\ pc' = [pc EXCEPT ![t] = "q_test"]
        BY <1>10, <3>2 DEF xTaskCheckForTimeOut, Goto
      <4>2. call' = [call EXCEPT ![t] = c]
        BY <1>1, <4>1, Zenon
      <4> HIDE DEF c
      <4>3. QED
        BY <4>1, <4>2, Zenon
    <3>3. QED
      BY <3>1, <3>2
  <2>4. QED
    BY <1>1, <1>2, <2>1, <2>2, <2>3, QuietSupplied, Zenon
<1>11. CASE TestAgain(t)
  <2> DEFINE way == IF MustWait(call[t].op) THEN "block" ELSE "retry"
             c == [call[t] EXCEPT !.path = way]
  <2>1. Runs(t, "q_test") /\ q' = q /\ k' = k
        /\ pc' = [pc EXCEPT ![t] = IF MustWait(call[t].op) THEN "q_place" ELSE "q_unlock"]
    BY <1>11 DEF TestAgain, Goto
  <2>2. call' = [call EXCEPT ![t] = c]
    <3>1. call' = [call EXCEPT ![t].path = way]
      BY <1>11 DEF TestAgain
    <3>2. QED
      BY <1>1, <3>1, Zenon
  <2>3. c.op = call[t].op
    <3>1. call[t] \in CallType
      BY <1>1
    <3>2. QED
      BY <3>1, Zenon DEF CallType
  <2> HIDE DEF c
  <2>4. CASE MustWait(call[t].op)
    <3>1. call[t].op \in {"send", "receive", "peek"} /\ k.current = t /\ ~Awaits(k, t) /\ pc[t] # "q_place"
      BY <1>4, <1>5, <2>1
    <3>2. pc' = [pc EXCEPT ![t] = "q_place"]
      BY <2>1, <2>4
    <3>3. QED
      BY <2>1, <2>2, <2>3, <2>4, <3>1, <3>2, WaitSupplied, Zenon
  <2>5. CASE ~MustWait(call[t].op)
    <3>1. "q_test" \notin {"q_top", "q_yield", "q_place"} \cup Parting
      BY DEF Parting
    <3>2. pc' = [pc EXCEPT ![t] = "q_unlock"]
      BY <2>1, <2>5
    <3>3. QED
      BY <1>1, <1>2, <2>1, <2>2, <3>1, <3>2, QuietSupplied, Zenon
  <2>6. QED
    BY <2>4, <2>5
<1>12. CASE UnlockTx(t)
  <2>1. /\ Runs(t, "q_unlock") /\ k' = WakeCounted(k, "toReceive", q.txLock) /\ q' = [q EXCEPT !.txLock = queueUNLOCKED]
        /\ pc' = [pc EXCEPT ![t] = "q_unlock_rx"] /\ call' = call
    BY <1>12 DEF UnlockTx, Goto
  <2>2. /\ "toReceive" \in EventList /\ "q_unlock_rx" \in Parting /\ Lock(q, "toReceive") = q.txLock
        /\ q'.messages = q.messages /\ Lock(q', "toReceive") = queueUNLOCKED
        /\ \A x \in EventList : x # "toReceive" => Lock(q', x) = Lock(q, x)
    BY <1>1, <2>1, QueueAssumption DEF Lock, Parting
  <2>3. q' \in [messages : 0..Length, txLock : -1..MaxLock, rxLock : -1..MaxLock]
    BY <1>1, <2>1, QueueAssumption DEF queueUNLOCKED
  <2>4. QED
    BY <2>1, <2>2, <2>3, UnlockSupplied, Zenon
<1>13. CASE UnlockRx(t)
  <2>1. /\ Runs(t, "q_unlock_rx") /\ k' = WakeCounted(k, "toSend", q.rxLock) /\ q' = [q EXCEPT !.rxLock = queueUNLOCKED]
        /\ pc' = [pc EXCEPT ![t] = "q_resume"] /\ call' = call
    BY <1>13 DEF UnlockRx, Goto
  <2>2. /\ "toSend" \in EventList /\ "q_resume" \in Parting /\ Lock(q, "toSend") = q.rxLock
        /\ q'.messages = q.messages /\ Lock(q', "toSend") = queueUNLOCKED
        /\ \A x \in EventList : x # "toSend" => Lock(q', x) = Lock(q, x)
    BY <1>1, <2>1, QueueAssumption DEF Lock, Parting
  <2>3. q' \in [messages : 0..Length, txLock : -1..MaxLock, rxLock : -1..MaxLock]
    BY <1>1, <2>1, QueueAssumption DEF queueUNLOCKED
  <2>4. QED
    BY <2>1, <2>2, <2>3, UnlockSupplied, Zenon
<1>14. CASE QueueResume(t)
  BY <1>14, ResumeSupplied
<1>15. CASE taskYIELD(t, "q_yield", "q_top") /\ UNCHANGED <<q, call>>
  <2>1. Runs(t, "q_yield") /\ pc' = [pc EXCEPT ![t] = "q_top"] /\ q' = q /\ call' = [call EXCEPT ![t] = call[t]]
    BY <1>3, <1>15 DEF taskYIELD, Goto
  <2>2. k.current = t /\ pc[t] = "q_yield" /\ k'.current \in Task /\ Onward(k, k')
    BY <1>2, <2>1 DEF Runs, Woken, Fit, Kernel
  <2>3. \A l \in EventList : Stock(q', l) + Count(Lock(q, l)) <= Stock(q, l) + Count(Lock(q', l))
    BY <1>1, <2>1, QueueAssumption DEF Stock, Lock, Count
  <2>4. \A l \in EventList : Comes(pc[t], call[t], l) => Comes("q_top", call[t], l)
    BY DEF Comes
  <2> DEFINE p == "q_top"
             c == call[t]
  <2>5. /\ pc' = [pc EXCEPT ![t] = p] /\ call' = [call EXCEPT ![t] = c]
        /\ \A l \in EventList : Comes(pc[t], call[t], l) => Comes(p, c, l)
        /\ (p = "q_place" => pc[t] = "q_place") /\ (pc[t] = "q_place" => c.op = call[t].op)
    BY <2>1, <2>2, <2>4
  <2>6. q' \in [messages : 0..Length, txLock : -1..MaxLock, rxLock : -1..MaxLock]
    BY <1>1, <2>1
  <2> HIDE DEF p, c
  <2>7. QED
    BY <2>2, <2>3, <2>5, <2>6, MovedSupplied, Zenon
<1>16. QED
  BY <1>6, <1>7, <1>8, <1>9, <1>10, <1>11, <1>12, <1>13, <1>14, <1>15 DEF LoopStep

\* Who enters a call comes.
LEMMA EnterSupplied ==
  ASSUME QInv, Supplied, NEW t \in Task, NEW op, NEW wait, Enter(t, op, wait)
  PROVE  Supplied'
<1> DEFINE c == [NoCall EXCEPT !.op = op, !.wait = wait]
<1>1. Runs(t, "app") /\ k' = k /\ q' = q /\ pc' = [pc EXCEPT ![t] = "q_top"] /\ call' = [call EXCEPT ![t] = c]
  BY DEF Enter, Goto
<1>2. "app" \notin {"q_top", "q_yield", "q_place"} \cup Parting
  BY DEF Parting
<1>3. Woken(k, k') /\ q' \in [messages : 0..Length, txLock : -1..MaxLock, rxLock : -1..MaxLock]
  <2>1. Onward(k, k)
    BY OnwardSame
  <2>2. Fit(k, {}) /\ q \in [messages : 0..Length, txLock : -1..MaxLock, rxLock : -1..MaxLock]
    BY DEF QInv, Base, Core, Ring
  <2>3. QED
    BY <1>1, <2>1, <2>2 DEF Woken
<1> HIDE DEF c
<1>4. \A l \in EventList : Stock(q', l) = Stock(q, l) /\ Count(Lock(q', l)) = Count(Lock(q, l))
  BY <1>1
<1>5. QED
  BY <1>1, <1>2, <1>3, <1>4, QuietSupplied, Zenon

\* From m to n the stock of l has changed by no more than the tasks of D, who leave
\* it, and one more if l is the list w.
Pays(m, n, l, w, D) == Stock(n, l) + Cardinality(D) <= Stock(m, l) + IF l = w THEN 1 ELSE 0

\* Task t, which goes to p in the call c, still comes to l, or is all of D.
Turns(t, p, c, l, D) ==
    D \in {{}, {t}} /\ IF D = {} THEN Comes(pc[t], call[t], l) => Comes(p, c, l) ELSE ~Awaits(k, t)

\* A waiting task of the list w has been woken: there may be one more to fetch.
LEMMA ServedEnough ==
  ASSUME QInv, Supplied, NEW t \in Task, k.current = t, NEW p, pc' = [pc EXCEPT ![t] = p],
         NEW c, call' = [call EXCEPT ![t] = c], NEW w \in EventList, Served(k, k', w), NEW l \in EventList,
         NEW D, Turns(t, p, c, l, D),
         p # "q_place", pc[t] # "q_place",
         q' \in [messages : 0..Length, txLock : -1..MaxLock, rxLock : -1..MaxLock], Lock(q', l) = Lock(q, l),
         Pays(q, q', l, w, D)
  PROVE  Enough(k', pc', call', q', l)
<1>0. D \in {{}, {t}} /\ (D = {} => (Comes(pc[t], call[t], l) => Comes(p, c, l))) /\ (D # {} => ~Awaits(k, t))
  BY DEF Turns
<1>1. /\ pc \in [Task -> Places \cup QPlaces] /\ k.event[l] \in Seq(Task)
      /\ q \in [messages : 0..Length, txLock : -1..MaxLock, rxLock : -1..MaxLock]
  BY DEF QInv, Base, Core, Fit, Kernel, Ring
<1>2. k'.current \in Task
  BY DEF Served, Woken, Fit, Kernel
<1>3. /\ Stock(q, l) \in Int /\ Stock(q', l) \in Int /\ Count(Lock(q, l)) \in Int /\ Cardinality(D) \in Int
      /\ Cardinality({}) = 0 /\ \A x : Cardinality({x}) = 1
  <2>1. Cardinality({}) = 0 /\ \A x : Cardinality({x}) = 1
    BY FS_EmptySet, FS_Singleton, Zenon
  <2>2. D = {} \/ D = {t}
    BY <1>0
  <2>3. Cardinality(D) = 0 \/ Cardinality(D) = 1
    BY <2>1, <2>2, Zenon
  <2>4. Stock(q, l) \in Int /\ Stock(q', l) \in Int /\ Count(Lock(q, l)) \in Int
    BY <1>1, QueueAssumption DEF Stock, Lock, Count
  <2>5. Cardinality(D) \in Int
    BY <2>3
  <2>6. QED
    BY <2>1, <2>4, <2>5, Zenon
<1>4. ASSUME NEW W \in SUBSET ToSet(k.event[l]), ToSet(k'.event[l]) \subseteq ToSet(k.event[l]) \ W,
             Cardinality(W) = IF l = w THEN 1 ELSE 0
      PROVE  Enough(k', pc', call', q', l)
  <2>1. Stock(q', l) + Cardinality(D) + Count(Lock(q, l)) <= Stock(q, l) + Cardinality(W) + Count(Lock(q', l))
    BY <1>3, <1>4 DEF Pays
  <2>2. (p = "q_place" => Waiting(c.op) # l \/ pc[t] = "q_place") /\ (pc[t] = "q_place" => c.op = call[t].op)
    OBVIOUS
  <2>3. QED
    BY <1>0, <1>2, <1>4, <2>1, <2>2, MovedEnough, Zenon
<1>5. CASE l = w /\ ToSet(k.event[l]) = {}
  <2>1. k' = k
    BY <1>5 DEF Served
  <2>2. ToSet(k'.event[l]) = {} /\ pc'[k'.current] = p
    BY <1>1, <1>5, <2>1
  <2>3. QED
    BY <2>2 DEF Enough, Needed
<1>6. CASE l = w /\ ToSet(k.event[l]) # {}
  <2> DEFINE h == Head(k.event[l])
             W == {h}
  <2>1. ToSet(k'.event[l]) = ToSet(k.event[l]) \ {h}
    BY <1>6 DEF Served
  <2>2. h \in ToSet(k.event[l])
    BY <1>1, <1>6, HeadFacts, Zenon
  <2> HIDE DEF h
  <2>3. W \in SUBSET ToSet(k.event[l]) /\ ToSet(k'.event[l]) \subseteq ToSet(k.event[l]) \ W /\ Cardinality(W) = 1
    BY <1>3, <2>1, <2>2, Zenon
  <2> HIDE DEF W
  <2>4. QED
    BY <1>4, <1>6, <2>3, Zenon
<1>7. CASE l # w
  <2> DEFINE W == {}
  <2>1. W \in SUBSET ToSet(k.event[l]) /\ ToSet(k'.event[l]) \subseteq ToSet(k.event[l]) \ W /\ Cardinality(W) = 0
    BY <1>3 DEF Served, Woken, Onward
  <2> HIDE DEF W
  <2>2. QED
    BY <1>4, <1>7, <2>1, Zenon
<1>8. QED
  BY <1>5, <1>6, <1>7

\* What a transfer adds is meant for the task it wakes.
LEMMA TransferSupplied == ASSUME QInv, Supplied, NEW t \in Task, Transfer(t) PROVE Supplied'
<1> DEFINE op == call[t].op
<1>1. /\ Runs(t, "q_top") /\ ~MustWait(op) /\ q' = [q EXCEPT !.messages = Transferred(op)]
      /\ pc' = [pc EXCEPT ![t] = "app"] /\ call' = [call EXCEPT ![t] = NoCall]
  BY DEF Transfer, Return, Goto
<1>2. Woken(k, k') /\ Served(k, k', Waking(op)) /\ ~Awaits(k, t) /\ k.current = t /\ pc[t] = "q_top"
  BY <1>1, TransferEffect DEF Runs
<1>3. /\ q \in [messages : 0..Length, txLock : -1..MaxLock, rxLock : -1..MaxLock]
      /\ op \in {"send", "receive", "peek"} /\ Onward(k, k')
  <2>1. /\ q \in [messages : 0..Length, txLock : -1..MaxLock, rxLock : -1..MaxLock]
        /\ Callers(pc, call) /\ call \in [Task -> CallType] /\ "q_top" \in QPlaces
    BY DEF QInv, Base, Core, Ring, QPlaces
  <2>2. op # "none" /\ op \in {"none", "send", "receive", "peek"}
    BY <1>2, <2>1, CallFields DEF Callers, InCall
  <2>3. QED
    BY <1>2, <2>1, <2>2 DEF Woken
<1> HIDE DEF op
<1>4. /\ Transferred(op) \in 0..Length
      /\ op = "send" => Transferred(op) = q.messages + 1
      /\ op = "receive" => Transferred(op) = q.messages - 1
      /\ op = "peek" => Transferred(op) = q.messages
  <2>1. q.messages \in 0..Length /\ Length \in Nat
    BY <1>3, QueueAssumption
  <2>2. (op = "send" => q.messages # Length) /\ (op # "send" => q.messages # 0)
    BY <1>1 DEF MustWait, prvIsQueueFull, prvIsQueueEmpty
  <2>3. CASE op = "send"
    BY <2>1, <2>2, <2>3 DEF Transferred
  <2>4. CASE op = "receive"
    BY <2>1, <2>2, <2>4 DEF Transferred
  <2>5. CASE op = "peek"
    BY <2>1, <2>2, <2>5 DEF Transferred
  <2>6. QED
    BY <1>3, <2>3, <2>4, <2>5
<1>5. /\ q'.messages = Transferred(op) /\ q'.txLock = q.txLock /\ q'.rxLock = q.rxLock
      /\ q' \in [messages : 0..Length, txLock : -1..MaxLock, rxLock : -1..MaxLock]
  BY <1>1, <1>3, <1>4
<1>6. Passing(k', pc', call')
  BY <1>1, <1>2, <1>3, MovedPassing, Zenon DEF Supplied
<1>7. ASSUME NEW l \in EventList PROVE Enough(k', pc', call', q', l)
  <2> DEFINE D == IF l = Waiting(op) THEN {t} ELSE {}
             p == "app"
             c == NoCall
  <2>1. D \in {{}, {t}} /\ (l = Waiting(op) => D # {})
    OBVIOUS
  <2>2. D = {} => (Comes(pc[t], call[t], l) => Comes(p, c, l))
    BY <2>1 DEF Comes, op
  <2>3. Cardinality(D) = IF l = Waiting(op) THEN 1 ELSE 0
    BY FS_EmptySet, FS_Singleton, Zenon
  <2>4. Lock(q', l) = Lock(q, l)
    BY <1>5 DEF Lock
  <2>5. Stock(q', l) + Cardinality(D) <= Stock(q, l) + IF l = Waking(op) THEN 1 ELSE 0
    <3>1. /\ q.messages \in Int /\ q'.messages \in Int /\ Length \in Int /\ l \in {"toSend", "toReceive"}
          /\ q'.messages = Transferred(op)
      BY <1>3, <1>5, QueueAssumption
    <3> HIDE DEF D
    <3>2. CASE op = "send"
      BY <1>4, <2>3, <3>1, <3>2 DEF Stock, Waiting, Waking
    <3>3. CASE op = "receive"
      BY <1>4, <2>3, <3>1, <3>3 DEF Stock, Waiting, Waking
    <3>4. CASE op = "peek"
      BY <1>4, <2>3, <3>1, <3>4 DEF Stock, Waiting, Waking
    <3>5. QED
      BY <1>3, <3>2, <3>3, <3>4
  <2>6. p # "q_place" /\ pc[t] # "q_place" /\ Waking(op) \in EventList /\ (D # {} => ~Awaits(k, t))
    BY <1>2, QueueAssumption DEF Waking
  <2>7. pc' = [pc EXCEPT ![t] = p] /\ call' = [call EXCEPT ![t] = c]
    BY <1>1
  <2> DEFINE w == Waking(op)
  <2>8. /\ w \in EventList /\ Served(k, k', w)
        /\ Pays(q, q', l, w, D)
    BY <1>2, <2>5, <2>6 DEF op, Pays
  <2>9. Turns(t, p, c, l, D)
    BY <2>1, <2>2, <2>6 DEF Turns
  <2> HIDE DEF D, p, c, w
  <2>10. QED
    BY <1>2, <1>5, <2>4, <2>6, <2>7, <2>8, <2>9, ServedEnough, Zenon
<1>8. QED
  BY <1>6, <1>7 DEF Supplied

\* A task that joins the list comes to it from then on, like those it joins.
LEMMA PlaceSupplied == ASSUME QInv, Supplied, NEW t \in Task, Place(t) PROVE Supplied'
<1> DEFINE w == Waiting(call[t].op)
<1>1. /\ Runs(t, "q_place") /\ pc' = [pc EXCEPT ![t] = "q_unlock"] /\ call' = call /\ q' = q
  BY DEF Place, Goto
<1>2. /\ Listed(k, k', t, w, call[t].wait) /\ w \in EventList /\ k.current = t /\ pc[t] = "q_place"
  BY <1>1, PlaceEffect DEF Runs
<1>3. /\ pc \in [Task -> Places \cup QPlaces] /\ InCall("q_place", call[t])
      /\ q \in [messages : 0..Length, txLock : -1..MaxLock, rxLock : -1..MaxLock] /\ "q_place" \in QPlaces
  BY <1>2 DEF QInv, Base, Core, Callers, Ring, QPlaces
<1> HIDE DEF w
<1>4. /\ ToSet(k'.event[w]) = ToSet(k.event[w]) \cup {t} /\ k'.current = t
      /\ \A l \in EventList : l # w => k'.event[l] = k.event[l]
  BY <1>2 DEF Listed
<1>5. pc'[t] = "q_unlock" /\ \A x \in Task \ {t} : pc'[x] = pc[x]
  BY <1>1, <1>3
<1>6. Comes(pc'[t], call'[t], w)
  BY <1>1, <1>3, <1>5 DEF Comes, InCall, Parting, w
<1>7. ASSUME NEW l \in EventList, NEW x \in Task \ {t}, Comes(pc[x], call[x], l) PROVE Comes(pc'[x], call'[x], l)
  BY <1>1, <1>5, <1>7
<1>8. ASSUME NEW l \in EventList PROVE \A x \in Task : Comes(pc[x], call[x], l) => x # t
  <2>1. ~Comes("q_place", call[t], l)
    BY DEF Comes, Parting
  <2>2. QED
    BY <1>2, <2>1
<1>9. Passing(k', pc', call')
  <2> SUFFICES ASSUME NEW l \in EventList, NEW x \in ToSet(k'.event[l]) PROVE Comes(pc'[x], call'[x], l)
    BY DEF Passing
  <2>1. CASE x = t /\ l = w
    BY <1>6, <2>1
  <2>2. CASE ~(x = t /\ l = w)
    <3>1. x \in ToSet(k.event[l])
      BY <1>4, <2>2
    <3>2. k \in Kernel
      BY DEF QInv, Base, Core, Fit
    <3>3. k.event[l] \in Seq(Task)
      BY <3>2 DEF Kernel
    <3>4. x \in Task /\ Comes(pc[x], call[x], l)
      BY <3>1, <3>3 DEF Supplied, Passing, ToSet
    <3>5. QED
      BY <1>7, <1>8, <3>4
  <2>3. QED
    BY <2>1, <2>2
<1>10. ASSUME NEW l \in EventList PROVE Enough(k', pc', call', q', l)
  <2> SUFFICES ASSUME Needed(k', pc', call', l)
               PROVE  Stock(q', l) <= Cardinality(Coming(k', pc', call', l)) + Count(Lock(q', l))
    BY DEF Enough
  <2>1. Needed(k, pc, call, l)
    <3>1. ToSet(k'.event[l]) # {}
      BY <1>4, <1>5 DEF Needed
    <3>2. CASE l = w
      BY <1>2, <3>2 DEF Needed, w
    <3>3. CASE l # w
      BY <1>4, <3>1, <3>3 DEF Needed
    <3>4. QED
      BY <3>2, <3>3
  <2> DEFINE C == Coming(k, pc, call, l)
             B == Coming(k', pc', call', l)
  <2>2. C \subseteq B /\ B \subseteq Task
    <3>1. B \subseteq Task /\ C \subseteq Task
      BY DEF Coming
    <3>2. ASSUME NEW x \in C PROVE x \in B
      <4>1. x \in Task /\ Comes(pc[x], call[x], l) /\ x \notin ToSet(k.event[l])
        BY <3>2 DEF Coming
      <4>2. x # t /\ Comes(pc'[x], call'[x], l)
        BY <1>7, <1>8, <4>1
      <4>3. x \notin ToSet(k'.event[l])
        BY <1>4, <4>1, <4>2
      <4>4. QED
        BY <4>1, <4>2, <4>3 DEF Coming
    <3>3. QED
      BY <3>1, <3>2
  <2>3. Stock(q, l) <= Cardinality(C) + Count(Lock(q, l))
    BY <2>1 DEF Supplied, Enough
  <2> HIDE DEF C, B
  <2>4. Cardinality(C) <= Cardinality(B) /\ Cardinality(C) \in Nat /\ Cardinality(B) \in Nat
    <3>1. IsFiniteSet(B)
      BY <2>2, TaskFinite, FS_Subset
    <3>2. IsFiniteSet(C) /\ Cardinality(C) <= Cardinality(B)
      BY <2>2, <3>1, FS_Subset
    <3>3. QED
      BY <3>1, <3>2, FS_CardinalityType
  <2>5. Stock(q, l) \in Int /\ Count(Lock(q, l)) \in Int
    BY <1>3, QueueAssumption DEF Stock, Lock, Count
  <2>6. Stock(q, l) <= Cardinality(B) + Count(Lock(q, l))
    BY <2>3, <2>4, <2>5
  <2>7. QED
    BY <1>1, <2>6 DEF B
<1>11. QED
  BY <1>9, <1>10 DEF Supplied

\* What interrupts do to the queue while it is locked is counted in the lock, and
\* otherwise they wake a task.
InLock(m, n) == \A l \in EventList : Stock(n, l) + Count(Lock(m, l)) <= Stock(m, l) + Count(Lock(n, l))

\* What an interrupt adds is meant for the task it wakes, or counted.
LEMMA InterruptPays ==
  ASSUME QInv, Supplied, pc' = pc, call' = call,
         q' \in [messages : 0..Length, txLock : -1..MaxLock, rxLock : -1..MaxLock],
         \/ k' = k /\ InLock(q, q')
         \/ \E w \in EventList : /\ Served(k, k', w) /\ pc[k.current] # "q_place"
                                 /\ \A l \in EventList : Lock(q', l) = Lock(q, l) /\ Pays(q, q', l, w, {})
  PROVE  Supplied'
<1> DEFINE t == k.current
           p == pc[t]
           c == call[t]
<1>1. /\ k \in Kernel /\ t \in Task /\ pc \in [Task -> Places \cup QPlaces] /\ call \in [Task -> CallType]
  BY Zenon DEF QInv, Base, Core, Fit, Kernel
<1>2. /\ pc' = [pc EXCEPT ![t] = p] /\ call' = [call EXCEPT ![t] = c]
      /\ \A l \in EventList : Comes(pc[t], call[t], l) => Comes(p, c, l)
      /\ (p = "q_place" => pc[t] = "q_place") /\ (pc[t] = "q_place" => c.op = call[t].op) /\ k.current = t
  BY <1>1
<1>3. p = pc[k.current]
  OBVIOUS
<1> HIDE DEF t, p, c
<1>4. CASE k' = k /\ InLock(q, q')
  <2>1. k'.current \in Task /\ Onward(k, k')
    BY <1>1, <1>2, <1>4, OnwardSame
  <2>2. \A l \in EventList : Stock(q', l) + Count(Lock(q, l)) <= Stock(q, l) + Count(Lock(q', l))
    BY <1>4 DEF InLock
  <2>3. QED
    BY <1>1, <1>2, <2>1, <2>2, MovedSupplied, Zenon
<1>5. ASSUME NEW w \in EventList, Served(k, k', w), pc[k.current] # "q_place",
             \A l \in EventList : Lock(q', l) = Lock(q, l) /\ Pays(q, q', l, w, {})
      PROVE  Supplied'
  <2>1. Onward(k, k')
    BY <1>5 DEF Served, Woken
  <2>2. Passing(k', pc', call')
    BY <1>1, <1>2, <2>1, MovedPassing, Zenon DEF Supplied
  <2>3. ASSUME NEW l \in EventList PROVE Enough(k', pc', call', q', l)
    <3> DEFINE D == {}
    <3>1. Turns(t, p, c, l, D) /\ Pays(q, q', l, w, D) /\ Lock(q', l) = Lock(q, l)
      BY <1>2, <1>5 DEF Turns
    <3>2. p # "q_place" /\ pc[t] # "q_place"
      BY <1>2, <1>3, <1>5
    <3> HIDE DEF D
    <3>3. QED
      BY <1>1, <1>2, <1>5, <3>1, <3>2, ServedEnough, Zenon
  <2>4. QED
    BY <2>2, <2>3 DEF Supplied
<1>6. QED
  BY <1>4, <1>5

\* This goes for one that sends,
LEMMA SendFromISRSupplied == ASSUME QInv, Supplied, xQueueSendFromISR PROVE Supplied'
<1>1. /\ Core(k, pc, call) /\ Ring(k, pc, q) /\ Fit(k, {}) /\ Apart(k)
      /\ q \in [messages : 0..Length, txLock : -1..MaxLock, rxLock : -1..MaxLock]
  BY DEF QInv, Base, Core, Ring
<1>2. Length \in Nat /\ MaxLock \in Nat /\ q.messages # Length /\ EventList = {"toSend", "toReceive"}
  BY QueueAssumption DEF xQueueSendFromISR, prvIsQueueFull
<1>3. q.messages + 1 \in 0..Length
  BY <1>1, <1>2
<1>4. pc' = pc /\ call' = call
  BY DEF xQueueSendFromISR
<1>5. CASE q.txLock = queueUNLOCKED
  <2>1. q' = [q EXCEPT !.messages = q.messages + 1] /\ k' = WakeAndYield(k, "toReceive")
    BY <1>1, <1>5 DEF xQueueSendFromISR
  <2>2. Served(k, k', "toReceive")
    BY <1>1, <1>2, <2>1, WakeAndYieldServes
  <2>3. pc[k.current] # "q_place"
    BY <1>1, <1>5 DEF Ring, QLocked
  <2>4. q'.messages = q.messages + 1 /\ q'.txLock = q.txLock /\ q'.rxLock = q.rxLock
    BY <1>1, <2>1
  <2>5. q' \in [messages : 0..Length, txLock : -1..MaxLock, rxLock : -1..MaxLock]
    BY <1>1, <1>3, <2>1
  <2>6. \A l \in EventList : Lock(q', l) = Lock(q, l) /\ Pays(q, q', l, "toReceive", {})
    BY <1>1, <1>2, <2>4, FS_EmptySet DEF Lock, Pays, Stock
  <2> DEFINE w == "toReceive"
  <2>7. w \in EventList /\ Served(k, k', w) /\ \A l \in EventList : Lock(q', l) = Lock(q, l) /\ Pays(q, q', l, w, {})
    BY <1>2, <2>2, <2>6
  <2> HIDE DEF w
  <2>8. QED
    BY <1>4, <2>3, <2>5, <2>7, InterruptPays
<1>6. CASE q.txLock # queueUNLOCKED
  <2>1. q' = [q EXCEPT !.messages = q.messages + 1, !.txLock = q.txLock + 1] /\ q.txLock < MaxLock /\ k' = k
    BY <1>1, <1>6 DEF xQueueSendFromISR
  <2>2. q.txLock \in 0..MaxLock-1
    BY <1>1, <1>2, <1>6, <2>1 DEF queueUNLOCKED
  <2>3. q'.messages = q.messages + 1 /\ q'.txLock = q.txLock + 1 /\ q'.rxLock = q.rxLock
    BY <1>1, <2>1
  <2>4. q' \in [messages : 0..Length, txLock : -1..MaxLock, rxLock : -1..MaxLock]
    <3>1. q.txLock + 1 \in -1..MaxLock
      BY <1>2, <2>2
    <3>2. QED
      BY <1>1, <1>3, <2>1, <3>1, Zenon
  <2>5. InLock(q, q')
    BY <1>1, <1>2, <2>2, <2>3 DEF InLock, Stock, Lock, Count
  <2>6. QED
    BY <1>4, <2>1, <2>4, <2>5, InterruptPays
<1>7. QED
  BY <1>5, <1>6

\* and for one that receives.
LEMMA ReceiveFromISRSupplied == ASSUME QInv, Supplied, xQueueReceiveFromISR PROVE Supplied'
<1>1. /\ Core(k, pc, call) /\ Ring(k, pc, q) /\ Fit(k, {}) /\ Apart(k)
      /\ q \in [messages : 0..Length, txLock : -1..MaxLock, rxLock : -1..MaxLock]
  BY DEF QInv, Base, Core, Ring
<1>2. Length \in Nat /\ MaxLock \in Nat /\ q.messages # 0 /\ EventList = {"toSend", "toReceive"}
  BY QueueAssumption DEF xQueueReceiveFromISR, prvIsQueueEmpty
<1>3. q.messages - 1 \in 0..Length
  BY <1>1, <1>2
<1>4. pc' = pc /\ call' = call
  BY DEF xQueueReceiveFromISR
<1>5. CASE q.rxLock = queueUNLOCKED
  <2>1. q' = [q EXCEPT !.messages = q.messages - 1] /\ k' = WakeAndYield(k, "toSend")
    BY <1>1, <1>5 DEF xQueueReceiveFromISR
  <2>2. Served(k, k', "toSend")
    BY <1>1, <1>2, <2>1, WakeAndYieldServes
  <2>3. pc[k.current] # "q_place"
    BY <1>1, <1>5 DEF Ring, QLocked
  <2>4. q'.messages = q.messages - 1 /\ q'.txLock = q.txLock /\ q'.rxLock = q.rxLock
    BY <1>1, <2>1
  <2>5. q' \in [messages : 0..Length, txLock : -1..MaxLock, rxLock : -1..MaxLock]
    BY <1>1, <1>3, <2>1
  <2>6. \A l \in EventList : Lock(q', l) = Lock(q, l) /\ Pays(q, q', l, "toSend", {})
    BY <1>1, <1>2, <2>4, FS_EmptySet DEF Lock, Pays, Stock
  <2> DEFINE w == "toSend"
  <2>7. w \in EventList /\ Served(k, k', w) /\ \A l \in EventList : Lock(q', l) = Lock(q, l) /\ Pays(q, q', l, w, {})
    BY <1>2, <2>2, <2>6
  <2> HIDE DEF w
  <2>8. QED
    BY <1>4, <2>3, <2>5, <2>7, InterruptPays
<1>6. CASE q.rxLock # queueUNLOCKED
  <2>1. q' = [q EXCEPT !.messages = q.messages - 1, !.rxLock = q.rxLock + 1] /\ q.rxLock < MaxLock /\ k' = k
    BY <1>1, <1>6 DEF xQueueReceiveFromISR
  <2>2. q.rxLock \in 0..MaxLock-1
    BY <1>1, <1>2, <1>6, <2>1 DEF queueUNLOCKED
  <2>3. q'.messages = q.messages - 1 /\ q'.rxLock = q.rxLock + 1 /\ q'.txLock = q.txLock
    BY <1>1, <2>1
  <2>4. q' \in [messages : 0..Length, txLock : -1..MaxLock, rxLock : -1..MaxLock]
    <3>1. q.rxLock + 1 \in -1..MaxLock
      BY <1>2, <2>2
    <3>2. QED
      BY <1>1, <1>3, <2>1, <3>1, Zenon
  <2>5. InLock(q, q')
    BY <1>1, <1>2, <2>2, <2>3 DEF InLock, Stock, Lock, Count
  <2>6. QED
    BY <1>4, <2>1, <2>4, <2>5, InterruptPays
<1>7. QED
  BY <1>5, <1>6

\* While no task is created anew, those that come keep coming.
LEMMA OutsideSupplied ==
  ASSUME NoCreation, QInv, Supplied, Next, UNCHANGED <<q, call>>
  PROVE  Supplied'
<1>1. Outside(call, k, pc, due, k', pc', due') /\ call' = call /\ q' = q
  BY OutsideNext DEF QInv, Base
<1>2. /\ k \in Kernel /\ pc \in [Task -> Places \cup QPlaces]
      /\ q \in [messages : 0..Length, txLock : -1..MaxLock, rxLock : -1..MaxLock]
  BY DEF QInv, Base, Core, Fit, Ring
<1>3. /\ Onward(k, k')
      /\ \A x \in Task : pc'[x] = pc[x] \/ pc[x] \in Places
      /\ \/ k'.current = k.current /\ pc'[k'.current] = pc[k.current]
         \/ pc'[k'.current] \notin QLocking
  BY <1>1 DEF Outside
<1>4. Places \cap ({"q_top", "q_yield", "q_place"} \cup Parting) = {} /\ "q_place" \in QLocking
  BY DEF Places, Parting, QLocking
<1>5. ASSUME NEW l \in EventList, NEW x \in Task, Comes(pc[x], call[x], l) PROVE Comes(pc'[x], call'[x], l)
  <2>1. pc[x] \in {"q_top", "q_yield", "q_place"} \cup Parting
    BY <1>5 DEF Comes
  <2>2. pc'[x] = pc[x]
    BY <1>3, <1>4, <2>1
  <2>3. QED
    BY <1>1, <1>5, <2>2
<1>6. Passing(k', pc', call')
  <2> SUFFICES ASSUME NEW l \in EventList, NEW x \in ToSet(k'.event[l]) PROVE Comes(pc'[x], call'[x], l)
    BY DEF Passing
  <2>1. x \in ToSet(k.event[l])
    BY <1>3 DEF Onward
  <2>2. k.event[l] \in Seq(Task)
    BY <1>2 DEF Kernel
  <2>3. x \in Task /\ Comes(pc[x], call[x], l)
    BY <2>1, <2>2 DEF Supplied, Passing, ToSet
  <2>4. QED
    BY <1>5, <2>3
<1>7. ASSUME NEW l \in EventList PROVE Enough(k', pc', call', q', l)
  <2> DEFINE W == {}
             D == {}
  <2>1. Shift(k, k', pc, pc', call, call', l, W, D)
    BY <1>3, <1>5 DEF Shift, Onward
  <2>2. Needed(k', pc', call', l) => Needed(k, pc, call, l)
    <3>1. ToSet(k'.event[l]) \subseteq ToSet(k.event[l])
      BY <1>3 DEF Onward
    <3>2. QED
      BY <1>1, <1>3, <1>4, <3>1 DEF Needed
  <2>3. Stock(q, l) \in Int /\ Lock(q, l) \in Int
    BY <1>2, QueueAssumption DEF Stock, Lock
  <2>4. Stock(q, l) + Cardinality(D) + Count(Lock(q, l)) <= Stock(q, l) + Cardinality(W) + Count(Lock(q, l))
    BY <2>3, FS_EmptySet DEF Count
  <2> HIDE DEF W, D
  <2>5. Enough(k, pc, call, q, l)
    BY DEF Supplied
  <2>6. Stock(q', l) = Stock(q, l) /\ Lock(q', l) = Lock(q, l)
    BY <1>1
  <2>7. QED
    BY <2>1, <2>2, <2>3, <2>4, <2>5, <2>6, EnoughAfter
<1>8. QED
  BY <1>6, <1>7 DEF Supplied

\* Nobody waits at first.
LEMMA SuppliedStarts == QInit => Supplied
<1> SUFFICES ASSUME QInit PROVE Supplied
  OBVIOUS
<1>1. k.event = [l \in EventList |-> <<>>] /\ pc = [t \in Task |-> "app"]
  BY Zenon DEF QInit, Init
<1>2. k.current \in Task
  BY QueueStarts DEF QInv, Base, Core, Fit, Kernel
<1>3. \A l \in EventList : ToSet(k.event[l]) = {}
  BY <1>1 DEF ToSet
<1>4. pc[k.current] # "q_place"
  BY <1>1, <1>2
<1>5. QED
  BY <1>3, <1>4 DEF Supplied, Passing, Enough, Needed

\* Every step keeps those that wait supplied.
LEMMA SuppliedKeeps == ASSUME NoCreation PROVE QInv /\ Supplied /\ [QNext]_qvars => Supplied'
<1> SUFFICES ASSUME QInv, Supplied, [QNext]_qvars PROVE Supplied'
  OBVIOUS
<1>1. CASE UNCHANGED qvars
  BY <1>1 DEF qvars, Supplied
<1>2. ASSUME NEW t \in Task, QueueStep(t) PROVE Supplied'
  BY <1>2, TransferSupplied, PlaceSupplied, LoopSupplied DEF QueueStep
<1>3. ASSUME NEW t \in Task, NEW op \in Ops[t], NEW wait \in Waits[t], Enter(t, op, wait) PROVE Supplied'
  BY <1>3, EnterSupplied
<1>4. CASE xQueueSendFromISR
  BY <1>4, SendFromISRSupplied
<1>5. CASE xQueueReceiveFromISR
  BY <1>5, ReceiveFromISRSupplied
<1>6. CASE Next /\ UNCHANGED <<q, call>>
  BY <1>6, OutsideSupplied
<1>7. QED
  BY <1>1, <1>2, <1>3, <1>4, <1>5, <1>6 DEF QNext, QueueActions

\* Then no wakeup is lost.
LEMMA SuppliedServes == QInv /\ Supplied => NoLostWakeup
<1> SUFFICES ASSUME QInv, Supplied PROVE NoLostWakeup
  OBVIOUS
<1>1. /\ k \in Kernel /\ call \in [Task -> CallType] /\ EventList = {"toSend", "toReceive"}
      /\ q \in [messages : 0..Length, txLock : -1..MaxLock, rxLock : -1..MaxLock] /\ Length \in Nat
  BY QueueAssumption DEF QInv, Base, Core, Fit, Ring
<1>2. ASSUME NEW l \in EventList, k.event[l] # <<>>, Lock(q, l) = queueUNLOCKED, NEW S,
             S = {t \in Task : call[t].op # "none" /\ Waiting(call[t].op) = l /\ ~WaitsFor(t, l)}
      PROVE  Stock(q, l) <= Cardinality(S)
  <2> DEFINE C == Coming(k, pc, call, l)
  <2>1. ToSet(k.event[l]) # {}
    <3>1. k.event[l] \in Seq(Task)
      BY <1>1, Zenon DEF Kernel
    <3>2. QED
      BY <1>2, <3>1, NotEmpty
  <2>2. Stock(q, l) <= Cardinality(C) + Count(Lock(q, l))
    BY <2>1 DEF Supplied, Enough, Needed
  <2>3. Count(Lock(q, l)) = 0
    BY <1>2 DEF Count, queueUNLOCKED
  <2>4. C \subseteq S /\ S \subseteq Task
    BY <1>2 DEF Coming, Comes, WaitsFor
  <2> HIDE DEF C
  <2>5. Cardinality(C) <= Cardinality(S) /\ Cardinality(C) \in Nat /\ Cardinality(S) \in Nat
    <3>1. IsFiniteSet(S)
      BY <2>4, TaskFinite, FS_Subset
    <3>2. IsFiniteSet(C) /\ Cardinality(C) <= Cardinality(S)
      BY <2>4, <3>1, FS_Subset
    <3>3. QED
      BY <3>1, <3>2, FS_CardinalityType
  <2>6. Stock(q, l) \in Int
    BY <1>1 DEF Stock
  <2>7. QED
    BY <2>2, <2>3, <2>5, <2>6
<1>3. ASSUME k.event["toReceive"] # <<>>, q.txLock = queueUNLOCKED
      PROVE  q.messages <= Cardinality({t \in Task : call[t].op \in {"receive", "peek"} /\ ~WaitsFor(t, "toReceive")})
  <2> DEFINE S == {t \in Task : call[t].op # "none" /\ Waiting(call[t].op) = "toReceive" /\ ~WaitsFor(t, "toReceive")}
             R == {t \in Task : call[t].op \in {"receive", "peek"} /\ ~WaitsFor(t, "toReceive")}
  <2>1. S = R
    <3>1. \A t \in Task : call[t].op \in {"none", "send", "receive", "peek"}
      BY <1>1, CallFields
    <3>2. \A t \in Task : (call[t].op # "none" /\ Waiting(call[t].op) = "toReceive") <=> call[t].op \in {"receive", "peek"}
      BY <3>1 DEF Waiting
    <3>3. QED
      BY <3>2
  <2>2. "toReceive" \in EventList /\ Lock(q, "toReceive") = queueUNLOCKED /\ Stock(q, "toReceive") = q.messages
    BY <1>1, <1>3 DEF Lock, Stock
  <2>3. Stock(q, "toReceive") <= Cardinality(S)
    BY <1>2, <1>3, <2>2
  <2>4. QED
    BY <2>1, <2>2, <2>3, Zenon
<1>4. ASSUME k.event["toSend"] # <<>>, q.rxLock = queueUNLOCKED
      PROVE  Length - q.messages <= Cardinality({t \in Task : call[t].op = "send" /\ ~WaitsFor(t, "toSend")})
  <2> DEFINE S == {t \in Task : call[t].op # "none" /\ Waiting(call[t].op) = "toSend" /\ ~WaitsFor(t, "toSend")}
             R == {t \in Task : call[t].op = "send" /\ ~WaitsFor(t, "toSend")}
  <2>1. S = R
    <3>1. \A t \in Task : (call[t].op # "none" /\ Waiting(call[t].op) = "toSend") <=> call[t].op = "send"
      BY DEF Waiting
    <3>2. QED
      BY <3>1
  <2>2. "toSend" \in EventList /\ Lock(q, "toSend") = queueUNLOCKED /\ Stock(q, "toSend") = Length - q.messages
    BY <1>1, <1>4 DEF Lock, Stock
  <2>3. Stock(q, "toSend") <= Cardinality(S)
    BY <1>2, <1>4, <2>2
  <2>4. QED
    BY <2>1, <2>2, <2>3, Zenon
<1>5. QED
  BY <1>3, <1>4 DEF NoLostWakeup

\* While tasks wait on a queue that is not locked, each item is meant for a task
\* that is on its way to fetch it, and each free place for one on its way to fill
\* it, provided no task is created in the place of a deleted one while it is in a
\* call: one that is deleted or suspended on its way counts as coming.
THEOREM NoWakeupLost == ASSUME NoCreation PROVE QSpec => []NoLostWakeup
<1>1. QInit => Supplied
  BY SuppliedStarts
<1>2. QInv /\ Supplied /\ [QNext]_qvars => Supplied'
  BY SuppliedKeeps
<1>3. QInv /\ Supplied => NoLostWakeup
  BY SuppliedServes
<1>4. QED
  BY <1>1, <1>2, <1>3, QueueInvariance, PTL DEF QSpec

-----------------------------------------------------------------------------
(* A mutex: what inheriting a priority and losing it do to the kernel.     *)

\* From j to r the task x has got the priority v, and its place in the ready lists
\* if it was in one; nothing else has changed.
Lent(j, r, x, v) ==
    /\ Fit(r, {}) /\ Apart(r) /\ Onward(j, r) /\ Still(j, r)
    /\ r.current = j.current /\ r.terminating = j.terminating
    /\ r.prio = [j.prio EXCEPT ![x] = v] /\ r.item = [j.item EXCEPT ![x] = v] /\ r.base = j.base
    /\ \A l \in EventList : ToSet(r.event[l]) = ToSet(j.event[l])
    /\ \A t : IsReady(r, t) <=> IsReady(j, t)

\* A ready task waits for nothing.
LEMMA ReadyApart ==
  ASSUME NEW j, Fit(j, {}), Apart(j), NEW x \in Task, IsReady(j, x)
  PROVE  /\ x \notin ToSet(j.terminating) /\ x \notin j.free /\ x \notin ToSet(j.pending) /\ ~Awaits(j, x)
         /\ x \in ToSet(j.ready[j.prio[x]])
<1>1. OnePlace(j, x) /\ \A p \in Priority : x \in ToSet(j.ready[p]) => j.prio[x] = p
  BY DEF Fit, Placed
<1>2. x \notin ToSet(j.terminating) /\ x \notin j.free /\ ~IsDelayed(j, x) /\ x \notin j.suspended
  BY <1>1 DEF OnePlace, IsDelayed
<1>3. x \notin ToSet(j.pending) /\ ~Awaits(j, x)
  BY <1>2, Zenon DEF Apart
<1>4. x \in ToSet(j.ready[j.prio[x]])
  BY <1>1 DEF IsReady
<1>5. QED
  BY <1>2, <1>3, <1>4

\* The kernel in which x has the priority v already, and is about to be moved.
Raised(j, x, v) == [j EXCEPT !.prio[x] = v, !.item[x] = v]

\* A task whose priority is changed and that is put into the ready list of the
\* new one, if it is ready.
LEMMA RaisedLent ==
  ASSUME NEW j, Fit(j, {}), Apart(j), NEW x \in Task \ {Idle}, NEW v \in Priority
  PROVE  Lent(j, IF x \in ToSet(j.ready[j.prio[x]]) THEN MakeReady(Raised(j, x, v), <<x>>) ELSE Raised(j, x, v), x, v)
<1> DEFINE f == j.free
           a == [j.prio EXCEPT ![x] = v]
           b == j.base
           i == [j.item EXCEPT ![x] = v]
           u == Raised(j, x, v)
           r == MakeReady(u, <<x>>)
<1>1. j \in Kernel /\ j.prio[x] \in Priority
  BY Zenon DEF Fit, Kernel
<1>2. u = With(j, f, a, b, i)
  BY <1>1, Zenon DEF Kernel, With, Raised
<1>3. /\ f \in SUBSET Task /\ a \in [Task -> Priority] /\ b \in [Task -> Priority] /\ i \in [Task -> Priority]
      /\ a[x] = v /\ \A y \in Task \ {x} : a[y] = j.prio[y]
  BY <1>1, Zenon DEF Kernel
<1> HIDE DEF f, a, b, i, u
<1>4. /\ u \in Kernel /\ u.free = f /\ u.prio = a /\ u.base = b /\ u.item = i
      /\ u.current = j.current /\ u.ready = j.ready /\ u.delayed = j.delayed /\ u.overflowed = j.overflowed
      /\ u.pending = j.pending /\ u.suspended = j.suspended /\ u.terminating = j.terminating
      /\ u.deleted = j.deleted /\ u.wake = j.wake /\ u.tick = j.tick /\ u.event = j.event
      /\ u.overflows = j.overflows /\ u.top = j.top /\ u.susp = j.susp /\ u.missed = j.missed
  BY <1>1, <1>2, <1>3, WithFields
<1>5. CASE x \in ToSet(j.ready[j.prio[x]])
  <2>1. IsReady(j, x)
    BY <1>1, <1>5 DEF IsReady
  <2>2. x \notin ToSet(j.terminating) /\ x \notin j.free /\ ~Awaits(j, x)
    BY <2>1, ReadyApart
  <2>3. f = j.free \ {x}
    BY <2>2 DEF f
  <2>4. Reranked(j, u, x)
    BY <1>2, <1>3, <2>2, <2>3, WithReranked
  <2>5. /\ Woken(u, r) /\ Still(j, r) /\ r.current = j.current /\ Onward(j, r) /\ Apart(r)
        /\ r.prio = u.prio /\ r.base = u.base /\ r.item = u.item /\ r.terminating = j.terminating
        /\ \A p \in Priority : ToSet(r.ready[p]) = (ToSet(j.ready[p]) \ {x}) \cup {t \in {x} : u.prio[t] = p}
        /\ IsReady(r, x) /\ \A t : IsReady(j, t) => IsReady(r, t)
    BY <2>4, RerankedReady
  <2>6. \A l \in EventList : ToSet(r.event[l]) = ToSet(j.event[l])
    <3>1. Wakeable(u, <<x>>)
      BY <2>4 DEF Reranked
    <3>2. \A l \in EventList : ToSet(r.event[l]) = ToSet(u.event[l]) \ ToSet(<<x>>)
      BY <3>1, MakeReadyWoken
    <3>3. ToSet(<<x>>) = {x}
      BY DEF ToSet
    <3>4. \A l \in EventList : x \notin ToSet(j.event[l])
      BY <2>2 DEF Awaits
    <3> HIDE DEF r
    <3>5. QED
      BY <1>4, <3>2, <3>3, <3>4
  <2> HIDE DEF r
  <2>7. \A t : IsReady(r, t) => IsReady(j, t)
    BY <2>1, <2>5 DEF IsReady
  <2>8. Lent(j, r, x, v)
    BY <1>4, <2>5, <2>6, <2>7 DEF Lent, Woken, a, b, i
  <2>9. QED
    BY <1>5, <2>8 DEF r, u
<1>6. CASE x \notin ToSet(j.ready[j.prio[x]])
  <2>1. \A y \in Task : OnePlace(j, y) /\ \A p \in Priority : y \in ToSet(j.ready[p]) => j.prio[y] = p
    BY DEF Fit, Placed
  <2>2. ASSUME NEW y \in Task PROVE OnePlace(u, y) /\ \A p \in Priority : y \in ToSet(u.ready[p]) => u.prio[y] = p
    <3>1. u.free = j.free
      BY <1>4 DEF f
    <3>2. OnePlace(u, y)
      BY <1>4, <2>1, <3>1 DEF OnePlace, IsReady
    <3>3. \A p \in Priority : y \in ToSet(u.ready[p]) => u.prio[y] = p
      BY <1>3, <1>4, <1>6, <2>1
    <3>4. QED
      BY <3>2, <3>3
  <2>3. Fit(u, {})
    BY <1>4, <2>2 DEF Fit, Placed, NoDups, TopCovers
  <2>4. Onward(j, u) /\ Still(j, u)
    BY <1>4, OnwardSame DEF IsDelayed, Still
  <2>5. Apart(u)
    BY <1>4, <2>4, ApartOnward DEF Apart
  <2>6. Lent(j, u, x, v)
    BY <1>4, <2>3, <2>4, <2>5 DEF Lent, IsReady, a, b, i
  <2>7. QED
    BY <1>6, <2>6 DEF u
<1>7. QED
  BY <1>5, <1>6

\* vTaskPriorityInherit() raises the holder to the running task, if it is below.
LEMMA InheritIs ==
  ASSUME NEW j, Fit(j, {}), Apart(j), NEW h \in Task \ {Idle}
  PROVE  LET r == vTaskPriorityInherit(j, h)
         IN \/ r = j /\ j.prio[h] >= j.prio[j.current]
            \/ j.prio[h] < j.prio[j.current] /\ Lent(j, r, h, j.prio[j.current])
<1> DEFINE r == vTaskPriorityInherit(j, h)
           v == j.prio[j.current]
           u == IF h \in ToSet(j.ready[j.prio[h]]) THEN MakeReady(Raised(j, h, v), <<h>>) ELSE Raised(j, h, v)
<1>1. v \in Priority /\ v \in Int /\ j.prio[h] \in Int
  BY PriorityFacts DEF Fit, Kernel
<1>2. Lent(j, u, h, v)
  <2> HIDE DEF v
  <2>1. QED
    BY <1>1, RaisedLent
<1>3. IF j.prio[h] >= v THEN r = j ELSE r = u
  BY DEF vTaskPriorityInherit, Raised
<1> HIDE DEF u, r
<1>4. CASE j.prio[h] >= v
  BY <1>3, <1>4 DEF r
<1>5. CASE j.prio[h] < v
  <2>1. ~(j.prio[h] >= v)
    BY <1>1, <1>5
  <2>2. r = u
    BY <1>3, <2>1
  <2>3. QED
    BY <1>2, <1>5, <2>2 DEF r
<1>6. QED
  BY <1>1, <1>4, <1>5

\* vTaskPriorityDisinherit() gives a ready holder its own priority.
LEMMA DisinheritIs ==
  ASSUME NEW j, Fit(j, {}), Apart(j), NEW h \in Task \ {Idle}, IsReady(j, h), h # NULL
  PROVE  LET r == vTaskPriorityDisinherit(j, h)
         IN (r = j /\ j.prio[h] = j.base[h]) \/ Lent(j, r, h, j.base[h])
<1> DEFINE r == vTaskPriorityDisinherit(j, h)
           v == j.base[h]
           u == IF h \in ToSet(j.ready[j.prio[h]]) THEN MakeReady(Raised(j, h, v), <<h>>) ELSE Raised(j, h, v)
<1>1. v \in Priority
  BY DEF Fit, Kernel
<1>2. Lent(j, u, h, v)
  <2> HIDE DEF v
  <2>1. QED
    BY <1>1, RaisedLent
<1>3. h \in ToSet(j.ready[j.prio[h]])
  BY ReadyApart
<1>4. IF j.prio[h] = v THEN r = j ELSE r = u
  BY <1>3 DEF vTaskPriorityDisinherit, Raised
<1> HIDE DEF u, r
<1>5. QED
  BY <1>2, <1>4 DEF r

-----------------------------------------------------------------------------
(* Who holds the mutex, and what the calls to it can be.                   *)

\* The mutex is there, or somebody holds it; one that is about to wait does not
\* find it; no interrupt has counted anything in the locks.
Held(j, at, m, h) ==
    /\ h \in (Task \ {Idle}) \cup {NULL} /\ (m.messages = 0 <=> h # NULL)
    /\ at[j.current] = "q_place" => m.messages = 0
    /\ m.txLock <= 0 /\ m.rxLock <= 0

\* Task t, which is at p in the call c, gives the mutex that it holds, which does
\* not take it into the loop, or wants to take it and does not hold it.
GiveTake(p, c, t, h) ==
    p \in QPlaces => \/ c.op = "send" /\ c.wait = 0 /\ p = "q_top" /\ h = t
                     \/ c.op = "receive" /\ h # t

\* Nobody but the holder has another priority than its own.
Own(j, h) ==
    \A t \in Task : /\ j.prio[t] = j.base[t] => j.item[t] = j.base[t]
                    /\ h # t => j.prio[t] = j.base[t]

Users(at, c, h) == \A t \in Task : GiveTake(at[t], c[t], t, h)

Mutual == Held(k, pc, q, holder) /\ Users(pc, call, holder) /\ Own(k, holder)

\* The inductive invariant of the mutex.
MInv == QInv /\ Mutual

\* What a step of the running task t within a call leaves, while nobody takes the
\* mutex or gives it.
LEMMA MovedMutual ==
  ASSUME MInv, NEW t \in Task, k.current = t, k' \in Kernel,
         NEW p, pc' = [pc EXCEPT ![t] = p], NEW c, call' = [call EXCEPT ![t] = c],
         GiveTake(p, c, t, holder), holder' = holder, q'.messages = q.messages, q'.txLock <= 0, q'.rxLock <= 0,
         p = "q_place" => q.messages = 0,
         k'.prio = k.prio, k'.base = k.base, k'.item = k.item
  PROVE  Mutual'
<1>1. /\ pc \in [Task -> Places \cup QPlaces] /\ call \in [Task -> CallType]
      /\ \A x \in Task \ {t} : pc[x] \notin QLocking
      /\ Held(k, pc, q, holder) /\ Users(pc, call, holder) /\ Own(k, holder)
  BY DEF MInv, Mutual, QInv, Base, Core
<1>2. /\ pc'[t] = p /\ call'[t] = c /\ \A x \in Task \ {t} : pc'[x] = pc[x] /\ call'[x] = call[x]
  BY <1>1
<1>3. Users(pc', call', holder')
  BY <1>1, <1>2 DEF Users
<1>4. Own(k', holder')
  BY <1>1 DEF Own
<1>5. pc'[k'.current] = "q_place" => q'.messages = 0
  <2>1. "q_place" \in QLocking /\ k'.current \in Task
    BY DEF QLocking, Kernel
  <2>2. QED
    BY <1>1, <1>2, <2>1
<1>6. Held(k', pc', q', holder')
  BY <1>1, <1>5 DEF Held
<1>7. QED
  BY <1>3, <1>4, <1>6 DEF Mutual

\* The running task t goes from o to p in the call c, which is the one it is in if
\* it stays in the loop; the mutex is neither taken nor given.
Turned(t, o, p, c) ==
    /\ o \in QPlaces /\ Runs(t, o) /\ pc' = [pc EXCEPT ![t] = p] /\ call' = [call EXCEPT ![t] = c]
    /\ p \in QPlaces => /\ c.op = call[t].op /\ (p = "q_top" \/ call[t].op = "receive")
                        /\ c.wait = call[t].wait \/ call[t].op = "receive"
    /\ p = "q_place" => q.messages = 0
    /\ q'.messages = q.messages /\ q'.txLock <= 0 /\ q'.rxLock <= 0

\* The loop neither takes the mutex nor gives it.
LEMMA LoopMutual ==
  ASSUME MInv, NEW t \in Task, LoopStep(t), holder' = holder
  PROVE  Mutual'
<1>1. /\ call \in [Task -> CallType] /\ pc \in [Task -> Places \cup QPlaces] /\ QInv
      /\ q \in [messages : 0..Length, txLock : -1..MaxLock, rxLock : -1..MaxLock] /\ q.txLock <= 0 /\ q.rxLock <= 0
      /\ GiveTake(pc[t], call[t], t, holder)
  BY DEF MInv, Mutual, QInv, Base, Core, Ring, Held, Users
<1>2. k' \in Kernel /\ k'.prio = k.prio /\ k'.base = k.base /\ k'.item = k.item
  BY <1>1, LoopEffect DEF Woken, Fit
<1>3. call = [call EXCEPT ![t] = call[t]]
  BY <1>1
<1>4. ASSUME NEW o, NEW p, NEW c, Turned(t, o, p, c) PROVE Mutual'
  <2>1. GiveTake(p, c, t, holder)
    BY <1>1, <1>4 DEF GiveTake, Runs, Turned
  <2>2. k.current = t
    BY <1>4 DEF Runs, Turned
  <2> HIDE DEF Mutual
  <2>3. QED
    BY <1>2, <1>4, <2>1, <2>2, MovedMutual, Zenon DEF Turned
<1>5. ASSUME NEW o \in QPlaces \ {"q_top"}, Runs(t, o) PROVE call[t].op = "receive"
  BY <1>1, <1>5 DEF GiveTake, Runs
<1>6. /\ "q_top" \in QPlaces /\ "app" \notin QPlaces /\ "app" # "q_place"
      /\ QPlaces \ {"q_top"} = {"q_suspend", "q_lock", "q_check", "q_test", "q_place",
                                "q_unlock", "q_unlock_rx", "q_resume", "q_yield"}
  BY DEF QPlaces
<1>7. CASE ReturnAtOnce(t)
  <2>1. Runs(t, "q_top") /\ q' = q /\ pc' = [pc EXCEPT ![t] = "app"] /\ call' = [call EXCEPT ![t] = NoCall]
    BY <1>7 DEF ReturnAtOnce, Return, Goto
  <2>2. Turned(t, "q_top", "app", NoCall)
    BY <1>1, <1>6, <2>1 DEF Turned
  <2>3. QED
    BY <1>4, <2>2
<1>8. CASE DecideToWait(t)
  <2> DEFINE c == [call[t] EXCEPT !.timeSet = TRUE,
                                  !.timeout = IF call[t].timeSet THEN call[t].timeout ELSE vTaskSetTimeOutState]
  <2>1. /\ Runs(t, "q_top") /\ q' = q /\ pc' = [pc EXCEPT ![t] = "q_suspend"] /\ call[t].wait # 0
    BY <1>8 DEF DecideToWait, Goto
  <2>2. call' = [call EXCEPT ![t] = c]
    BY <1>1, <1>8, Zenon DEF DecideToWait
  <2>3. c.op = call[t].op /\ c.wait = call[t].wait
    BY <1>1, Zenon DEF CallType
  <2>4. call[t].op = "receive"
    BY <1>1, <1>6, <2>1 DEF GiveTake, Runs
  <2> HIDE DEF c
  <2>5. Turned(t, "q_top", "q_suspend", c)
    BY <1>1, <1>6, <2>1, <2>2, <2>3, <2>4 DEF Turned
  <2>6. QED
    BY <1>4, <2>5
<1>9. CASE SuspendAll(t)
  <2>1. Runs(t, "q_suspend") /\ q' = q /\ pc' = [pc EXCEPT ![t] = "q_lock"] /\ call' = call
    BY <1>9 DEF SuspendAll, Goto
  <2>2. call[t].op = "receive"
    BY <1>5, <1>6, <2>1
  <2>3. Turned(t, "q_suspend", "q_lock", call[t])
    BY <1>1, <1>3, <1>6, <2>1, <2>2 DEF Turned
  <2>4. QED
    BY <1>4, <2>3
<1>10. CASE prvLockQueue(t)
  <2>1. /\ Runs(t, "q_lock") /\ q' = [q EXCEPT !.rxLock = LockedNow(@), !.txLock = LockedNow(@)]
        /\ pc' = [pc EXCEPT ![t] = "q_check"] /\ call' = call
    BY <1>10 DEF prvLockQueue, Goto
  <2>2. q'.messages = q.messages /\ q'.txLock <= 0 /\ q'.rxLock <= 0
    <3>1. q'.messages = q.messages /\ q'.txLock = LockedNow(q.txLock) /\ q'.rxLock = LockedNow(q.rxLock)
      BY <1>1, <2>1
    <3>2. QED
      BY <1>1, <3>1 DEF LockedNow, queueLOCKED_UNMODIFIED
  <2>3. call[t].op = "receive"
    BY <1>5, <1>6, <2>1
  <2>4. Turned(t, "q_lock", "q_check", call[t])
    BY <1>1, <1>3, <1>6, <2>1, <2>2, <2>3 DEF Turned
  <2>5. QED
    BY <1>4, <2>4
<1>11. CASE xTaskCheckForTimeOut(t)
  <2>1. Runs(t, "q_check") /\ q' = q
    BY <1>11 DEF xTaskCheckForTimeOut
  <2>2. call[t].op = "receive"
    BY <1>5, <1>6, <2>1
  <2>3. CASE TimedOut(k.overflows, k.tick, call[t].timeout, call[t].wait)
    <3> DEFINE c == [call[t] EXCEPT !.path = "fail"]
    <3>1. pc' = [pc EXCEPT ![t] = "q_unlock"] /\ call' = [call EXCEPT ![t] = c]
      BY <1>1, <1>11, <2>3, Zenon DEF xTaskCheckForTimeOut, Goto
    <3>2. c.op = call[t].op /\ c.wait = call[t].wait
      BY <1>1, Zenon DEF CallType
    <3> HIDE DEF c
    <3>3. Turned(t, "q_check", "q_unlock", c)
      BY <1>1, <1>6, <2>1, <2>2, <3>1, <3>2 DEF Turned
    <3>4. QED
      BY <1>4, <3>3
  <2>4. CASE ~TimedOut(k.overflows, k.tick, call[t].timeout, call[t].wait)
    <3> DEFINE c == [call[t] EXCEPT !.wait = TicksLeft(k.tick, call[t].timeout, call[t].wait),
                       !.timeout = IF call[t].wait = portMAX_DELAY THEN call[t].timeout ELSE vTaskSetTimeOutState]
    <3>1. pc' = [pc EXCEPT ![t] = "q_test"] /\ call' = [call EXCEPT ![t] = c]
      BY <1>1, <1>11, <2>4, Zenon DEF xTaskCheckForTimeOut, Goto
    <3>2. c.op = call[t].op
      BY <1>1, Zenon DEF CallType
    <3> HIDE DEF c
    <3>3. Turned(t, "q_check", "q_test", c)
      BY <1>1, <1>6, <2>1, <2>2, <3>1, <3>2 DEF Turned
    <3>4. QED
      BY <1>4, <3>3
  <2>5. QED
    BY <2>3, <2>4
<1>12. CASE TestAgain(t)
  <2> DEFINE c == [call[t] EXCEPT !.path = IF MustWait(call[t].op) THEN "block" ELSE "retry"]
             p == IF MustWait(call[t].op) THEN "q_place" ELSE "q_unlock"
  <2>1. Runs(t, "q_test") /\ q' = q /\ pc' = [pc EXCEPT ![t] = p]
    BY <1>12 DEF TestAgain, Goto
  <2>2. call[t].op = "receive"
    BY <1>5, <1>6, <2>1
  <2>3. call' = [call EXCEPT ![t] = c]
    BY <1>1, <1>12, Zenon DEF TestAgain
  <2>4. c.op = call[t].op
    BY <1>1, Zenon DEF CallType
  <2>5. p = "q_place" => q.messages = 0
    BY <2>2 DEF MustWait, prvIsQueueEmpty
  <2> HIDE DEF c, p
  <2>6. Turned(t, "q_test", p, c)
    BY <1>1, <1>6, <2>1, <2>2, <2>3, <2>4, <2>5 DEF Turned
  <2>7. QED
    BY <1>4, <2>6
<1>13. CASE UnlockTx(t)
  <2>1. Runs(t, "q_unlock") /\ q' = [q EXCEPT !.txLock = queueUNLOCKED] /\ pc' = [pc EXCEPT ![t] = "q_unlock_rx"] /\ call' = call
    BY <1>13 DEF UnlockTx, Goto
  <2>2. call[t].op = "receive" /\ q'.messages = q.messages /\ q'.txLock <= 0 /\ q'.rxLock <= 0
    BY <1>1, <1>5, <1>6, <2>1 DEF queueUNLOCKED
  <2>3. Turned(t, "q_unlock", "q_unlock_rx", call[t])
    BY <1>3, <1>6, <2>1, <2>2 DEF Turned
  <2>4. QED
    BY <1>4, <2>3
<1>14. CASE UnlockRx(t)
  <2>1. Runs(t, "q_unlock_rx") /\ q' = [q EXCEPT !.rxLock = queueUNLOCKED] /\ pc' = [pc EXCEPT ![t] = "q_resume"] /\ call' = call
    BY <1>14 DEF UnlockRx, Goto
  <2>2. call[t].op = "receive" /\ q'.messages = q.messages /\ q'.txLock <= 0 /\ q'.rxLock <= 0
    BY <1>1, <1>5, <1>6, <2>1 DEF queueUNLOCKED
  <2>3. Turned(t, "q_unlock_rx", "q_resume", call[t])
    BY <1>3, <1>6, <2>1, <2>2 DEF Turned
  <2>4. QED
    BY <1>4, <2>3
<1>15. CASE QueueResume(t)
  <2> DEFINE path == call[t].path
             p == IF xTaskResumeAll(k).yielded THEN (IF path = "fail" THEN "app" ELSE "q_top")
                 ELSE CASE path = "block" -> "q_yield" [] path = "retry" -> "q_top" [] path = "fail" -> "app"
             c == IF path = "fail" THEN NoCall ELSE call[t]
  <2>1. Runs(t, "q_resume") /\ q' = q /\ pc' = [pc EXCEPT ![t] = p]
    BY <1>15 DEF QueueResume, ResumeAll, Goto
  <2>2. call' = [call EXCEPT ![t] = c]
    BY <1>3, <1>15, Zenon DEF QueueResume
  <2>3. path \in {"block", "retry", "fail"}
    BY <1>1, Zenon DEF CallType
  <2>4. p # "q_place" /\ (p \in QPlaces => c = call[t])
    BY <1>6, <2>3
  <2>5. call[t].op = "receive"
    BY <1>5, <1>6, <2>1
  <2> HIDE DEF path, p, c
  <2>6. Turned(t, "q_resume", p, c)
    BY <1>1, <1>6, <2>1, <2>2, <2>4, <2>5 DEF Turned
  <2>7. QED
    BY <1>4, <2>6
<1>16. CASE taskYIELD(t, "q_yield", "q_top") /\ UNCHANGED <<q, call>>
  <2>1. Runs(t, "q_yield") /\ pc' = [pc EXCEPT ![t] = "q_top"] /\ q' = q /\ call' = call
    BY <1>16 DEF taskYIELD, Goto
  <2>2. Turned(t, "q_yield", "q_top", call[t])
    BY <1>1, <1>3, <1>5, <1>6, <2>1 DEF Turned
  <2>3. QED
    BY <1>4, <2>2
<1>17. QED
  BY <1>7, <1>8, <1>9, <1>10, <1>11, <1>12, <1>13, <1>14, <1>15, <1>16 DEF LoopStep

\* Only the holder enters a give, and only another task a take.
LEMMA EnterMutual ==
  ASSUME MInv, NEW t \in Task, NEW op, NEW wait, Enter(t, op, wait), holder' = holder,
         (op = "send" /\ wait = 0 /\ holder = t) \/ (op = "receive" /\ holder # t)
  PROVE  Mutual'
<1> DEFINE c == [NoCall EXCEPT !.op = op, !.wait = wait]
           p == "q_top"
<1>1. /\ Runs(t, "app") /\ k' = k /\ q' = q /\ pc' = [pc EXCEPT ![t] = p] /\ call' = [call EXCEPT ![t] = c]
  BY DEF Enter, Goto
<1>2. c.op = op /\ c.wait = wait
  BY DEF NoCall
<1>3. GiveTake(p, c, t, holder)
  BY <1>2 DEF GiveTake
<1>4. k \in Kernel /\ q.txLock <= 0 /\ q.rxLock <= 0
  BY DEF MInv, Mutual, Held, QInv, Base, Core, Fit
<1>5. p # "q_place" /\ k.current = t
  BY <1>1 DEF Runs
<1> HIDE DEF c, p, Mutual
<1>6. QED
  BY <1>1, <1>3, <1>4, <1>5, MovedMutual, Zenon

\* The scheduler does not know of the mutex.
LEMMA OutsideMutual ==
  ASSUME MInv, Next, UNCHANGED <<q, call, holder>>
  PROVE  Mutual'
<1>1. /\ Outside(call, k, pc, due, k', pc', due') /\ call' = call /\ q' = q /\ holder' = holder
      /\ Held(k, pc, q, holder) /\ Users(pc, call, holder) /\ Own(k, holder)
  BY OutsideNext DEF MInv, Mutual, QInv, Base
<1>2. /\ \A x \in Task : pc'[x] = pc[x] \/ pc'[x] \in Places
      /\ \/ k'.current = k.current /\ pc'[k'.current] = pc[k.current]
         \/ pc'[k'.current] \notin QLocking
      /\ \A x \in Task :
            \/ k'.prio[x] = k.prio[x] /\ k'.base[x] = k.base[x] /\ k'.item[x] = k.item[x]
            \/ k'.item[x] = k'.base[x] /\ (k.prio[x] = k.base[x] => k'.prio[x] = k'.base[x])
  BY <1>1 DEF Outside
<1>3. Places \cap QPlaces = {} /\ "q_place" \in QLocking
  BY DEF Places, QPlaces, QLocking
<1>4. Users(pc', call', holder')
  BY <1>1, <1>2, <1>3 DEF Users, GiveTake
<1>5. Own(k', holder')
  BY <1>1, <1>2 DEF Own
<1>6. Held(k', pc', q', holder')
  BY <1>1, <1>2, <1>3 DEF Held
<1>7. QED
  BY <1>4, <1>5, <1>6 DEF Mutual

\* Before it wakes a task, the caller of the transfer that gives the mutex has
\* got back its own priority.
Giving(j, t) ==
    /\ Fit(j, {}) /\ Apart(j) /\ Onward(k, j) /\ Still(k, j)
    /\ j.current = k.current /\ j.terminating = k.terminating /\ j.base = k.base
    /\ \A x : IsReady(j, x) <=> IsReady(k, x)
    /\ \A l \in EventList : ToSet(j.event[l]) = ToSet(k.event[l])
    /\ \A x \in Task \ {t} : j.prio[x] = k.prio[x] /\ j.item[x] = k.item[x]
    /\ call[t].op = "send" => j.prio[t] = k.base[t] /\ j.item[t] = k.base[t]
    /\ call[t].op = "receive" => j = k

\* The mutex changes hands.
Handed(t) ==
    /\ Runs(t, "q_top") /\ t # Idle /\ IsReady(k, t) /\ ~Awaits(k, t)
    /\ \/ call[t].op = "send" /\ holder = t /\ holder' = NULL /\ q.messages = 0 /\ q'.messages = 1
       \/ call[t].op = "receive" /\ holder = NULL /\ holder' = t /\ q.messages = 1 /\ q'.messages = 0
    /\ q'.txLock = q.txLock /\ q'.rxLock = q.rxLock

\* What a transfer does to the holder and to the tasks.
LEMMA MutexTransferEffect ==
  ASSUME MutexAssumption, MInv, NEW t \in Task, MutexTransfer(t)
  PROVE  Handed(t) /\ \E j : Giving(j, t) /\ Served(j, k', Waking(call[t].op))
<1>1. /\ Runs(t, "q_top") /\ ~MustWait(call[t].op) /\ q' = [q EXCEPT !.messages = Transferred(call[t].op)]
      /\ holder' = IF call[t].op = "receive" THEN t ELSE NULL
      /\ k' = WakeAndYield(IF call[t].op = "receive" THEN k ELSE vTaskPriorityDisinherit(k, holder), Waking(call[t].op))
  BY DEF MutexTransfer
<1>2. "q_top" \in QPlaces /\ QInv /\ Held(k, pc, q, holder) /\ Users(pc, call, holder) /\ Own(k, holder)
  BY DEF QPlaces, MInv, Mutual
<1>3. /\ Fit(k, {}) /\ Apart(k) /\ k.current = t /\ t # Idle
      /\ q \in [messages : 0..Length, txLock : -1..MaxLock, rxLock : -1..MaxLock]
  BY <1>1, <1>2, QueueAssumption, Running
<1>4. IsReady(k, t) /\ ~Awaits(k, t)
  <2>1. ~Leaving(pc, call, t)
    BY <1>1 DEF Leaving, Parting, Runs
  <2>2. QED
    BY <1>2, <1>3, <2>1, RunningReady
<1>5. \/ call[t].op = "send" /\ holder = t
      \/ call[t].op = "receive" /\ holder # t
  BY <1>1, <1>2 DEF Users, GiveTake, Runs
<1>6. t # NULL /\ Length = 1 /\ NULL \notin Task
  BY DEF MutexAssumption
<1>7. /\ q.messages \in 0..1 /\ q'.messages = Transferred(call[t].op) /\ q'.txLock = q.txLock /\ q'.rxLock = q.rxLock
  BY <1>1, <1>3, <1>6
<1>8. Handed(t)
  <2>1. CASE call[t].op = "send"
    <3>1. holder = t /\ holder' = NULL /\ q.messages = 0
      BY <1>1, <1>2, <1>5, <1>6, <2>1 DEF Held
    <3>2. q'.messages = 1
      BY <1>7, <2>1, <3>1 DEF Transferred
    <3>3. QED
      BY <1>1, <1>3, <1>4, <1>7, <2>1, <3>1, <3>2 DEF Handed
  <2>2. CASE call[t].op = "receive"
    <3>1. q.messages = 1 /\ holder = NULL /\ holder' = t
      BY <1>1, <1>2, <1>7, <2>2 DEF Held, MustWait, prvIsQueueEmpty
    <3>2. q'.messages = 0
      BY <1>7, <2>2, <3>1 DEF Transferred
    <3>3. QED
      BY <1>1, <1>3, <1>4, <1>7, <2>2, <3>1, <3>2 DEF Handed
  <2>3. QED
    BY <1>5, <2>1, <2>2
<1>9. Waking(call[t].op) \in EventList
  BY QueueAssumption DEF Waking
<1>10. CASE call[t].op = "receive"
  <2>1. Giving(k, t)
    <3>1. Onward(k, k) /\ Still(k, k)
      BY OnwardSame DEF Still
    <3>2. QED
      BY <1>3, <1>10, <3>1 DEF Giving
  <2>2. Served(k, k', Waking(call[t].op))
    BY <1>1, <1>3, <1>9, <1>10, WakeAndYieldServes
  <2>3. QED
    BY <1>8, <2>1, <2>2
<1>11. CASE call[t].op = "send"
  <2> DEFINE j == vTaskPriorityDisinherit(k, t)
  <2>1. (j = k /\ k.prio[t] = k.base[t]) \/ Lent(k, j, t, k.base[t])
    BY <1>3, <1>4, <1>6, DisinheritIs
  <2>2. k' = WakeAndYield(j, Waking(call[t].op))
    BY <1>1, <1>5, <1>11
  <2> HIDE DEF j
  <2>3. Giving(j, t)
    <3>1. CASE j = k /\ k.prio[t] = k.base[t]
      <4>1. Onward(k, k) /\ Still(k, k) /\ k.item[t] = k.base[t]
        BY <1>2, <3>1, OnwardSame DEF Still, Own
      <4>2. QED
        BY <1>3, <1>11, <3>1, <4>1 DEF Giving
    <3>2. CASE Lent(k, j, t, k.base[t])
      <4>1. k.prio \in [Task -> Priority] /\ k.item \in [Task -> Priority]
        BY <1>3, Zenon DEF Fit, Kernel
      <4>2. /\ j.prio[t] = k.base[t] /\ j.item[t] = k.base[t]
            /\ \A x \in Task \ {t} : j.prio[x] = k.prio[x] /\ j.item[x] = k.item[x]
        BY <3>2, <4>1 DEF Lent
      <4>3. QED
        BY <1>11, <3>2, <4>2 DEF Giving, Lent
    <3>3. QED
      BY <2>1, <3>1, <3>2
  <2>4. Served(j, k', Waking(call[t].op))
    BY <1>9, <2>2, <2>3, WakeAndYieldServes DEF Giving
  <2>5. QED
    BY <1>8, <2>3, <2>4
<1>12. QED
  BY <1>5, <1>10, <1>11

\* The mutex is taken or given.
LEMMA MutexTransferKeeps ==
  ASSUME MutexAssumption, MInv, NEW t \in Task, MutexTransfer(t), KeepLeft
  PROVE  MInv'
<1>1. /\ Runs(t, "q_top") /\ ~MustWait(call[t].op) /\ q' = [q EXCEPT !.messages = Transferred(call[t].op)]
      /\ Return(t) /\ KeepDue /\ lastWake' = lastWake
      /\ pc' = [pc EXCEPT ![t] = "app"] /\ call' = [call EXCEPT ![t] = NoCall]
  BY DEF MutexTransfer, Return, Goto
<1>2. PICK j : Handed(t) /\ Giving(j, t) /\ Served(j, k', Waking(call[t].op))
  BY MutexTransferEffect
<1>3. QInv /\ Held(k, pc, q, holder) /\ Users(pc, call, holder) /\ Own(k, holder)
  BY DEF MInv, Mutual
<1>4. QInv'
  <2> DEFINE l == Waking(call[t].op)
  <2>1. l \in EventList /\ Served(j, k', l)
    BY <1>2, QueueAssumption DEF Waking
  <2> HIDE DEF l
  <2>2. /\ Fit(j, {}) /\ Onward(k, j) /\ Apart(j) /\ Still(k, j) /\ j.current = k.current /\ IsReady(j, t)
        /\ j.terminating = k.terminating
    BY <1>2 DEF Giving, Handed
  <2> HIDE DEF QInv
  <2>3. QED
    BY <1>1, <1>3, <2>1, <2>2, ReturnKeeps
<1>5. /\ pc \in [Task -> Places \cup QPlaces] /\ call \in [Task -> CallType] /\ k.current = t
      /\ \A x \in Task \ {k.current} : pc[x] \notin QLocking
  BY <1>1, <1>3 DEF QInv, Base, Core, Runs
<1>6. /\ pc'[t] = "app" /\ \A x \in Task \ {t} : pc'[x] = pc[x] /\ call'[x] = call[x]
  BY <1>1, <1>5
<1>7. NULL \notin Task /\ "app" \notin QPlaces /\ "q_place" \in QLocking
  BY DEF MutexAssumption, QPlaces, QLocking
<1>8. ASSUME NEW x \in Task PROVE GiveTake(pc'[x], call'[x], x, holder')
  <2>1. CASE x = t
    BY <1>6, <1>7, <2>1 DEF GiveTake
  <2>2. CASE x # t
    <3>1. GiveTake(pc[x], call[x], x, holder)
      BY <1>3 DEF Users
    <3>2. holder # x /\ holder' # x
      BY <1>2, <1>7, <2>2 DEF Handed
    <3>3. QED
      BY <1>6, <2>2, <3>1, <3>2 DEF GiveTake
  <2>3. QED
    BY <2>1, <2>2
<1>9. Users(pc', call', holder')
  BY <1>8 DEF Users
<1>10. Own(k', holder')
  <2>1. k'.prio = j.prio /\ k'.base = j.base /\ k'.item = j.item
    BY <1>2 DEF Served, Woken
  <2>2. SUFFICES ASSUME NEW x \in Task
                 PROVE  /\ k'.prio[x] = k'.base[x] => k'.item[x] = k'.base[x]
                        /\ holder' # x => k'.prio[x] = k'.base[x]
    BY DEF Own
  <2>3. /\ k.prio[x] = k.base[x] => k.item[x] = k.base[x]
        /\ holder # x => k.prio[x] = k.base[x]
    BY <1>3 DEF Own
  <2>4. CASE call[t].op = "receive"
    BY <1>2, <1>7, <2>1, <2>3, <2>4 DEF Giving, Handed
  <2>5. CASE call[t].op = "send"
    BY <1>2, <2>1, <2>3, <2>5 DEF Giving, Handed
  <2>6. QED
    BY <1>2, <2>4, <2>5 DEF Handed
<1>11. Held(k', pc', q', holder')
  <2>1. k'.current \in Task
    BY <1>4 DEF QInv, Base, Core, Fit, Kernel
  <2>2. pc'[k'.current] # "q_place"
    BY <1>5, <1>6, <1>7, <2>1
  <2>3. QED
    BY <1>2, <1>3, <1>7, <2>2 DEF Handed, Held
<1>12. QED
  BY <1>4, <1>9, <1>10, <1>11 DEF MInv, Mutual

\* The holder has got the priority of the running task t, if that is higher.
Lending(j, t, h) ==
    /\ Fit(j, {}) /\ Apart(j) /\ Onward(k, j) /\ Still(k, j)
    /\ j.current = k.current /\ j.terminating = k.terminating /\ j.base = k.base
    /\ \A x : IsReady(j, x) <=> IsReady(k, x)
    /\ \A l \in EventList : ToSet(j.event[l]) = ToSet(k.event[l])
    /\ \A x \in Task \ {h} : j.prio[x] = k.prio[x] /\ j.item[x] = k.item[x]
    /\ \/ j.prio[h] = k.prio[h] /\ j.item[h] = k.item[h]
       \/ j.prio[h] = k.prio[t] /\ j.item[h] = k.prio[t]
    /\ j.prio[h] >= k.prio[t] /\ j.prio[h] >= k.prio[h]

\* The running task t joins those that wait for the mutex, which another one holds.
LEMMA MutexPlaceEffect ==
  ASSUME MutexAssumption, MInv, NEW t \in Task, MutexPlace(t)
  PROVE  /\ holder \in Task \ {Idle} /\ holder # t /\ t # Idle /\ call[t].op = "receive" /\ call[t].path = "block"
         /\ q.messages = 0 /\ IsReady(k, t) /\ ~Awaits(k, t) /\ k.current = t
         /\ \E j : Lending(j, t, holder) /\ Listed(j, k', t, Waiting(call[t].op), call[t].wait)
<1>1. /\ Runs(t, "q_place")
      /\ k' = vTaskPlaceOnEventList(vTaskPriorityInherit(k, holder), t, "toReceive", call[t].wait)
  BY DEF MutexPlace
<1>2. /\ "q_place" \in QPlaces /\ "q_place" # "q_top" /\ "q_place" \notin {"yield", "resume", "q_yield"} \cup Parting
      /\ QInv /\ Held(k, pc, q, holder) /\ Users(pc, call, holder) /\ "toReceive" \in EventList
  BY QueueAssumption DEF QPlaces, Parting, MInv, Mutual
<1>3. /\ Fit(k, {}) /\ Apart(k) /\ k.current = t /\ t # Idle /\ InCall("q_place", call[t]) /\ call[t] \in CallType
  BY <1>1, <1>2, QueueAssumption, Running
<1>4. IsReady(k, t) /\ ~Awaits(k, t)
  <2>1. ~Leaving(pc, call, t)
    BY <1>1, <1>2 DEF Leaving, Runs
  <2>2. QED
    BY <1>2, <1>3, <2>1, RunningReady
<1>5. call[t].op = "receive" /\ holder # t /\ call[t].path = "block" /\ call[t].wait \in portTickType
  <2>1. GiveTake("q_place", call[t], t, holder)
    BY <1>1, <1>2 DEF Users, Runs
  <2>2. QED
    BY <1>2, <1>3, <2>1, CallFields DEF GiveTake, InCall
<1>6. q.messages = 0 /\ holder \in Task \ {Idle}
  BY <1>1, <1>2, <1>3 DEF Held, Runs
<1> DEFINE j == vTaskPriorityInherit(k, holder)
           v == k.prio[t]
<1>7. \/ j = k /\ k.prio[holder] >= v
      \/ k.prio[holder] < v /\ Lent(k, j, holder, v)
  BY <1>3, <1>6, InheritIs
<1>8. k' = vTaskPlaceOnEventList(j, t, "toReceive", call[t].wait)
  BY <1>1
<1> HIDE DEF j
<1>9. Lending(j, t, holder)
  <2>1. /\ k.prio \in [Task -> Priority] /\ k.item \in [Task -> Priority]
        /\ k.prio[holder] \in Int /\ k.prio[t] \in Int
    <3>1. k.prio \in [Task -> Priority] /\ k.item \in [Task -> Priority] /\ Priority \subseteq Int
      BY <1>3, PriorityFacts DEF Fit, Kernel
    <3>2. QED
      BY <1>6, <3>1, Zenon
  <2>2. CASE j = k /\ k.prio[holder] >= v
    <3>1. Onward(k, k) /\ Still(k, k)
      BY OnwardSame DEF Still
    <3>2. QED
      BY <1>3, <2>1, <2>2, <3>1 DEF Lending
  <2>3. CASE k.prio[holder] < v /\ Lent(k, j, holder, v)
    <3>1. /\ j.prio[holder] = v /\ j.item[holder] = v
          /\ \A x \in Task \ {holder} : j.prio[x] = k.prio[x] /\ j.item[x] = k.item[x]
      BY <1>6, <2>1, <2>3 DEF Lent
    <3>2. QED
      BY <2>1, <2>3, <3>1 DEF Lending, Lent
  <2>4. QED
    BY <1>7, <2>2, <2>3
<1>10. Listed(j, k', t, "toReceive", call[t].wait)
  <2>1. IsReady(j, t)
    BY <1>4, <1>9 DEF Lending
  <2>2. QED
    BY <1>2, <1>3, <1>5, <1>8, <1>9, <2>1, PlaceLists DEF Lending
<1>11. Waiting(call[t].op) = "toReceive"
  BY <1>5 DEF Waiting
<1>12. QED
  BY <1>3, <1>4, <1>5, <1>6, <1>9, <1>10, <1>11

\* A task waits for the mutex.
LEMMA MutexPlaceKeeps ==
  ASSUME MutexAssumption, MInv, NEW t \in Task, MutexPlace(t), KeepLeft
  PROVE  MInv'
<1>1. /\ Runs(t, "q_place") /\ Goto(t, "q_unlock") /\ UNCHANGED <<lastWake, q, call>>
      /\ due' = IF call[t].wait = portMAX_DELAY THEN due ELSE [due EXCEPT ![t] = Later(Clock(k), call[t].wait)]
      /\ pc' = [pc EXCEPT ![t] = "q_unlock"] /\ call' = call /\ q' = q /\ holder' = holder
  BY DEF MutexPlace, Goto
<1>2. /\ holder \in Task \ {Idle} /\ holder # t /\ call[t].op = "receive" /\ ~Awaits(k, t) /\ k.current = t
      /\ \E j : Lending(j, t, holder) /\ Listed(j, k', t, Waiting(call[t].op), call[t].wait)
  BY MutexPlaceEffect
<1>3. PICK j : Lending(j, t, holder) /\ Listed(j, k', t, Waiting(call[t].op), call[t].wait)
  BY <1>2
<1>4. QInv /\ Held(k, pc, q, holder) /\ Users(pc, call, holder) /\ Own(k, holder)
  BY DEF MInv, Mutual
<1>5. QInv'
  <2>1. Onward(k, j) /\ Still(k, j) /\ j.current = k.current /\ j.terminating = k.terminating /\ ~Awaits(j, t)
    BY <1>2, <1>3 DEF Lending, Awaits
  <2> HIDE DEF QInv
  <2>2. QED
    BY <1>1, <1>3, <1>4, <2>1, JoinKeeps
<1>6. pc \in [Task -> Places \cup QPlaces] /\ k'.current = t
  BY <1>2, <1>3, <1>4 DEF QInv, Base, Core, Listed, Lending
<1>7. Users(pc', call', holder')
  <2>1. pc'[t] = "q_unlock" /\ \A x \in Task \ {t} : pc'[x] = pc[x]
    BY <1>1, <1>6
  <2>2. GiveTake(pc'[t], call'[t], t, holder')
    BY <1>1, <1>2 DEF GiveTake
  <2>3. QED
    BY <1>1, <1>4, <2>1, <2>2 DEF Users
<1>8. Held(k', pc', q', holder')
  BY <1>1, <1>4, <1>6 DEF Held
<1>9. Own(k', holder')
  <2>1. k'.prio = j.prio /\ k'.item = j.item /\ k'.base = k.base
    BY <1>3 DEF Listed, Lending
  <2>2. QED
    BY <1>1, <1>3, <1>4, <2>1 DEF Own, Lending
<1>10. QED
  BY <1>5, <1>7, <1>8, <1>9 DEF MInv, Mutual

\* Nobody holds the mutex at first.
LEMMA MutexStarts == ASSUME MutexAssumption PROVE MInit => MInv
<1> SUFFICES ASSUME MInit PROVE MInv
  OBVIOUS
<1>1. Begins(1) /\ 1 \in 0..Length
  BY DEF MInit, Begins, MutexAssumption
<1>2. QInv
  BY <1>1, QueueBegins
<1>3. /\ pc = [t \in Task |-> "app"] /\ k.item = k.prio /\ k.base = k.prio
  BY Zenon DEF MInit, Init
<1>4. q.messages = 1 /\ q.txLock = -1 /\ q.rxLock = -1 /\ holder = NULL
  BY DEF MInit, queueUNLOCKED
<1>5. "app" \notin QPlaces /\ "app" # "q_place" /\ k.current \in Task
  BY <1>2 DEF QPlaces, QInv, Base, Core, Fit, Kernel
<1>6. Users(pc, call, holder)
  BY <1>3, <1>5 DEF Users, GiveTake
<1>7. Held(k, pc, q, holder) /\ Own(k, holder)
  BY <1>3, <1>4, <1>5 DEF Held, Own
<1>8. QED
  BY <1>2, <1>6, <1>7 DEF MInv, Mutual

\* Every step keeps the invariant of the mutex.
LEMMA MutexKeeps == ASSUME MutexAssumption PROVE MInv /\ [MNext]_mvars => MInv'
<1> SUFFICES ASSUME MInv, [MNext]_mvars PROVE MInv'
  OBVIOUS
<1>1. CASE UNCHANGED mvars
  BY <1>1 DEF mvars, qvars, MInv, Mutual, QInv, Base, Timely
<1>2. QInv
  BY DEF MInv
<1>3. ASSUME NEW t \in Task, xSemaphoreTake(t), KeepLeft PROVE MInv'
  <2>1. PICK wait \in Waits[t] : Enter(t, "receive", wait) /\ holder # t /\ holder' = holder
    BY <1>3 DEF xSemaphoreTake
  <2>2. Mutual'
    BY <2>1, EnterMutual
  <2>3. wait \in portTickType /\ "receive" \in Ops[t]
    BY <2>1, QueueAssumption DEF Enter
  <2>4. QInv'
    BY <1>2, <1>3, <2>1, <2>3, EnterKeeps
  <2>5. QED
    BY <2>2, <2>4 DEF MInv
<1>4. ASSUME NEW t \in Task, xSemaphoreGive(t), KeepLeft PROVE MInv'
  <2>1. Enter(t, "send", 0) /\ holder = t /\ holder' = holder
    BY <1>4 DEF xSemaphoreGive
  <2>2. Mutual'
    BY <2>1, EnterMutual
  <2>3. 0 \in portTickType /\ "send" \in Ops[t]
    BY <2>1, TickModAssumption DEF Enter, portTickType
  <2>4. QInv'
    BY <1>2, <1>4, <2>1, <2>3, EnterKeeps
  <2>5. QED
    BY <2>2, <2>4 DEF MInv
<1>5. ASSUME NEW t \in Task, LoopStep(t), holder' = holder, KeepLeft PROVE MInv'
  BY <1>2, <1>5, LoopKeeps, LoopMutual DEF MInv
<1>6. CASE Next /\ UNCHANGED <<q, call, holder>> /\ KeepLeft
  BY <1>2, <1>6, OutsideKeeps, OutsideMutual DEF MInv
<1>7. ASSUME NEW t \in Task, MutexTransfer(t), KeepLeft PROVE MInv'
  BY <1>7, MutexTransferKeeps
<1>8. ASSUME NEW t \in Task, MutexPlace(t), KeepLeft PROVE MInv'
  BY <1>8, MutexPlaceKeeps
<1>9. QED
  BY <1>1, <1>3, <1>4, <1>5, <1>6, <1>7, <1>8 DEF MNext, MutexCall

\* The invariant of the mutex holds at every step.
THEOREM MutexInvariance == ASSUME MutexAssumption PROVE MSpec => []MInv
<1>1. MInit => MInv
  BY MutexStarts
<1>2. MInv /\ [MNext]_mvars => MInv'
  BY MutexKeeps
<1>3. QED
  BY <1>1, <1>2, PTL DEF MSpec

\* Whoever does not hold the mutex has its own priority, whatever it inherited
\* while it held it, whoever has given up waiting, and although priorities are
\* set and tasks deleted meanwhile.
THEOREM PriorityGivenBack == ASSUME MutexAssumption PROVE MSpec => []BaseRestored
<1>1. MInv => BaseRestored
  BY DEF MInv, Mutual, Own, BaseRestored
<1>2. QED
  BY <1>1, MutexInvariance, PTL

-----------------------------------------------------------------------------
(* Nobody waits for the mutex behind a task of a lower priority.           *)

\* The holder of the mutex does not wait for it, and is not below those that do.
Lenders(j, h) ==
    h # NULL => \A x \in ToSet(j.event["toReceive"]) : h # x /\ j.prio[h] >= j.prio[x]

\* Task w has been woken to take the mutex, and is not below those that wait.
Heir(j, at, c, w) ==
    /\ IsReady(j, w) /\ at[w] \in {"q_top", "q_yield"} /\ c[w].op = "receive"
    /\ \A x \in ToSet(j.event["toReceive"]) : j.prio[w] >= j.prio[x]

\* If nobody holds the mutex and tasks wait for it, one has been woken.
Heirs(j, at, c, h) ==
    h = NULL /\ ToSet(j.event["toReceive"]) # {} => \E w \in Task : Heir(j, at, c, w)

\* A task that is not about to yield is the right one to run, or those that wait
\* are not above it: it may have given the mutex and have got back its priority.
Leads(j, at, c) ==
    ~Leaving(at, c, j.current) => \/ Chosen(j)
                                  \/ \A x \in ToSet(j.event["toReceive"]) : j.prio[j.current] >= j.prio[x]

\* What the mutex adds to its invariant while no task keeps another one from
\* running.
Lends ==
    /\ ToSet(k.event["toSend"]) = {} /\ Passing(k, pc, call) /\ Sorted(k)
    /\ Lenders(k, holder) /\ Heirs(k, pc, call, holder) /\ Leads(k, pc, call)

\* One that has been woken remains so.
HeirsStay ==
    holder = NULL =>
        \A w \in Task : IsReady(k, w) /\ pc[w] \in {"q_top", "q_yield"} /\ call[w].op = "receive" =>
            IsReady(k', w) /\ pc'[w] \in {"q_top", "q_yield"} /\ call'[w].op = "receive"

\* A step that joins no list, and neither takes the mutex nor gives it.
LEMMA QuietLends ==
  ASSUME MInv, Lends, Onward(k, k'), k'.prio = k.prio, k'.item = k.item, holder' = holder,
         Choice(k, pc, call, k', pc', call'), Passing(k', pc', call'), HeirsStay
  PROVE  Lends'
<1>1. /\ ToSet(k.event["toSend"]) = {} /\ Sorted(k)
      /\ Lenders(k, holder) /\ Heirs(k, pc, call, holder) /\ Leads(k, pc, call)
  BY DEF Lends
<1>2. /\ ToSet(k'.event["toSend"]) \subseteq ToSet(k.event["toSend"])
      /\ ToSet(k'.event["toReceive"]) \subseteq ToSet(k.event["toReceive"])
  BY QueueAssumption DEF Onward
<1>3. Sorted(k')
  BY <1>1, SortedOnward
<1>4. Lenders(k', holder')
  BY <1>1, <1>2 DEF Lenders
<1>5. Heirs(k', pc', call', holder')
  <2> SUFFICES ASSUME holder = NULL, ToSet(k'.event["toReceive"]) # {} PROVE \E w \in Task : Heir(k', pc', call', w)
    BY DEF Heirs
  <2>1. PICK w \in Task : Heir(k, pc, call, w)
    BY <1>1, <1>2 DEF Heirs
  <2>2. Heir(k', pc', call', w)
    BY <1>2, <2>1 DEF Heir, HeirsStay
  <2>3. QED
    BY <2>2
<1>6. Leads(k', pc', call')
  BY <1>1, <1>2 DEF Leads, Choice
<1>7. QED
  BY <1>1, <1>2, <1>3, <1>4, <1>5, <1>6 DEF Lends

\* The steps of the loop move the running task alone, one that waits towards the
\* loop, and one that is meant to take the mutex does not turn away.
LEMMA LoopOthers ==
  ASSUME QInv, NEW t \in Task, LoopStep(t)
  PROVE  /\ k.current = t /\ t # Idle
         /\ \A x \in Task \ {t} : pc'[x] = pc[x] /\ call'[x] = call[x]
         /\ pc[t] \in {"q_yield"} \cup Parting /\ call[t].path = "block" =>
               pc'[t] \in {"q_top", "q_yield"} \cup Parting /\ call'[t] = call[t]
         /\ pc[t] = "q_top" => MustWait(call[t].op)
         /\ pc[t] = "q_yield" => pc'[t] = "q_top" /\ call'[t] = call[t]
<1>1. pc \in [Task -> Places \cup QPlaces] /\ call \in [Task -> CallType]
  BY DEF QInv, Base, Core
<1>2. PICK o \in QPlaces : Runs(t, o)
  BY DEF LoopStep, QPlaces, ReturnAtOnce, DecideToWait, SuspendAll, prvLockQueue, xTaskCheckForTimeOut, TestAgain,
         UnlockTx, UnlockRx, QueueResume, ResumeAll, taskYIELD
<1>3. k.current = t /\ t # Idle /\ pc[t] = o
  BY <1>2, QueueAssumption, Running DEF Runs
<1>4. \A x \in Task \ {t} : pc'[x] = pc[x]
  BY <1>1 DEF LoopStep, ReturnAtOnce, DecideToWait, SuspendAll, prvLockQueue, xTaskCheckForTimeOut, TestAgain,
         UnlockTx, UnlockRx, QueueResume, ResumeAll, taskYIELD, Return, Goto
<1>5. \A x \in Task \ {t} : call'[x] = call[x]
  BY <1>1, Zenon DEF LoopStep, ReturnAtOnce, DecideToWait, SuspendAll, prvLockQueue, xTaskCheckForTimeOut, TestAgain,
         UnlockTx, UnlockRx, QueueResume, ResumeAll, taskYIELD, Return, Goto
<1>6. ASSUME pc[t] \in {"q_yield"} \cup Parting, call[t].path = "block"
      PROVE  pc'[t] \in {"q_top", "q_yield"} \cup Parting /\ call'[t] = call[t]
  <2>1. UnlockTx(t) \/ UnlockRx(t) \/ QueueResume(t) \/ (taskYIELD(t, "q_yield", "q_top") /\ UNCHANGED <<q, call>>)
    BY <1>6 DEF LoopStep, ReturnAtOnce, DecideToWait, SuspendAll, prvLockQueue, xTaskCheckForTimeOut, TestAgain, Runs, Parting
  <2>2. CASE UnlockTx(t)
    <3>1. pc' = [pc EXCEPT ![t] = "q_unlock_rx"] /\ call' = call
      BY <2>2 DEF UnlockTx, Goto
    <3>2. QED
      BY <1>1, <3>1 DEF Parting
  <2>3. CASE UnlockRx(t)
    <3>1. pc' = [pc EXCEPT ![t] = "q_resume"] /\ call' = call
      BY <2>3 DEF UnlockRx, Goto
    <3>2. QED
      BY <1>1, <3>1 DEF Parting
  <2>4. CASE QueueResume(t)
    <3>1. call' = call
      BY <1>6, <2>4 DEF QueueResume
    <3>2. ResumeAll(t, "q_resume", "q_top", "q_yield")
      BY <1>6, <2>4 DEF QueueResume
    <3>3. pc'[t] \in {"q_top", "q_yield"}
      BY <1>1, <3>2 DEF ResumeAll, Goto
    <3>4. QED
      BY <3>1, <3>3
  <2>5. CASE taskYIELD(t, "q_yield", "q_top") /\ UNCHANGED <<q, call>>
    <3>1. pc' = [pc EXCEPT ![t] = "q_top"] /\ call' = call
      BY <2>5 DEF taskYIELD, Goto
    <3>2. QED
      BY <1>1, <3>1
  <2>6. QED
    BY <2>1, <2>2, <2>3, <2>4, <2>5
<1>7. ASSUME pc[t] = "q_top" PROVE MustWait(call[t].op)
  BY <1>7 DEF LoopStep, ReturnAtOnce, DecideToWait, SuspendAll, prvLockQueue, xTaskCheckForTimeOut, TestAgain,
         UnlockTx, UnlockRx, QueueResume, ResumeAll, taskYIELD, Runs
<1>8. ASSUME pc[t] = "q_yield" PROVE pc'[t] = "q_top" /\ call'[t] = call[t]
  <2>1. taskYIELD(t, "q_yield", "q_top") /\ UNCHANGED <<q, call>>
    BY <1>8 DEF LoopStep, ReturnAtOnce, DecideToWait, SuspendAll, prvLockQueue, xTaskCheckForTimeOut, TestAgain,
         UnlockTx, UnlockRx, QueueResume, ResumeAll, Runs
  <2>2. QED
    BY <1>1, <2>1 DEF taskYIELD, Goto
<1>9. QED
  BY <1>3, <1>4, <1>5, <1>6, <1>7, <1>8

\* What the running task has left to wait for, it comes to.
LEMMA StillComes ==
  ASSUME MInv, Lends, NEW t \in Task, k.current = t, Onward(k, k'),
         \A x \in Task \ {t} : pc'[x] = pc[x] /\ call'[x] = call[x],
         Awaits(k, t) => \A l \in EventList : Comes(pc[t], call[t], l) => Comes(pc'[t], call'[t], l)
  PROVE  Passing(k', pc', call')
<1>1. k \in Kernel /\ Passing(k, pc, call)
  BY DEF MInv, QInv, Base, Core, Fit, Lends
<1>2. SUFFICES ASSUME NEW l \in EventList, NEW x \in ToSet(k'.event[l]) PROVE Comes(pc'[x], call'[x], l)
  BY DEF Passing
<1>3. x \in ToSet(k.event[l]) /\ k.event[l] \in Seq(Task)
  BY <1>1, Zenon DEF Onward, Kernel
<1>4. x \in Task /\ Comes(pc[x], call[x], l) /\ Awaits(k, x)
  BY <1>1, <1>3 DEF Passing, ToSet, Awaits
<1>5. CASE x = t
  BY <1>4, <1>5
<1>6. CASE x # t
  BY <1>4, <1>6
<1>7. QED
  BY <1>5, <1>6

\* The loop wakes tasks and makes none wait.
LEMMA LoopLends ==
  ASSUME MInv, Lends, NEW t \in Task, LoopStep(t), holder' = holder
  PROVE  Lends'
<1>1. QInv /\ Held(k, pc, q, holder)
  BY DEF MInv, Mutual
<1>2. Woken(k, k') /\ Choice(k, pc, call, k', pc', call')
  BY <1>1, LoopEffect
<1>3. /\ k.current = t
      /\ \A x \in Task \ {t} : pc'[x] = pc[x] /\ call'[x] = call[x]
      /\ pc[t] \in {"q_yield"} \cup Parting /\ call[t].path = "block" =>
            pc'[t] \in {"q_top", "q_yield"} \cup Parting /\ call'[t] = call[t]
      /\ pc[t] = "q_top" => MustWait(call[t].op)
      /\ pc[t] = "q_yield" => pc'[t] = "q_top" /\ call'[t] = call[t]
  <2> HIDE DEF QInv
  <2>1. QED
    BY <1>1, LoopOthers
<1>4. ASSUME Awaits(k, t), NEW l \in EventList, Comes(pc[t], call[t], l) PROVE Comes(pc'[t], call'[t], l)
  <2>1. Leaving(pc, call, t)
    BY <1>1, <1>3, <1>4, RunningReady
  <2>2. pc[t] = "q_yield" \/ (pc[t] \in Parting /\ call[t].path = "block")
    BY <1>4, <2>1 DEF Comes, Leaving, Parting
  <2>3. CASE pc[t] = "q_yield"
    BY <1>3, <1>4, <2>3 DEF Comes
  <2>4. CASE pc[t] \in Parting /\ call[t].path = "block"
    BY <1>3, <1>4, <2>4 DEF Comes
  <2>5. QED
    BY <2>2, <2>3, <2>4
<1>5. Onward(k, k') /\ k'.prio = k.prio /\ k'.item = k.item /\ \A x : IsReady(k, x) => IsReady(k', x)
  BY <1>2 DEF Woken
<1> HIDE DEF MInv, Lends
<1>6. Passing(k', pc', call')
  BY <1>3, <1>4, <1>5, StillComes
<1>7. HeirsStay
  <2> SUFFICES ASSUME holder = NULL, NEW w \in Task, IsReady(k, w), pc[w] \in {"q_top", "q_yield"}, call[w].op = "receive"
               PROVE  IsReady(k', w) /\ pc'[w] \in {"q_top", "q_yield"} /\ call'[w].op = "receive"
    BY DEF HeirsStay
  <2>1. IsReady(k', w)
    BY <1>5
  <2>2. CASE w # t
    BY <1>3, <2>1, <2>2
  <2>3. CASE w = t /\ pc[t] = "q_yield"
    BY <1>3, <2>1, <2>3
  <2>4. ~(w = t /\ pc[t] = "q_top")
    BY <1>1, <1>3 DEF Held, MustWait, prvIsQueueEmpty
  <2>5. QED
    BY <2>2, <2>3, <2>4
<1>8. QED
  BY <1>2, <1>5, <1>6, <1>7, QuietLends

\* A call is entered.
LEMMA EnterLends ==
  ASSUME MInv, Lends, NEW t \in Task, NEW op \in Ops[t], NEW wait, Enter(t, op, wait), holder' = holder
  PROVE  Lends'
<1>1. Runs(t, "app") /\ pc' = [pc EXCEPT ![t] = "q_top"]
      /\ call' = [call EXCEPT ![t] = [NoCall EXCEPT !.op = op, !.wait = wait]]
  BY DEF Enter, Goto
<1>2. QInv /\ k.current = t /\ pc[t] = "app"
  BY <1>1 DEF MInv, Runs
<1>3. k' = k /\ Choice(k, pc, call, k', pc', call')
  BY <1>2, EnterEffect
<1>4. pc \in [Task -> Places \cup QPlaces] /\ call \in [Task -> CallType]
  BY <1>2 DEF QInv, Base, Core
<1>5. \A x \in Task \ {t} : pc'[x] = pc[x] /\ call'[x] = call[x]
  BY <1>1, <1>4
<1>6. ~Awaits(k, t)
  <2>1. ~Leaving(pc, call, t)
    BY <1>2 DEF Leaving, Parting
  <2>2. QED
    BY <1>2, <2>1, RunningReady
<1>7. Onward(k, k')
  BY <1>3, OnwardSame
<1>8. HeirsStay
  BY <1>2, <1>3, <1>5 DEF HeirsStay
<1> HIDE DEF MInv, Lends
<1>9. Passing(k', pc', call')
  BY <1>2, <1>5, <1>6, <1>7, StillComes
<1>10. k'.prio = k.prio /\ k'.item = k.item
  BY <1>3
<1>11. QED
  BY <1>3, <1>7, <1>8, <1>9, <1>10, QuietLends

\* A step of the scheduler, while no task keeps another one from running.
LEMMA OutsideLends ==
  ASSUME MildCalls, MInv, Lends, Next, UNCHANGED <<q, call, holder>>
  PROVE  Lends'
<1>1. NoCreation /\ FixedPriorities
  BY DEF MildCalls, NoCreation, FixedPriorities
<1>2. /\ Outside(call, k, pc, due, k', pc', due') /\ call' = call /\ holder' = holder /\ QInv /\ k \in Kernel
      /\ Passing(k, pc, call)
  BY OutsideNext DEF MInv, QInv, Base, Core, Fit, Lends
<1>3. Onward(k, k') /\ Choice(k, pc, call, k', pc', call') /\ k'.prio = k.prio /\ k'.item = k.item
  BY <1>1, <1>2, OutsideEffect
<1>4. /\ \A x \in Task : pc'[x] = pc[x] \/ pc[x] \in Places
      /\ \A x : IsReady(k, x) => IsReady(k', x) \/ pc[x] \in Places
  BY <1>1, <1>2 DEF Outside
<1>5. Places \cap ({"q_top", "q_yield", "q_place"} \cup Parting) = {}
  BY DEF Places, Parting
<1>6. HeirsStay
  BY <1>2, <1>4, <1>5 DEF HeirsStay
<1>7. Passing(k', pc', call')
  <2> SUFFICES ASSUME NEW l \in EventList, NEW x \in ToSet(k'.event[l]) PROVE Comes(pc'[x], call'[x], l)
    BY DEF Passing
  <2>1. x \in ToSet(k.event[l])
    BY <1>3 DEF Onward
  <2>2. k.event[l] \in Seq(Task)
    BY <1>2 DEF Kernel
  <2>3. x \in Task /\ Comes(pc[x], call[x], l)
    BY <1>2, <2>1, <2>2 DEF Passing, ToSet
  <2>4. pc'[x] = pc[x]
    BY <1>4, <1>5, <2>3 DEF Comes
  <2>5. QED
    BY <1>2, <2>3, <2>4
<1> HIDE DEF MInv, Lends
<1>8. QED
  BY <1>2, <1>3, <1>6, <1>7, QuietLends

\* A sorted kernel remains sorted if the priorities of tasks change that are in no
\* event list.
LEMMA Reordered ==
  ASSUME NEW j \in Kernel, Sorted(j), NEW r \in Kernel, Onward(j, r), r.item = r.prio, NEW t \in Task,
         \A l \in EventList : t \notin ToSet(r.event[l]),
         \A x \in Task \ {t} : r.prio[x] = j.prio[x]
  PROVE  Sorted(r)
<1>1. SUFFICES ASSUME NEW l \in EventList PROVE Ordered(r.event[l], Below(r))
  BY DEF Sorted
<1>2. Ordered(r.event[l], Below(j)) /\ r.event[l] \in Seq(Task)
  BY Zenon DEF Sorted, Onward, Kernel
<1>3. SUFFICES ASSUME NEW i \in DOMAIN r.event[l], NEW m \in DOMAIN r.event[l], i < m
               PROVE  <<r.event[l][i], r.event[l][m]>> \in Below(r)
  BY DEF Ordered
<1> DEFINE x == r.event[l][i]
           y == r.event[l][m]
<1>4. x \in Task /\ y \in Task /\ x # t /\ y # t
  <2>1. x \in ToSet(r.event[l]) /\ y \in ToSet(r.event[l])
    BY <1>2 DEF ToSet
  <2>2. x \in Task /\ y \in Task
    BY <1>2
  <2> HIDE DEF x, y
  <2>3. QED
    BY <2>1, <2>2
<1>5. <<x, y>> \in Below(j)
  BY <1>2, <1>3 DEF Ordered
<1> HIDE DEF x, y
<1>6. j.prio[x] >= j.prio[y] /\ r.prio[x] = j.prio[x] /\ r.prio[y] = j.prio[y]
  BY <1>4, <1>5 DEF Below
<1>7. <<x, y>> \in Below(r)
  BY <1>4, <1>6 DEF Below
<1>8. QED
  BY <1>7 DEF x, y

\* The running task does not come after a task that is ready.
LEMMA ChosenLeads ==
  ASSUME NEW j, Fit(j, {}), Apart(j), Chosen(j), NEW x \in Task, IsReady(j, x)
  PROVE  j.prio[j.current] >= j.prio[x]
<1>1. x \in ToSet(j.ready[j.prio[x]])
  BY ReadyApart
<1>2. j.prio[x] \in Priority /\ j.prio[j.current] \in Priority /\ j.ready[j.prio[x]] # <<>>
  <2>1. j.prio \in [Task -> Priority] /\ j.current \in Task
    BY DEF Fit, Kernel
  <2>2. j.ready[j.prio[x]] # <<>>
    BY <1>1 DEF ToSet
  <2>3. QED
    BY <2>1, <2>2
<1>3. ~(j.prio[x] > j.prio[j.current])
  BY <1>2 DEF Chosen
<1>4. QED
  BY <1>2, <1>3, PriorityFacts

\* The mutex is taken by a task that is not below those that wait for it.
LEMMA TakeLends ==
  ASSUME MutexAssumption, MInv, Lends, NEW t \in Task, MutexTransfer(t), call[t].op = "receive"
  PROVE  Lends'
<1>1. pc' = [pc EXCEPT ![t] = "app"] /\ call' = [call EXCEPT ![t] = NoCall]
  BY DEF MutexTransfer, Return, Goto
<1>2. PICK j : Handed(t) /\ Giving(j, t) /\ Served(j, k', Waking(call[t].op))
  BY MutexTransferEffect
<1>3. /\ ToSet(k.event["toSend"]) = {} /\ Sorted(k) /\ Lenders(k, holder) /\ Heirs(k, pc, call, holder)
      /\ Leads(k, pc, call) /\ QInv /\ t # NULL
  BY DEF Lends, MInv, MutexAssumption
<1>4. /\ k.current = t /\ pc[t] = "q_top" /\ holder = NULL /\ holder' = t /\ ~Awaits(k, t)
  BY <1>2, <1>3 DEF Handed, Runs
<1>5. k' = k
  BY <1>2, <1>3 DEF Served, Giving, Waking
<1>6. /\ pc \in [Task -> Places \cup QPlaces] /\ call \in [Task -> CallType] /\ Fit(k, {}) /\ Apart(k)
      /\ k.prio \in [Task -> Priority] /\ k.event["toReceive"] \in Seq(Task) /\ Priority \subseteq Int
  <2>1. Priority \subseteq Int
    BY PriorityFacts
  <2>2. QED
    BY <1>3, <2>1, QueueAssumption DEF QInv, Base, Core, Fit, Kernel
<1>7. ASSUME NEW x \in ToSet(k.event["toReceive"]) PROVE t # x /\ k.prio[t] >= k.prio[x]
  <2>1. x \in Task /\ t # x
    BY <1>4, <1>6, <1>7, QueueAssumption DEF Awaits, ToSet
  <2>2. ~Leaving(pc, call, t)
    BY <1>4 DEF Leaving, Parting
  <2>3. CASE Chosen(k)
    <3>1. PICK w \in Task : Heir(k, pc, call, w)
      BY <1>3, <1>4, <1>7 DEF Heirs
    <3>2. k.prio[t] >= k.prio[w]
      BY <1>4, <1>6, <2>3, <3>1, ChosenLeads DEF Heir
    <3>3. k.prio[w] >= k.prio[x]
      BY <1>7, <3>1 DEF Heir
    <3>4. k.prio[t] \in Int /\ k.prio[w] \in Int /\ k.prio[x] \in Int
      BY <1>6, <2>1, Zenon
    <3>5. QED
      BY <2>1, <3>2, <3>3, <3>4
  <2>4. CASE ~Chosen(k)
    BY <1>3, <1>4, <1>7, <2>1, <2>2, <2>4 DEF Leads
  <2>5. QED
    BY <2>3, <2>4
<1>8. Lenders(k', holder') /\ Heirs(k', pc', call', holder') /\ Leads(k', pc', call')
  BY <1>3, <1>4, <1>5, <1>7 DEF Lenders, Heirs, Leads
<1>9. Passing(k', pc', call')
  <2>1. \A x \in Task \ {t} : pc'[x] = pc[x] /\ call'[x] = call[x]
    BY <1>1, <1>6
  <2>2. Onward(k, k')
    BY <1>5, OnwardSame
  <2> HIDE DEF MInv, Lends
  <2>3. QED
    BY <1>4, <2>1, <2>2, StillComes
<1>10. QED
  BY <1>3, <1>5, <1>8, <1>9 DEF Lends

\* The mutex is given to the first of those that wait for it: it is woken, and runs
\* at once if it is not below the one that gave it.
LEMMA GiveLends ==
  ASSUME MutexAssumption, MInv, Lends, NEW t \in Task, MutexTransfer(t), call[t].op = "send"
  PROVE  Lends'
<1> DEFINE l == "toReceive"
<1>1. pc' = [pc EXCEPT ![t] = "app"] /\ call' = [call EXCEPT ![t] = NoCall]
  BY DEF MutexTransfer, Return, Goto
<1>2. PICK j : Handed(t) /\ Giving(j, t) /\ Served(j, k', Waking(call[t].op))
  BY MutexTransferEffect
<1>3. /\ ToSet(k.event["toSend"]) = {} /\ Sorted(k) /\ Passing(k, pc, call)
      /\ Leads(k, pc, call) /\ QInv /\ Users(pc, call, holder) /\ Waking(call[t].op) = l
      /\ "toSend" \in EventList /\ l \in EventList /\ "q_top" \in QPlaces
  BY QueueAssumption DEF Lends, MInv, Mutual, Waking, QPlaces
<1>4. /\ Runs(t, "q_top") /\ k.current = t /\ pc[t] = "q_top" /\ holder' = NULL /\ ~Awaits(k, t)
  BY <1>2 DEF Handed, Runs
<1>5. /\ pc \in [Task -> Places \cup QPlaces] /\ call \in [Task -> CallType] /\ Fit(k, {}) /\ Apart(k) /\ k \in Kernel
      /\ k.susp = 0 /\ \A x \in Task \ {t} : pc[x] \notin QLocking
  BY <1>3, <1>4, QueueAssumption, Running DEF QInv, Base, Core, Fit, Locking, QLocking
<1>6. /\ Fit(j, {}) /\ Apart(j) /\ Onward(k, j) /\ Still(k, j) /\ j.current = t
      /\ \A x \in EventList : ToSet(j.event[x]) = ToSet(k.event[x])
      /\ \A x \in Task \ {t} : j.prio[x] = k.prio[x] /\ j.item[x] = k.item[x]
      /\ j.prio[t] = j.item[t] /\ j \in Kernel /\ j.susp = 0
  BY <1>2, <1>4, <1>5 DEF Giving, Fit, Still
<1>7. /\ Onward(j, k') /\ Fit(k', {}) /\ k'.prio = j.prio /\ k'.item = j.item /\ k' \in Kernel /\ Picks(j, k')
      /\ Onward(k, k')
  BY <1>2, <1>6, OnwardOnward DEF Served, Woken, Fit
<1>8. \A x \in EventList : ToSet(k'.event[x]) \subseteq ToSet(k.event[x]) /\ t \notin ToSet(k'.event[x])
  BY <1>4, <1>7 DEF Onward, Awaits
<1>9. Sorted(k')
  <2>1. j.item = j.prio
    <3>1. j.item \in [Task -> Priority] /\ j.prio \in [Task -> Priority] /\ k.item = k.prio
      BY <1>3, <1>6, Zenon DEF Kernel, Sorted
    <3>2. \A x \in Task : j.item[x] = j.prio[x]
      BY <1>6, <3>1
    <3>3. QED
      BY <3>1, <3>2
  <2>2. QED
    BY <1>3, <1>5, <1>6, <1>7, <1>8, <2>1, Reordered
<1>10. Passing(k', pc', call')
  <2>1. \A x \in Task \ {t} : pc'[x] = pc[x] /\ call'[x] = call[x]
    BY <1>1, <1>5
  <2> HIDE DEF MInv, Lends
  <2>2. QED
    BY <1>4, <1>7, <2>1, StillComes
<1> DEFINE h == Head(j.event[l])
<1>11. CASE ToSet(j.event[l]) = {}
  <2>1. ToSet(k'.event[l]) = {}
    BY <1>3, <1>6, <1>8, <1>11
  <2>2. Heirs(k', pc', call', holder') /\ Leads(k', pc', call') /\ Lenders(k', holder')
    BY <1>4, <2>1 DEF Heirs, Leads, Lenders
  <2>3. QED
    BY <1>3, <1>8, <1>9, <1>10, <2>2 DEF Lends
<1>12. CASE ToSet(j.event[l]) # {}
  <2>1. /\ h \in Task /\ h \in ToSet(j.event[l]) /\ \A x \in ToSet(j.event[l]) \ {h} : <<h, x>> \in Below(k)
    <3>1. j.event[l] \in Seq(Task) /\ Ordered(j.event[l], Below(k))
      BY <1>3, <1>6, Zenon DEF Kernel, Onward, Sorted
    <3>2. QED
      BY <1>12, <3>1, HeadFacts
  <2>2. /\ ToSet(k'.event[l]) = ToSet(j.event[l]) \ {h}
        /\ IsReady(k', h) /\ (Chosen(k') \/ j.prio[h] < j.prio[j.current])
    BY <1>2, <1>3, <1>6, <1>12 DEF Served
  <2> HIDE DEF h
  <2>3. h # t /\ h \in ToSet(k.event[l])
    BY <1>3, <1>4, <1>6, <2>1 DEF Awaits
  <2>4. \A x \in ToSet(k'.event[l]) : x \in Task /\ x # t /\ k'.prio[h] >= k'.prio[x]
    <3> SUFFICES ASSUME NEW x \in ToSet(k'.event[l]) PROVE x \in Task /\ x # t /\ k'.prio[h] >= k'.prio[x]
      OBVIOUS
    <3>1. x \in Task /\ x # t
      BY <1>3, <1>7, <1>8, <2>1, <2>2, Zenon DEF Below
    <3>2. k.prio[h] >= k.prio[x]
      BY <2>1, <2>2, Zenon DEF Below
    <3>3. QED
      BY <1>6, <1>7, <2>1, <2>3, <3>1, <3>2
  <2>5. pc'[h] = pc[h] /\ call'[h] = call[h]
    BY <1>1, <1>5, <2>1, <2>3
  <2>6. pc[h] \in {"q_top", "q_yield"} /\ call[h].op = "receive"
    <3>1. Comes(pc[h], call[h], l) /\ pc[h] \notin QLocking /\ GiveTake(pc[h], call[h], h, holder)
      BY <1>3, <1>5, <2>1, <2>3 DEF Passing, Users
    <3>2. pc[h] \in {"q_top", "q_yield"}
      BY <3>1 DEF Comes, Parting, QLocking
    <3>3. pc[h] \in QPlaces
      BY <3>2 DEF QPlaces
    <3>4. QED
      BY <3>1, <3>2, <3>3 DEF GiveTake, Comes, Waiting
  <2>7. Heir(k', pc', call', h)
    BY <2>2, <2>4, <2>5, <2>6 DEF Heir
  <2>8. Heirs(k', pc', call', holder')
    BY <2>1, <2>7 DEF Heirs
  <2>9. Lenders(k', holder')
    BY <1>4 DEF Lenders
  <2>10. Leads(k', pc', call')
    <3> SUFFICES ASSUME ~Chosen(k'), NEW x \in ToSet(k'.event[l]) PROVE k'.prio[k'.current] >= k'.prio[x]
      BY DEF Leads
    <3>1. k'.current = t /\ k'.prio[h] < k'.prio[t]
      BY <1>6, <1>7, <2>2 DEF Picks
    <3>2. k'.prio \in [Task -> Priority] /\ Priority \subseteq Int
      <4>1. Priority \subseteq Int
        BY PriorityFacts
      <4>2. QED
        BY <1>7, <4>1 DEF Kernel
    <3>3. k'.prio[h] \in Int /\ k'.prio[t] \in Int /\ k'.prio[x] \in Int /\ k'.prio[h] >= k'.prio[x]
      BY <2>1, <2>4, <3>2, Zenon
    <3>4. QED
      BY <3>1, <3>3
  <2>11. QED
    BY <1>3, <1>8, <1>9, <1>10, <2>8, <2>9, <2>10 DEF Lends
<1>13. QED
  BY <1>11, <1>12

\* One more waits for the mutex, and has lent its priority to the holder.
LEMMA PlaceLends ==
  ASSUME MutexAssumption, MInv, Lends, NEW t \in Task, MutexPlace(t)
  PROVE  Lends'
<1> DEFINE l == "toReceive"
<1>1. pc' = [pc EXCEPT ![t] = "q_unlock"] /\ call' = call /\ holder' = holder
  BY DEF MutexPlace, Goto
<1>2. /\ holder \in Task \ {Idle} /\ holder # t /\ call[t].op = "receive" /\ call[t].path = "block"
      /\ ~Awaits(k, t) /\ k.current = t
      /\ \E j : Lending(j, t, holder) /\ Listed(j, k', t, Waiting(call[t].op), call[t].wait)
  BY MutexPlaceEffect
<1>3. /\ ToSet(k.event["toSend"]) = {} /\ Sorted(k) /\ Passing(k, pc, call) /\ Lenders(k, holder) /\ QInv
      /\ Waiting(call[t].op) = l /\ "toSend" \in EventList /\ l \in EventList /\ "toSend" # l /\ holder # NULL
  BY <1>2, QueueAssumption DEF Lends, MInv, Waiting, MutexAssumption
<1>4. PICK j : Lending(j, t, holder) /\ Listed(j, k', t, l, call[t].wait)
  BY <1>2, <1>3
<1>5. /\ pc \in [Task -> Places \cup QPlaces] /\ call \in [Task -> CallType] /\ k \in Kernel
  BY <1>3 DEF QInv, Base, Core, Fit
<1>6. /\ Fit(j, {}) /\ j \in Kernel /\ Onward(k, j) /\ j.current = t
      /\ \A x \in EventList : ToSet(j.event[x]) = ToSet(k.event[x])
      /\ \A x \in Task \ {holder} : j.prio[x] = k.prio[x] /\ j.item[x] = k.item[x]
      /\ j.prio[holder] = j.item[holder]
      /\ j.prio[holder] >= k.prio[t] /\ j.prio[holder] >= k.prio[holder]
  <2>1. k.item[holder] = k.prio[holder]
    BY <1>3 DEF Sorted
  <2>2. QED
    BY <1>2, <1>4, <2>1 DEF Lending, Fit
<1>7. /\ k'.prio = j.prio /\ k'.item = j.item /\ k'.current = t
      /\ ToSet(k'.event[l]) = ToSet(k.event[l]) \cup {t} /\ ToSet(k'.event["toSend"]) = {}
      /\ k'.event["toSend"] = j.event["toSend"]
  BY <1>3, <1>4, <1>6 DEF Listed
<1>8. \A x \in ToSet(k.event[l]) : x # holder
  BY <1>3 DEF Lenders
<1>9. Sorted(k')
  <2>1. j.item = j.prio
    <3>1. j.item \in [Task -> Priority] /\ j.prio \in [Task -> Priority] /\ k.item = k.prio
      BY <1>3, <1>6, Zenon DEF Kernel, Sorted
    <3>2. \A x \in Task : j.item[x] = j.prio[x]
      BY <1>6, <3>1
    <3>3. QED
      BY <3>1, <3>2
  <2>2. ASSUME NEW x \in EventList PROVE holder \notin ToSet(j.event[x])
    <3>1. x \in {"toSend", l}
      BY QueueAssumption
    <3>2. QED
      BY <1>3, <1>6, <1>8, <3>1
  <2>3. Sorted(j)
    BY <1>2, <1>3, <1>5, <1>6, <2>1, <2>2, Reordered
  <2>4. QED
    BY <1>3, <1>4, <1>6, <2>3, SortedListed
<1>10. Lenders(k', holder')
  <2> SUFFICES ASSUME NEW x \in ToSet(k'.event[l]) PROVE holder # x /\ k'.prio[holder] >= k'.prio[x]
    BY <1>1 DEF Lenders
  <2>1. CASE x = t
    BY <1>2, <1>6, <1>7, <2>1
  <2>2. CASE x # t
    <3>1. x \in ToSet(k.event[l]) /\ k.event[l] \in Seq(Task)
      BY <1>3, <1>5, <1>7, <2>2 DEF Kernel
    <3>2. x \in Task /\ x # holder /\ k.prio[holder] >= k.prio[x]
      BY <1>3, <1>8, <3>1 DEF ToSet, Lenders
    <3>3. k.prio[holder] \in Int /\ k.prio[x] \in Int /\ j.prio[holder] \in Int
      <4>1. Priority \subseteq Int
        BY PriorityFacts
      <4>2. k.prio \in [Task -> Priority] /\ j.prio \in [Task -> Priority]
        BY <1>5, <1>6, Zenon DEF Kernel
      <4>3. QED
        BY <1>2, <3>2, <4>1, <4>2, Zenon
    <3>4. QED
      BY <1>6, <1>7, <3>2, <3>3
  <2>3. QED
    BY <2>1, <2>2
<1>11. pc'[t] = "q_unlock" /\ \A x \in Task \ {t} : pc'[x] = pc[x]
  BY <1>1, <1>5
<1>12. Leads(k', pc', call')
  <2>1. Leaving(pc', call', t)
    BY <1>1, <1>2, <1>11 DEF Leaving, Parting
  <2>2. QED
    BY <1>7, <2>1 DEF Leads
<1>13. Heirs(k', pc', call', holder')
  BY <1>1, <1>3 DEF Heirs
<1>14. Passing(k', pc', call')
  <2> SUFFICES ASSUME NEW e \in EventList, NEW x \in ToSet(k'.event[e]) PROVE Comes(pc'[x], call'[x], e)
    BY DEF Passing
  <2>1. e = l
    BY <1>7, QueueAssumption
  <2>2. CASE x = t
    BY <1>1, <1>2, <1>3, <1>11, <2>1, <2>2 DEF Comes, Parting
  <2>3. CASE x # t
    <3>1. x \in ToSet(k.event[l]) /\ k.event[l] \in Seq(Task)
      BY <1>3, <1>5, <1>7, <2>1, <2>3 DEF Kernel
    <3>2. x \in Task /\ Comes(pc[x], call[x], l)
      BY <1>3, <3>1 DEF ToSet, Passing
    <3>3. QED
      BY <1>1, <1>11, <2>1, <2>3, <3>2
  <2>4. QED
    BY <2>2, <2>3
<1>15. QED
  BY <1>7, <1>9, <1>10, <1>12, <1>13, <1>14 DEF Lends

\* Nobody waits at first.
LEMMA LendsStarts == MInit => Lends
<1> SUFFICES ASSUME MInit PROVE Lends
  OBVIOUS
<1>1. k.item = k.prio /\ k.event = [l \in EventList |-> <<>>]
  BY Zenon DEF MInit, Init
<1>2. \A l \in EventList : k.event[l] = <<>> /\ ToSet(k.event[l]) = {}
  <2>1. ToSet(<<>>) = {}
    BY DEF ToSet
  <2>2. QED
    BY <1>1, <2>1
<1>3. \A R : Ordered(<<>>, R)
  BY DEF Ordered
<1>4. Sorted(k)
  BY <1>1, <1>2, <1>3 DEF Sorted
<1>5. ToSet(k.event["toSend"]) = {} /\ ToSet(k.event["toReceive"]) = {}
  BY <1>2, QueueAssumption
<1>6. Passing(k, pc, call)
  BY <1>2, Zenon DEF Passing
<1>7. QED
  BY <1>4, <1>5, <1>6 DEF Lends, Lenders, Heirs, Leads

\* Every step of a mutex keeps what is lent.
LEMMA LendsKeeps == ASSUME MutexAssumption, MildCalls PROVE MInv /\ Lends /\ [MNext]_mvars => Lends'
<1> SUFFICES ASSUME MInv, Lends, [MNext]_mvars PROVE Lends'
  OBVIOUS
<1>1. CASE UNCHANGED mvars
  BY <1>1 DEF mvars, qvars, Lends
<1> HIDE DEF MInv, Lends
<1>2. ASSUME NEW t \in Task, xSemaphoreTake(t) PROVE Lends'
  <2>1. PICK wait \in Waits[t] : Enter(t, "receive", wait) /\ holder' = holder
    BY <1>2 DEF xSemaphoreTake
  <2>2. "receive" \in Ops[t]
    BY <2>1 DEF Enter
  <2>3. QED
    BY <2>1, <2>2, EnterLends
<1>3. ASSUME NEW t \in Task, xSemaphoreGive(t) PROVE Lends'
  <2>1. Enter(t, "send", 0) /\ holder' = holder
    BY <1>3 DEF xSemaphoreGive
  <2>2. "send" \in Ops[t]
    BY <2>1 DEF Enter
  <2>3. QED
    BY <2>1, <2>2, EnterLends
<1>4. ASSUME NEW t \in Task, LoopStep(t), holder' = holder PROVE Lends'
  BY <1>4, LoopLends
<1>5. CASE Next /\ UNCHANGED <<q, call, holder>>
  BY <1>5, OutsideLends
<1>6. ASSUME NEW t \in Task, MutexTransfer(t) PROVE Lends'
  <2>1. call[t].op = "receive" \/ call[t].op = "send"
    <3>1. Handed(t)
      BY <1>6, MutexTransferEffect
    <3>2. QED
      BY <3>1 DEF Handed
  <2>2. QED
    BY <1>6, <2>1, TakeLends, GiveLends
<1>7. ASSUME NEW t \in Task, MutexPlace(t) PROVE Lends'
  BY <1>7, PlaceLends
<1>8. QED
  BY <1>1, <1>2, <1>3, <1>4, <1>5, <1>6, <1>7 DEF MNext, MutexCall

\* Then the holder has inherited, and no task of a lower priority has the CPU.
LEMMA LendsServes == MInv /\ Lends => HolderInherits /\ NoInversion
<1> SUFFICES ASSUME MInv, Lends PROVE HolderInherits /\ NoInversion
  OBVIOUS
<1>1. /\ Lenders(k, holder) /\ Leads(k, pc, call) /\ Held(k, pc, q, holder) /\ Core(k, pc, call)
      /\ Fit(k, {}) /\ Apart(k) /\ k \in Kernel
  BY DEF Lends, MInv, Mutual, QInv, Base, Core, Fit
<1>2. HolderInherits
  BY <1>1 DEF HolderInherits, Lenders, WaitsFor, Held
<1>3. NoInversion
  <2> SUFFICES ASSUME NEW t \in Task, t \in ToSet(k.event["toReceive"]), holder # NULL, Ready(holder),
                      k.susp = 0, pc[k.current] \notin {"yield", "q_yield"}
               PROVE  k.prio[k.current] >= k.prio[t]
    BY DEF NoInversion, WaitsFor
  <2>1. pc[k.current] \notin Locking \cup QLocking
    BY <1>1 DEF Core
  <2>2. ~Leaving(pc, call, k.current)
    BY <2>1 DEF Leaving, Locking, QLocking, Parting
  <2>3. CASE Chosen(k)
    <3>1. holder \in Task /\ IsReady(k, holder)
      BY <1>1 DEF Held, Ready, IsReady
    <3>2. k.prio[k.current] >= k.prio[holder] /\ k.prio[holder] >= k.prio[t]
      BY <1>1, <2>3, <3>1, ChosenLeads DEF Lenders
    <3>3. k.prio[k.current] \in Int /\ k.prio[holder] \in Int /\ k.prio[t] \in Int
      <4>1. Priority \subseteq Int
        BY PriorityFacts
      <4>2. k.prio \in [Task -> Priority] /\ k.current \in Task
        BY <1>1 DEF Kernel
      <4>3. QED
        BY <3>1, <4>1, <4>2, Zenon
    <3>4. QED
      BY <3>2, <3>3
  <2>4. CASE ~Chosen(k)
    BY <1>1, <2>2, <2>4 DEF Leads
  <2>5. QED
    BY <2>3, <2>4
<1>4. QED
  BY <1>2, <1>3

\* A task that waits for the mutex has lent its priority to the one that holds it,
\* also to one that is delayed, and to one that has taken the mutex from among
\* those that waited; nobody goes to wait for a mutex that nobody holds.
THEOREM WaitersLend == ASSUME MutexAssumption, MildCalls PROVE MSpec => []HolderInherits
<1>1. MInit => Lends
  BY LendsStarts
<1>2. MInv /\ Lends /\ [MNext]_mvars => Lends'
  BY LendsKeeps
<1>3. MInv /\ Lends => HolderInherits
  BY LendsServes
<1>4. QED
  BY <1>1, <1>2, <1>3, MutexInvariance, PTL DEF MSpec

\* There is no priority inversion: while the holder can run, the CPU goes to no
\* task of a lower priority than one that waits for the mutex.
THEOREM NoPriorityInversion == ASSUME MutexAssumption, MildCalls PROVE MSpec => []NoInversion
<1>1. MInit => Lends
  BY LendsStarts
<1>2. MInv /\ Lends /\ [MNext]_mvars => Lends'
  BY LendsKeeps
<1>3. MInv /\ Lends => NoInversion
  BY LendsServes
<1>4. QED
  BY <1>1, <1>2, <1>3, MutexInvariance, PTL DEF MSpec

-----------------------------------------------------------------------------
(* The storage area: the pointers of the ring stay in it, the write pointer *)
(* follows the items, and the ring implements the queue of Fifo.            *)

\* The two invariants are inductive together.
RingInv == RingTypeOK /\ WriteFollowsItems

\* Stepping a pointer stays in the ring and undoes stepping it the other way.
LEMMA PointerSteps ==
    \A p \in Slot : Forward(p) \in Slot /\ Backward(p) \in Slot /\ Forward(Backward(p)) = p
BY RingAssumption, SMT DEF Slot, Forward, Backward, pcHead, pcTail

\* Every place that is counted from a place of the ring is in the ring.
LEMMA OnInPlace == \A p \in Slot, n \in 0..uxLength : On(p, n) \in Slot
BY RingAssumption, SMT DEF Slot, On, pcTail

\* The place n + 1 places on is one step on from the n-th, the n-th one from
\* the next place, and the first one is one step on.
LEMMA OnSteps ==
    \A p \in Slot :
        /\ On(p, 0) = p /\ On(p, 1) = Forward(p)
        /\ \A n \in 0..uxLength-1 : /\ On(p, n + 1) = Forward(On(p, n))
                                    /\ On(Forward(p), n) = On(p, n + 1)
                                    /\ On(Backward(p), n + 1) = On(p, n)
BY RingAssumption, SMT DEF Slot, Forward, Backward, On, pcHead, pcTail

\* No two items share a place.
LEMMA OnInjective == \A p \in Slot : \A m, n \in 1..uxLength : On(p, m) = On(p, n) => m = n
BY RingAssumption, SMT DEF Slot, On, pcTail

LEMMA RingInvInit == RingInit => RingInv
BY RingAssumption, SMT DEF RingInit, RingInv, RingTypeOK, WriteFollowsItems, Slot, Forward, On, pcHead, pcTail

\* Each operation keeps the invariant.
LEMMA RingInvStep == RingInv /\ [RingNext]_ringVars => RingInv'
<1> SUFFICES ASSUME RingInv, [RingNext]_ringVars PROVE RingInv'
    OBVIOUS
<1> USE DEF RingInv, RingTypeOK, WriteFollowsItems
<1>1. ASSUME NEW x \in Item, SendToBack(x) PROVE RingInv'
    <2>1. /\ uxMessagesWaiting \in 0..uxLength-1 /\ uxMessagesWaiting + 1 \in 0..uxLength
          BY <1>1, RingAssumption DEF SendToBack, HasRoom
    <2>2. place' \in [Slot -> Item]
          BY <1>1 DEF SendToBack
    <2>3. pcWriteTo' \in Slot /\ pcReadFrom' \in Slot
          BY <1>1, PointerSteps DEF SendToBack
    <2>4. On(pcReadFrom, uxMessagesWaiting + 1) = Forward(On(pcReadFrom, uxMessagesWaiting))
          BY <2>1, OnSteps DEF RingTypeOK
    <2>5. WriteFollowsItems'
          BY <1>1, <2>4 DEF SendToBack
    <2> QED BY <1>1, <2>1, <2>2, <2>3, <2>5 DEF SendToBack
<1>2. ASSUME NEW x \in Item, SendToFront(x) PROVE RingInv'
    <2>1. /\ uxMessagesWaiting \in 0..uxLength-1 /\ uxMessagesWaiting + 1 \in 0..uxLength
          BY <1>2, RingAssumption DEF SendToFront, HasRoom
    <2>2. place' \in [Slot -> Item]
          BY <1>2 DEF SendToFront
    <2>3. pcWriteTo' \in Slot /\ pcReadFrom' \in Slot
          BY <1>2, PointerSteps DEF SendToFront
    <2>4. WriteFollowsItems'
          BY <1>2, <2>1, OnSteps DEF SendToFront
    <2> QED BY <1>2, <2>1, <2>2, <2>3, <2>4 DEF SendToFront
<1>3. CASE Receive
    <2>1. /\ uxMessagesWaiting - 1 \in 0..uxLength-1 /\ uxMessagesWaiting - 1 \in 0..uxLength
          /\ uxMessagesWaiting - 1 + 1 = uxMessagesWaiting
          BY <1>3, RingAssumption DEF Receive
    <2>2. Forward(pcReadFrom) \in Slot
          BY PointerSteps
    <2>3. buffer' \in Item /\ pcReadFrom' \in Slot
          BY <1>3, <2>2 DEF Receive
    <2>4. WriteFollowsItems'
          BY <1>3, <2>1, OnSteps DEF Receive
    <2> QED BY <1>3, <2>1, <2>3, <2>4 DEF Receive
<1>4. CASE Peek
    <2>1. buffer' \in Item
          BY <1>4, PointerSteps DEF Peek
    <2> QED BY <1>4, <2>1 DEF Peek
<1>5. CASE UNCHANGED ringVars
    BY <1>5 DEF ringVars
<1> QED BY <1>1, <1>2, <1>3, <1>4, <1>5 DEF RingNext

\* The pointers stay in the storage area and the write pointer is always one
\* place behind the last item, whatever the length of the queue.
THEOREM RingIsSound == RingSpec => [](RingTypeOK /\ WriteFollowsItems)
<1>1. RingInit => RingInv
    BY RingInvInit
<1>2. RingInv /\ [RingNext]_ringVars => RingInv'
    BY RingInvStep
<1>3. RingInv => RingTypeOK /\ WriteFollowsItems
    BY DEF RingInv
<1> QED BY <1>1, <1>2, <1>3, PTL DEF RingSpec

\* xQueueGenericSend, xQueueGenericReceive and their FromISR forms never point
\* outside the storage area or count more items than it holds.
THEOREM RingTypeCorrect == RingSpec => []RingTypeOK
BY RingIsSound, PTL

\* The items of the ring form a sequence, before and after a step.
LEMMA ItemsIsSeq ==
    \A r \in Slot, n \in 0..uxLength, d \in [Slot -> Item] :
        LET s == [i \in 1..n |-> d[On(r, i)]]
        IN s \in Seq(Item) /\ Len(s) = n /\ (\A i \in 1..n : s[i] = d[On(r, i)])
<1> SUFFICES ASSUME NEW r \in Slot, NEW n \in 0..uxLength, NEW d \in [Slot -> Item]
             PROVE  LET s == [i \in 1..n |-> d[On(r, i)]]
                    IN s \in Seq(Item) /\ Len(s) = n /\ (\A i \in 1..n : s[i] = d[On(r, i)])
    OBVIOUS
<1> DEFINE s == [i \in 1..n |-> d[On(r, i)]]
<1>1. n \in Nat
    BY RingAssumption
<1>2. \A i \in 1..n : On(r, i) \in Slot
    BY OnInPlace, RingAssumption
<1>3. s \in [1..n -> Item]
    BY <1>2
<1> QED BY <1>1, <1>3

\* An item that is sent to the back is the last of the sequence.
LEMMA SendToBackRefines ==
    ASSUME RingInv, RingInv', NEW x \in Item, SendToBack(x)
    PROVE  F!SendToBack(x)
<1> USE DEF RingInv
<1>1. /\ Items \in Seq(Item) /\ Len(Items) = uxMessagesWaiting
      /\ \A i \in 1..uxMessagesWaiting : Items[i] = place[On(pcReadFrom, i)]
    BY ItemsIsSeq DEF Items, RingTypeOK
<1>2. /\ Items' \in Seq(Item) /\ Len(Items') = uxMessagesWaiting'
      /\ \A i \in 1..uxMessagesWaiting' : Items'[i] = place'[On(pcReadFrom', i)]
    BY ItemsIsSeq DEF Items, RingTypeOK
<1>3. uxMessagesWaiting \in 0..uxLength-1 /\ uxMessagesWaiting' = uxMessagesWaiting + 1
    BY RingAssumption DEF SendToBack, HasRoom, RingTypeOK
<1>4. /\ Append(Items, x) \in Seq(Item) /\ Len(Append(Items, x)) = Len(Items) + 1
      /\ \A i \in 1..Len(Items) : Append(Items, x)[i] = Items[i]
      /\ Append(Items, x)[Len(Items) + 1] = x
    BY <1>1, AppendProperties
<1>5. pcWriteTo = On(pcReadFrom, uxMessagesWaiting + 1) /\ pcReadFrom \in Slot
    BY <1>3, OnSteps DEF RingTypeOK, WriteFollowsItems
<1>6. ASSUME NEW i \in 1..uxMessagesWaiting + 1
      PROVE  Items'[i] = Append(Items, x)[i]
    <2>1. Items'[i] = place'[On(pcReadFrom, i)]
        BY <1>2, <1>3 DEF SendToBack
    <2>2. CASE i = uxMessagesWaiting + 1
        BY <2>1, <2>2, <1>1, <1>4, <1>5 DEF SendToBack, RingTypeOK
    <2>3. CASE i # uxMessagesWaiting + 1
        <3>1. i \in 1..uxMessagesWaiting /\ i \in 1..uxLength /\ uxMessagesWaiting + 1 \in 1..uxLength
            BY <2>3, <1>3, RingAssumption
        <3>2. On(pcReadFrom, i) # pcWriteTo
            BY <3>1, <1>5, <2>3, OnInjective
        <3>3. On(pcReadFrom, i) \in Slot
            BY <3>1, <1>5, OnInPlace, RingAssumption
        <3>4. place'[On(pcReadFrom, i)] = place[On(pcReadFrom, i)]
            BY <3>2, <3>3 DEF SendToBack, RingTypeOK
        <3> QED BY <2>1, <3>1, <3>4, <1>1, <1>4
    <2> QED BY <2>2, <2>3, Zenon
<1>7. Items' = Append(Items, x)
    BY <1>1, <1>2, <1>3, <1>4, <1>6, SeqEqual
<1> QED BY <1>1, <1>3, <1>7, RingAssumption DEF F!SendToBack, SendToBack

\* An item that is sent to the front is the first of the sequence.
LEMMA SendToFrontRefines ==
    ASSUME RingInv, RingInv', NEW x \in Item, SendToFront(x)
    PROVE  F!SendToFront(x)
<1> USE DEF RingInv
<1>1. /\ Items \in Seq(Item) /\ Len(Items) = uxMessagesWaiting
      /\ \A i \in 1..uxMessagesWaiting : Items[i] = place[On(pcReadFrom, i)]
    BY ItemsIsSeq DEF Items, RingTypeOK
<1>2. /\ Items' \in Seq(Item) /\ Len(Items') = uxMessagesWaiting'
      /\ \A i \in 1..uxMessagesWaiting' : Items'[i] = place'[On(pcReadFrom', i)]
    BY ItemsIsSeq DEF Items, RingTypeOK
<1>3. /\ uxMessagesWaiting \in 0..uxLength-1 /\ uxMessagesWaiting' = uxMessagesWaiting + 1
      /\ pcReadFrom \in Slot /\ Backward(pcReadFrom) \in Slot
    BY RingAssumption, PointerSteps DEF SendToFront, HasRoom, RingTypeOK
<1>4. <<x>> \in Seq(Item) /\ Len(<<x>>) = 1 /\ <<x>>[1] = x
    OBVIOUS
<1>5. /\ <<x>> \o Items \in Seq(Item) /\ Len(<<x>> \o Items) = 1 + Len(Items)
      /\ \A i \in 1..1 + Len(Items) : (<<x>> \o Items)[i] = IF i <= 1 THEN x ELSE Items[i - 1]
    BY <1>1, <1>4, ConcatProperties
<1>6. ASSUME NEW i \in 1..uxMessagesWaiting + 1
      PROVE  Items'[i] = (<<x>> \o Items)[i]
    <2>1. Items'[i] = place'[On(Backward(pcReadFrom), i)]
        BY <1>2, <1>3 DEF SendToFront
    <2>2. i - 1 \in 0..uxLength-1 /\ i - 1 + 1 = i
        BY <1>3, RingAssumption
    <2>3. On(Backward(pcReadFrom), i) = On(pcReadFrom, i - 1)
        BY <2>2, <1>3, OnSteps
    <2>4. CASE i = 1
        <3>1. On(Backward(pcReadFrom), 1) = pcReadFrom
            BY <2>3, <2>4, <1>3, OnSteps
        <3> QED BY <2>1, <2>4, <3>1, <1>1, <1>3, <1>5 DEF SendToFront, RingTypeOK
    <2>5. CASE i # 1
        <3>1. i - 1 \in 1..uxMessagesWaiting /\ i - 1 \in 1..uxLength /\ i - 1 \in 0..uxLength
            BY <2>5, <1>3, RingAssumption
        <3>2. uxLength \in 1..uxLength /\ i - 1 # uxLength
            BY <1>3, RingAssumption
        <3>3. On(pcReadFrom, uxLength) = pcReadFrom
            BY <1>3, RingAssumption DEF On, Slot, pcTail
        <3>4. On(pcReadFrom, i - 1) # pcReadFrom /\ On(pcReadFrom, i - 1) \in Slot
            BY <3>1, <3>2, <3>3, <1>3, OnInjective, OnInPlace
        <3>5. place'[On(pcReadFrom, i - 1)] = place[On(pcReadFrom, i - 1)]
            BY <3>4 DEF SendToFront, RingTypeOK
        <3>6. (<<x>> \o Items)[i] = Items[i - 1]
            BY <1>1, <1>3, <1>5, <2>5
        <3> QED BY <2>1, <2>3, <3>1, <3>5, <3>6, <1>1
    <2> QED BY <2>4, <2>5, Zenon
<1>7. Items' = <<x>> \o Items
    BY <1>1, <1>2, <1>3, <1>5, <1>6, SeqEqual
<1> QED BY <1>1, <1>3, <1>7, RingAssumption DEF F!SendToFront, SendToFront

\* What a receiver or a peeker copies is the first item of the sequence.
LEMMA FirstItem ==
    ASSUME RingInv, uxMessagesWaiting > 0
    PROVE  Items # <<>> /\ Head(Items) = place[Forward(pcReadFrom)]
<1> USE DEF RingInv
<1>1. /\ Items \in Seq(Item) /\ Len(Items) = uxMessagesWaiting
      /\ \A i \in 1..uxMessagesWaiting : Items[i] = place[On(pcReadFrom, i)]
    BY ItemsIsSeq DEF Items, RingTypeOK
<1>2. 1 \in 1..uxMessagesWaiting
    BY RingAssumption DEF RingTypeOK
<1>3. Items # <<>>
    BY <1>1, <1>2
<1>4. Head(Items) = Items[1]
    BY <1>1, <1>3
<1>5. On(pcReadFrom, 1) = Forward(pcReadFrom)
    BY OnSteps DEF RingTypeOK
<1> QED BY <1>1, <1>2, <1>3, <1>4, <1>5

\* A receive takes it out of the sequence.
LEMMA ReceiveRefines ==
    ASSUME RingInv, RingInv', Receive
    PROVE  F!Receive
<1> USE DEF RingInv
<1>1. /\ Items \in Seq(Item) /\ Len(Items) = uxMessagesWaiting
      /\ \A i \in 1..uxMessagesWaiting : Items[i] = place[On(pcReadFrom, i)]
    BY ItemsIsSeq DEF Items, RingTypeOK
<1>2. /\ Items' \in Seq(Item) /\ Len(Items') = uxMessagesWaiting'
      /\ \A i \in 1..uxMessagesWaiting' : Items'[i] = place'[On(pcReadFrom', i)]
    BY ItemsIsSeq DEF Items, RingTypeOK
<1>3. Items # <<>> /\ Head(Items) = place[Forward(pcReadFrom)]
    BY FirstItem DEF Receive
<1>4. /\ uxMessagesWaiting \in 1..uxLength /\ uxMessagesWaiting' = uxMessagesWaiting - 1
      /\ pcReadFrom \in Slot
    BY RingAssumption DEF Receive, RingTypeOK
<1>5. /\ Tail(Items) \in Seq(Item) /\ Len(Tail(Items)) = Len(Items) - 1
      /\ \A i \in 1..Len(Tail(Items)) : Tail(Items)[i] = Items[i + 1]
    BY <1>1, <1>3, HeadTailProperties
<1>6. ASSUME NEW i \in 1..uxMessagesWaiting - 1
      PROVE  Items'[i] = Tail(Items)[i]
    <2>1. Items'[i] = place[On(Forward(pcReadFrom), i)]
        BY <1>2, <1>4 DEF Receive
    <2>2. i \in 0..uxLength-1 /\ i + 1 \in 1..uxMessagesWaiting
        BY <1>4, RingAssumption
    <2>3. On(Forward(pcReadFrom), i) = On(pcReadFrom, i + 1)
        BY <2>2, <1>4, OnSteps
    <2> QED BY <2>1, <2>2, <2>3, <1>1, <1>5
<1>7. Items' = Tail(Items)
    BY <1>1, <1>2, <1>4, <1>5, <1>6, SeqEqual
<1> QED BY <1>3, <1>7 DEF F!Receive, Receive

\* A peek leaves the sequence as it is.
LEMMA PeekRefines ==
    ASSUME RingInv, Peek
    PROVE  F!Peek
<1>1. Items # <<>> /\ Head(Items) = place[Forward(pcReadFrom)]
    BY FirstItem DEF Peek
<1>2. Items' = Items
    BY DEF Peek, Items
<1> QED BY <1>1, <1>2 DEF F!Peek, Peek

LEMMA InitRefines == RingInit => F!Init
<1> SUFFICES ASSUME RingInit PROVE F!Init
    OBVIOUS
<1>1. RingTypeOK /\ uxMessagesWaiting = 0
    BY RingInvInit DEF RingInv, RingInit
<1>2. Items \in Seq(Item) /\ Len(Items) = 0
    BY <1>1, ItemsIsSeq DEF Items, RingTypeOK
<1> QED BY <1>2 DEF F!Init, RingInit

\* The storage area of a queue behaves as the sequence of Fifo, for every
\* length and whatever it held when it was allocated.
THEOREM RingImplementsFifo == RingSpec => ImplementsFifo
<1>1. RingInit => F!Init
    BY InitRefines
<1>2. RingInv /\ RingInv' /\ [RingNext]_ringVars => [F!Next]_<<Items, buffer>>
    <2> SUFFICES ASSUME RingInv, RingInv', [RingNext]_ringVars
                 PROVE  [F!Next]_<<Items, buffer>>
        OBVIOUS
    <2>1. ASSUME NEW x \in Item, SendToBack(x) \/ SendToFront(x) PROVE F!Next
        BY <2>1, SendToBackRefines, SendToFrontRefines DEF F!Next
    <2>2. CASE Receive
        BY <2>2, ReceiveRefines DEF F!Next
    <2>3. CASE Peek
        BY <2>3, PeekRefines DEF F!Next
    <2>4. CASE UNCHANGED ringVars
        BY <2>4 DEF ringVars, Items
    <2> QED BY <2>1, <2>2, <2>3, <2>4 DEF RingNext
<1>3. RingSpec => []RingInv
    BY RingInvInit, RingInvStep, PTL DEF RingSpec
<1> QED BY <1>1, <1>2, <1>3, PTL DEF RingSpec, ImplementsFifo, F!Spec

=============================================================================
