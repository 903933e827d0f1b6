-------------------------- MODULE SchedulerProofs --------------------------
(***************************************************************************)
(* Proofs about Scheduler, for every size of the task table, every number  *)
(* of levels, every quota and every boot sequence.                         *)
(***************************************************************************)
EXTENDS Scheduler, FiniteSetTheorems, WellFoundedInduction, TLAPS

(* A non-empty set of naturals has a least element. *)
LEMMA LeastNat ==
    ASSUME NEW T, T \subseteq Nat, T # {}
    PROVE  \E x \in T : \A y \in T : x <= y
<1> DEFINE Less == OpToRel(<, Nat)
<1>1. IsWellFoundedOn(Less, Nat)
  BY NatLessThanWellFounded, Zenon
<1>2. \A x, y \in Nat : y < x => <<y, x>> \in Less
  BY DEF OpToRel
<1> HIDE DEF Less
<1>3. PICK x \in T : \A y \in T : ~ (<<y, x>> \in Less)
  BY <1>1, WFMin, Zenon
<1>4. ASSUME NEW y \in T PROVE x <= y
  <2>1. x \in Nat /\ y \in Nat
    OBVIOUS
  <2>2. ~ (y < x)
    BY <1>2, <1>3, <2>1
  <2> QED
    BY <2>1, <2>2
<1> QED
  BY <1>4

-----------------------------------------------------------------------------
(* The run queues s of a system with top created tasks are well-formed:      *)
(* TypeOK and QueuesAgree read as a predicate on the queues alone, so that   *)
(* the helpers of task.c can be reasoned about one by one.                   *)

Typed(s, top) ==
    /\ s \in QueueType
    /\ top \in 0 .. MAX_TASKS
    /\ \A l \in Levels : s.tasks[l] \in [0 .. s.running[l] - 1 -> 0 .. top - 1]
    /\ \A l \in Levels : s.now[l] < s.running[l] \/ s.now[l] = 0

EntriesOwned(s) ==
    \A l \in Levels : \A i \in 0 .. s.running[l] - 1 :
        s.flags[s.tasks[l][i]] = RUNNING /\ s.level[s.tasks[l][i]] = l

EntriesDistinct(s) ==
    \A l \in Levels : \A i, j \in 0 .. s.running[l] - 1 :
        s.tasks[l][i] = s.tasks[l][j] => i = j

RunningListed(s) ==
    \A t \in Tasks : s.flags[t] = RUNNING =>
        \E i \in 0 .. s.running[s.level[t]] - 1 : s.tasks[s.level[t]][i] = t

QueueOK(s, top) ==
    Typed(s, top) /\ EntriesOwned(s) /\ EntriesDistinct(s) /\ RunningListed(s)

(* A list whose entries are created tasks is one of Lists.                   *)
LEMMA ListType ==
    ASSUME NEW n \in 0 .. MAX_TASKS, NEW top \in 0 .. MAX_TASKS,
           NEW f \in [0 .. n - 1 -> 0 .. top - 1]
    PROVE  f \in Lists
<1>1. f \in [0 .. n - 1 -> Tasks]
  BY TasksAssumption DEF Tasks
<1> QED
  BY <1>1 DEF Lists

(* task_add always has room: the entries of a list are distinct tasks other  *)
(* than the one that is added, so there are fewer than MAX_TASKS of them.    *)
LEMMA RoomForSleeper ==
    ASSUME NEW s, NEW top, QueueOK(s, top), NEW t \in Tasks, s.flags[t] # RUNNING
    PROVE  ~ Overflows(s, t)
<1> DEFINE l == s.level[t]
           n == s.running[l]
           others == Tasks \ {t}
<1>1. l \in Levels /\ n \in 0 .. MAX_TASKS
  BY DEF QueueOK, Typed, QueueType
<1>2. SUFFICES ASSUME n = MAX_TASKS PROVE FALSE
  BY <1>1, TasksAssumption DEF Overflows
<1>3. s.tasks[l] \in [0 .. n - 1 -> others]
  <2>1. s.tasks[l] \in [0 .. n - 1 -> 0 .. top - 1] /\ top \in 0 .. MAX_TASKS
    BY <1>1 DEF QueueOK, Typed
  <2>2. ASSUME NEW i \in 0 .. n - 1 PROVE s.tasks[l][i] \in others
    <3>1. s.tasks[l][i] \in 0 .. top - 1
      BY <2>1
    <3>3. s.tasks[l][i] \in Tasks
      <4> HIDE DEF l, n
      <4> QED BY <2>1, <3>1, TasksAssumption DEF Tasks
    <3>2. s.flags[s.tasks[l][i]] = RUNNING
      BY <1>1 DEF QueueOK, EntriesOwned
    <3> QED
      BY <3>3, <3>2
  <2> QED
    BY <2>1, <2>2
<1>4. IsFiniteSet(others) /\ Cardinality(others) = MAX_TASKS - 1
  <2>1. IsFiniteSet(Tasks) /\ Cardinality(Tasks) = MAX_TASKS
    BY FS_Interval, TasksAssumption DEF Tasks
  <2> QED
    BY <2>1, FS_RemoveElement, TasksAssumption
<1>5. IsFiniteSet(0 .. n - 1) /\ Cardinality(0 .. n - 1) = MAX_TASKS
  BY <1>2, FS_Interval, TasksAssumption
<1>6. \E i, j \in 0 .. n - 1 : i # j /\ s.tasks[l][i] = s.tasks[l][j]
  <2> DEFINE f == s.tasks[l]
  <2> HIDE DEF others, l, n, f
  <2>1. Cardinality(others) < Cardinality(0 .. n - 1)
    BY <1>4, <1>5, TasksAssumption
  <2> QED
    <3>1. f \in [0 .. n - 1 -> others]
      BY <1>3 DEF f
    <3>2. \E i, j \in 0 .. n - 1 : i # j /\ f[i] = f[j]
      BY <1>4, <1>5, <2>1, <3>1, FS_PigeonHole, Zenon
    <3> QED
      BY <3>2 DEF f
<1> QED
  BY <1>1, <1>6 DEF QueueOK, EntriesDistinct

(* task_add keeps the queues well-formed when it is given a task that is in  *)
(* no list.                                                                  *)
LEMMA AddOK ==
    ASSUME NEW s, NEW top, QueueOK(s, top), NEW t \in 0 .. top - 1,
           s.flags[t] # RUNNING
    PROVE  QueueOK(TaskAdd(s, t), top)
<1> DEFINE l == s.level[t]
           n == s.running[l]
           r == TaskAdd(s, t)
           grown == [i \in 0 .. n |-> IF i = n THEN t ELSE s.tasks[l][i]]
<1>1. t \in Tasks /\ l \in Levels /\ n \in 0 .. MAX_TASKS - 1 /\ top \in 0 .. MAX_TASKS
  <2>1. t \in Tasks /\ l \in Levels /\ n \in 0 .. MAX_TASKS /\ top \in 0 .. MAX_TASKS
    BY TasksAssumption DEF QueueOK, Typed, QueueType, Tasks
  <2> QED
    BY <2>1, RoomForSleeper, TasksAssumption DEF Overflows
<1>2. grown \in [0 .. n -> 0 .. top - 1]
  <2>1. s.tasks[l] \in [0 .. n - 1 -> 0 .. top - 1]
    BY <1>1, Zenon DEF QueueOK, Typed
  <2>2. ASSUME NEW i \in 0 .. n, i # n
        PROVE  s.tasks[l][i] \in 0 .. top - 1
    <3>1. i \in 0 .. n - 1
      <4> HIDE DEF n, l
      <4> QED BY <1>1, <2>2, TasksAssumption
    <3> QED
      BY <2>1, <3>1, Zenon
  <2> HIDE DEF n, l
  <2> QED
    BY <2>2, Zenon
<1>2a. n \in Nat /\ grown[n] = t /\ \A i \in 0 .. n - 1 : i \in 0 .. n /\ grown[i] = s.tasks[l][i]
  <2> HIDE DEF n, l
  <2> QED BY <1>1, TasksAssumption
<1>2b. s.level[t] = l /\ s.running[l] = n
  OBVIOUS
<1>3. /\ r.tasks   = [s.tasks EXCEPT ![l] = grown]
      /\ r.running = [s.running EXCEPT ![l] = n + 1]
      /\ r.now     = s.now
      /\ r.flags   = [s.flags EXCEPT ![t] = RUNNING]
      /\ r.level   = s.level
      /\ DOMAIN r = DOMAIN s
  BY <1>1 DEF TaskAdd, QueueOK, Typed, QueueType
<1>4. r \in QueueType
  <2>1. n + 1 \in 0 .. MAX_TASKS /\ (n + 1) - 1 = n
    <3> HIDE DEF l, n
    <3> QED BY <1>1, TasksAssumption
  <2>2. grown \in Lists
    <3> HIDE DEF grown, n, l
    <3> QED BY <1>1, <1>2, <2>1, ListType
  <2>3. /\ r.tasks \in [Levels -> Lists]
        /\ r.running \in [Levels -> 0 .. MAX_TASKS]
        /\ r.flags \in [Tasks -> {UNUSED, SLEEPING, RUNNING}]
    <3> HIDE DEF r, grown
    <3> QED BY <1>1, <1>3, <2>1, <2>2 DEF QueueOK, Typed, QueueType
  <2> QED
    BY <1>3, <2>3 DEF QueueOK, Typed, QueueType, TaskAdd
<1> HIDE DEF r, grown
<1>5. Typed(r, top)
  <2>1. ASSUME NEW k \in Levels
        PROVE  /\ r.tasks[k] \in [0 .. r.running[k] - 1 -> 0 .. top - 1]
               /\ r.now[k] < r.running[k] \/ r.now[k] = 0
    <3>1. CASE k = l
      <4>1. r.tasks[k] = grown /\ r.running[k] = n + 1 /\ r.now[k] = s.now[k]
        BY <1>1, <1>3, <3>1 DEF QueueOK, Typed, QueueType
      <4>2. s.now[k] < n \/ s.now[k] = 0
        BY <3>1 DEF QueueOK, Typed
      <4>3. s.now[k] \in Nat
        BY DEF QueueOK, Typed, QueueType
      <4> HIDE DEF n, l
      <4> QED BY <1>1, <1>2, <4>1, <4>2, <4>3, TasksAssumption
    <3>2. CASE k # l
      BY <1>1, <1>3, <3>2 DEF QueueOK, Typed, QueueType
    <3> QED BY <3>1, <3>2
  <2> QED BY <1>1, <1>4, <2>1 DEF Typed
<1>6. ASSUME NEW k \in Levels
      PROVE  /\ k = l => r.running[k] = n + 1 /\ r.tasks[k] = grown
             /\ k # l => r.running[k] = s.running[k] /\ r.tasks[k] = s.tasks[k]
  BY <1>1, <1>3 DEF QueueOK, Typed, QueueType
<1>7. \A u \in Tasks : r.flags[u] = IF u = t THEN RUNNING ELSE s.flags[u]
  BY <1>1, <1>3 DEF QueueOK, Typed, QueueType
<1>8. ASSUME NEW k \in Levels, NEW i \in 0 .. s.running[k] - 1
      PROVE  s.tasks[k][i] \in Tasks /\ s.tasks[k][i] # t
  <2>1. s.tasks[k][i] \in 0 .. top - 1 /\ top \in 0 .. MAX_TASKS
    BY DEF QueueOK, Typed
  <2>2. s.tasks[k][i] \in Tasks
    BY <2>1, TasksAssumption DEF Tasks
  <2>3. s.flags[s.tasks[k][i]] = RUNNING
    BY DEF QueueOK, EntriesOwned
  <2> QED BY <2>2, <2>3
<1>9. EntriesOwned(r)
  <2> SUFFICES ASSUME NEW k \in Levels, NEW i \in 0 .. r.running[k] - 1
               PROVE  r.flags[r.tasks[k][i]] = RUNNING /\ r.level[r.tasks[k][i]] = k
    BY DEF EntriesOwned
  <2>1. CASE k = l /\ i = n
    BY <1>1, <1>3, <1>6, <1>7, <1>2a, <2>1
  <2>2. CASE ~ (k = l /\ i = n)
    <3>1. i \in 0 .. s.running[k] - 1 /\ r.tasks[k][i] = s.tasks[k][i]
      <4>1. CASE k = l
        <5> HIDE DEF n, l
        <5> QED BY <1>6, <1>2a, <1>2b, <2>2, <4>1
      <4>2. CASE k # l
        BY <1>6, <4>2
      <4> QED BY <4>1, <4>2
    <3> QED BY <1>3, <1>7, <1>8, <3>1 DEF QueueOK, EntriesOwned
  <2> QED BY <2>1, <2>2
<1>10. EntriesDistinct(r)
  <2> SUFFICES ASSUME NEW k \in Levels,
                      NEW i \in 0 .. r.running[k] - 1, NEW j \in 0 .. r.running[k] - 1,
                      r.tasks[k][i] = r.tasks[k][j]
               PROVE  i = j
    BY DEF EntriesDistinct
  <2>1. CASE k = l
    <3>1. i \in 0 .. n /\ j \in 0 .. n
      <4> HIDE DEF n, l
      <4> QED BY <1>1, <1>6, <2>1
    <3>2. /\ i = n \/ (i \in 0 .. n - 1 /\ r.tasks[k][i] = s.tasks[k][i])
          /\ j = n \/ (j \in 0 .. n - 1 /\ r.tasks[k][j] = s.tasks[k][j])
      <4> HIDE DEF n, l
      <4> QED BY <1>6, <1>2a, <2>1, <3>1
    <3>3. /\ i = n => r.tasks[k][i] = t
          /\ j = n => r.tasks[k][j] = t
      BY <1>6, <1>2a, <2>1
    <3> QED BY <1>8, <2>1, <3>2, <3>3 DEF QueueOK, EntriesDistinct
  <2>2. CASE k # l
    BY <1>6, <2>2 DEF QueueOK, EntriesDistinct
  <2> QED BY <2>1, <2>2
<1>11. RunningListed(r)
  <2> SUFFICES ASSUME NEW u \in Tasks, r.flags[u] = RUNNING
               PROVE  \E i \in 0 .. r.running[r.level[u]] - 1 : r.tasks[r.level[u]][i] = u
    BY DEF RunningListed
  <2>1. CASE u = t
    <3>1. r.level[u] = l /\ r.running[l] = n + 1 /\ r.tasks[l][n] = t
      BY <1>1, <1>3, <1>6, <1>2a, <2>1
    <3>2. n \in 0 .. (n + 1) - 1
      <4> HIDE DEF n, l
      <4> QED BY <1>1
    <3> QED BY <2>1, <3>1, <3>2
  <2>2. CASE u # t
    <3> DEFINE k == s.level[u]
    <3>1. k \in Levels /\ r.level[u] = k /\ s.flags[u] = RUNNING
      BY <1>3, <1>7, <2>2 DEF QueueOK, Typed, QueueType
    <3>2. PICK i \in 0 .. s.running[k] - 1 : s.tasks[k][i] = u
      BY <3>1 DEF QueueOK, RunningListed
    <3>3. i \in 0 .. r.running[k] - 1 /\ r.tasks[k][i] = s.tasks[k][i]
      <4>1. CASE k = l
        <5>1. s.running[k] = n
          BY <4>1
        <5> HIDE DEF n, l, k
        <5> QED BY <1>6, <1>2a, <3>1, <3>2, <4>1, <5>1
      <4>2. CASE k # l
        BY <1>6, <3>1, <3>2, <4>2
      <4> QED BY <4>1, <4>2
    <3> QED BY <3>1, <3>2, <3>3
  <2> QED BY <2>1, <2>2
<1> QED
  BY <1>5, <1>9, <1>10, <1>11 DEF QueueOK, r

(* task_remove finds a runnable task in the list of its level, and takes     *)
(* that one entry out: the others move down and the cursor stays in range.   *)
LEMMA RemoveOK ==
    ASSUME NEW s, NEW top, QueueOK(s, top), NEW t \in Tasks, s.flags[t] = RUNNING
    PROVE  /\ QueueOK(TaskRemove(s, t), top)
           /\ TaskRemove(s, t).flags = [s.flags EXCEPT ![t] = SLEEPING]
           /\ TaskRemove(s, t).level = s.level
<1> DEFINE l == s.level[t]
           n == s.running[l]
           found == {k \in 0 .. n - 1 : s.tasks[l][k] = t}
           i == CHOOSE k \in found : \A j \in found : k <= j
           r == TaskRemove(s, t)
           shrunk == [k \in 0 .. n - 2 |-> IF k < i THEN s.tasks[l][k] ELSE s.tasks[l][k + 1]]
           c == CursorAfterRemoval(s.now[l], i, n - 1)
<1>1. l \in Levels /\ n \in 0 .. MAX_TASKS /\ top \in 0 .. MAX_TASKS
  BY DEF QueueOK, Typed, QueueType
<1>2. i \in 0 .. n - 1 /\ s.tasks[l][i] = t /\ found # {}
  <2>1. PICK k \in 0 .. n - 1 : s.tasks[l][k] = t
    BY <1>1 DEF QueueOK, RunningListed
  <2>2. found = {k}
    BY <1>1, <2>1 DEF QueueOK, EntriesDistinct
  <2>3. \A j \in found : k <= j
    BY <2>1, <2>2
  <2>4. i \in found
    <3> HIDE DEF found
    <3> QED BY <2>2, <2>3
  <2> QED BY <2>2, <2>4
<1> HIDE DEF i
<1>3. s.level[t] = l /\ s.running[l] = n
  OBVIOUS
<1>4. /\ r.tasks   = [s.tasks EXCEPT ![l] = shrunk]
      /\ r.running = [s.running EXCEPT ![l] = n - 1]
      /\ r.now     = [s.now EXCEPT ![l] = c]
      /\ r.flags   = [s.flags EXCEPT ![t] = SLEEPING]
      /\ r.level   = s.level
      /\ r = [s EXCEPT !.tasks = [s.tasks EXCEPT ![l] = shrunk],
                       !.running = [s.running EXCEPT ![l] = n - 1],
                       !.now = [s.now EXCEPT ![l] = c],
                       !.flags = [s.flags EXCEPT ![t] = SLEEPING]]
  <2>1. r = [s EXCEPT !.tasks[l] = shrunk, !.running[l] = n - 1,
                      !.now[l] = c, !.flags[t] = SLEEPING]
    BY <1>2 DEF TaskRemove, i
  <2> HIDE DEF r, shrunk, c
  <2> QED BY <1>1, <2>1 DEF QueueOK, Typed, QueueType
<1>5. /\ n \in Nat \ {0} /\ (n - 1) - 1 = n - 2 /\ n - 1 \in 0 .. MAX_TASKS
      /\ \A k \in 0 .. n - 2 :
            \/ k < i /\ k \in 0 .. n - 1 /\ shrunk[k] = s.tasks[l][k]
            \/ k >= i /\ k + 1 \in 0 .. n - 1 /\ shrunk[k] = s.tasks[l][k + 1]
  <2> HIDE DEF n, l
  <2> QED BY <1>1, <1>2, TasksAssumption
<1>6. shrunk \in [0 .. n - 2 -> 0 .. top - 1]
  <2>1. s.tasks[l] \in [0 .. n - 1 -> 0 .. top - 1]
    BY <1>1 DEF QueueOK, Typed
  <2> HIDE DEF n, l
  <2> QED BY <1>5, <2>1
<1>7. c \in Nat /\ (c < n - 1 \/ c = 0)
  <2>1. s.now[l] \in Nat
    BY <1>1 DEF QueueOK, Typed, QueueType
  <2> HIDE DEF n, l
  <2> QED BY <1>2, <1>5, <2>1 DEF CursorAfterRemoval
<1> HIDE DEF r, shrunk, c
<1>8. ASSUME NEW k \in Levels
      PROVE  /\ k = l => /\ r.running[k] = n - 1 /\ r.tasks[k] = shrunk /\ r.now[k] = c
             /\ k # l => /\ r.running[k] = s.running[k] /\ r.tasks[k] = s.tasks[k]
                         /\ r.now[k] = s.now[k]
  BY <1>1, <1>4 DEF QueueOK, Typed, QueueType
<1>9. Typed(r, top)
  <2>1. shrunk \in Lists
    <3> HIDE DEF n, l
    <3> QED BY <1>1, <1>5, <1>6, ListType
  <2>2. r \in QueueType
    <3>1. /\ r.tasks \in [Levels -> Lists]
          /\ r.running \in [Levels -> 0 .. MAX_TASKS]
          /\ r.now \in [Levels -> Nat]
          /\ r.flags \in [Tasks -> {UNUSED, SLEEPING, RUNNING}]
      BY <1>1, <1>4, <1>5, <1>7, <2>1 DEF QueueOK, Typed, QueueType
    <3> QED BY <1>4, <3>1 DEF QueueOK, Typed, QueueType
  <2>3. ASSUME NEW k \in Levels
        PROVE  /\ r.tasks[k] \in [0 .. r.running[k] - 1 -> 0 .. top - 1]
               /\ r.now[k] < r.running[k] \/ r.now[k] = 0
    <3>1. CASE k = l
      <4> HIDE DEF n, l
      <4> QED BY <1>5, <1>6, <1>7, <1>8, <3>1
    <3>2. CASE k # l
      BY <1>8, <3>2 DEF QueueOK, Typed
    <3> QED BY <3>1, <3>2
  <2> QED BY <1>1, <2>2, <2>3 DEF Typed
<1>10. ASSUME NEW k \in Levels, NEW j \in 0 .. r.running[k] - 1
       PROVE  \E m \in 0 .. s.running[k] - 1 :
                  /\ r.tasks[k][j] = s.tasks[k][m]
                  /\ s.tasks[k][m] \in Tasks \ {t}
                  /\ k = l => m = IF j < i THEN j ELSE j + 1
                  /\ k # l => m = j
  <2>1. ASSUME NEW m \in 0 .. s.running[k] - 1 PROVE s.tasks[k][m] \in Tasks
    <3>1. s.tasks[k][m] \in 0 .. top - 1 /\ top \in 0 .. MAX_TASKS
      BY DEF QueueOK, Typed
    <3> QED BY <3>1, TasksAssumption DEF Tasks
  <2>2. CASE k = l
    <3>1. j \in 0 .. n - 2
      <4> HIDE DEF n, l
      <4> QED BY <1>5, <1>8, <2>2
    <3> DEFINE m == IF j < i THEN j ELSE j + 1
    <3>2. m \in 0 .. n - 1 /\ m # i /\ shrunk[j] = s.tasks[l][m]
      <4> HIDE DEF n, l
      <4> QED BY <1>2, <1>5, <3>1
    <3>3. s.tasks[l][m] # t
      BY <1>1, <1>2, <3>2 DEF QueueOK, EntriesDistinct
    <3> QED BY <1>3, <1>8, <2>1, <2>2, <3>2, <3>3
  <2>3. CASE k # l
    <3>1. j \in 0 .. s.running[k] - 1 /\ r.tasks[k][j] = s.tasks[k][j]
      BY <1>8, <2>3
    <3>2. s.level[s.tasks[k][j]] = k
      BY <3>1 DEF QueueOK, EntriesOwned
    <3>3. s.tasks[k][j] # t
      BY <2>3, <3>2
    <3> QED BY <2>1, <2>3, <3>1, <3>3
  <2> QED BY <2>2, <2>3
<1>11. \A u \in Tasks : r.flags[u] = IF u = t THEN SLEEPING ELSE s.flags[u]
  BY <1>4 DEF QueueOK, Typed, QueueType
<1>12. EntriesOwned(r)
  <2> SUFFICES ASSUME NEW k \in Levels, NEW j \in 0 .. r.running[k] - 1
               PROVE  r.flags[r.tasks[k][j]] = RUNNING /\ r.level[r.tasks[k][j]] = k
    BY DEF EntriesOwned
  <2> QED BY <1>4, <1>10, <1>11 DEF QueueOK, EntriesOwned
<1>13. EntriesDistinct(r)
  <2> SUFFICES ASSUME NEW k \in Levels,
                      NEW j1 \in 0 .. r.running[k] - 1, NEW j2 \in 0 .. r.running[k] - 1,
                      r.tasks[k][j1] = r.tasks[k][j2]
               PROVE  j1 = j2
    BY DEF EntriesDistinct
  <2>1. PICK m1 \in 0 .. s.running[k] - 1 :
            /\ r.tasks[k][j1] = s.tasks[k][m1]
            /\ k = l => m1 = IF j1 < i THEN j1 ELSE j1 + 1
            /\ k # l => m1 = j1
    BY <1>10
  <2>2. PICK m2 \in 0 .. s.running[k] - 1 :
            /\ r.tasks[k][j2] = s.tasks[k][m2]
            /\ k = l => m2 = IF j2 < i THEN j2 ELSE j2 + 1
            /\ k # l => m2 = j2
    BY <1>10
  <2>3. m1 = m2
    BY <2>1, <2>2 DEF QueueOK, EntriesDistinct
  <2>4. i \in Int
    <3> HIDE DEF n, l
    <3> QED BY <1>2, <1>5
  <2> HIDE DEF l
  <2> QED BY <2>1, <2>2, <2>3, <2>4
<1>14. RunningListed(r)
  <2> SUFFICES ASSUME NEW u \in Tasks, r.flags[u] = RUNNING
               PROVE  \E j \in 0 .. r.running[r.level[u]] - 1 : r.tasks[r.level[u]][j] = u
    BY DEF RunningListed
  <2> DEFINE k == s.level[u]
  <2>1. k \in Levels /\ r.level[u] = k /\ s.flags[u] = RUNNING /\ u # t
    BY <1>4, <1>11 DEF QueueOK, Typed, QueueType, RUNNING, SLEEPING
  <2>2. PICK m \in 0 .. s.running[k] - 1 : s.tasks[k][m] = u
    BY <2>1 DEF QueueOK, RunningListed
  <2>3. \E j \in 0 .. r.running[k] - 1 : r.tasks[k][j] = u
    <3>1. CASE k = l
      <4> DEFINE j == IF m < i THEN m ELSE m - 1
      <4>1. m \in 0 .. n - 1 /\ s.tasks[l][m] = u
        BY <1>3, <2>2, <3>1
      <4>2. m # i
        BY <1>2, <2>1, <4>1
      <4>3. j \in 0 .. n - 2 /\ shrunk[j] = s.tasks[l][m] /\ 0 .. (n - 1) - 1 = 0 .. n - 2
        <5> HIDE DEF n, l
        <5> QED BY <1>2, <1>5, <4>1, <4>2
      <4>4. r.running[k] - 1 = n - 2 /\ r.tasks[k][j] = u
        <5> HIDE DEF n, l, k, j
        <5> QED BY <1>5, <1>8, <2>1, <3>1, <4>1, <4>3
      <4> QED BY <4>3, <4>4
    <3>2. CASE k # l
      BY <1>8, <2>1, <2>2, <3>2
    <3> QED BY <3>1, <3>2
  <2> QED BY <2>1, <2>3
<1> QED
  BY <1>4, <1>9, <1>12, <1>13, <1>14 DEF QueueOK, r

(* The level of a task that is in no list may be changed freely.             *)
LEMMA SetLevelOK ==
    ASSUME NEW s, NEW top, QueueOK(s, top), NEW t \in Tasks, NEW l \in Levels,
           s.flags[t] # RUNNING \/ s.level[t] = l
    PROVE  /\ QueueOK([s EXCEPT !.level[t] = l], top)
           /\ [s EXCEPT !.level[t] = l].flags = s.flags
           /\ [s EXCEPT !.level[t] = l].level[t] = l
<1> DEFINE r == [s EXCEPT !.level[t] = l]
<1>1. /\ r.tasks = s.tasks /\ r.running = s.running /\ r.now = s.now /\ r.flags = s.flags
      /\ r.level = [s.level EXCEPT ![t] = l]
      /\ r \in QueueType
  BY DEF QueueOK, Typed, QueueType
<1>2. \A u \in Tasks : r.level[u] = IF u = t THEN l ELSE s.level[u]
  BY DEF QueueOK, Typed, QueueType
<1> HIDE DEF r
<1>3. ASSUME NEW k \in Levels, NEW j \in 0 .. s.running[k] - 1
      PROVE  s.tasks[k][j] \in Tasks
  <2>1. s.tasks[k][j] \in 0 .. top - 1 /\ top \in 0 .. MAX_TASKS
    BY DEF QueueOK, Typed
  <2> QED BY <2>1, TasksAssumption DEF Tasks
<1>4. Typed(r, top)
  BY <1>1 DEF QueueOK, Typed
<1>5. EntriesOwned(r)
  BY <1>1, <1>2, <1>3 DEF QueueOK, EntriesOwned
<1>6. EntriesDistinct(r)
  BY <1>1 DEF QueueOK, EntriesDistinct
<1>7. RunningListed(r)
  BY <1>1, <1>2 DEF QueueOK, RunningListed
<1> QED
  BY <1>1, <1>2, <1>4, <1>5, <1>6, <1>7 DEF QueueOK, r

(* A fresh task_meta entry belongs to a task that is in no list.             *)
LEMMA FreshMetaOK ==
    ASSUME NEW s, NEW top, QueueOK(s, top), NEW t \in Tasks
    PROVE  /\ QueueOK(FreshMeta(s, t), top)
           /\ FreshMeta(s, t).flags = [s.flags EXCEPT ![t] = SLEEPING]
<1> DEFINE r == IF s.flags[t] = RUNNING THEN TaskRemove(s, t) ELSE s
           a == [r EXCEPT !.flags[t] = SLEEPING]
<1>1. QueueOK(r, top) /\ r.flags[t] # RUNNING /\ [r.flags EXCEPT ![t] = SLEEPING] = [s.flags EXCEPT ![t] = SLEEPING]
  <2>1. CASE s.flags[t] = RUNNING
    <3>1. QueueOK(r, top) /\ r.flags = [s.flags EXCEPT ![t] = SLEEPING]
      BY <2>1, RemoveOK
    <3>2. s.flags \in [Tasks -> {UNUSED, SLEEPING, RUNNING}]
      BY DEF QueueOK, Typed, QueueType
    <3> HIDE DEF r
    <3> QED BY <3>1, <3>2 DEF RUNNING, SLEEPING
  <2>2. CASE s.flags[t] # RUNNING
    BY <2>2
  <2> QED BY <2>1, <2>2
<1> HIDE DEF r
<1>2. /\ a.tasks = r.tasks /\ a.running = r.running /\ a.now = r.now /\ a.level = r.level
      /\ a.flags = [r.flags EXCEPT ![t] = SLEEPING]
      /\ a \in QueueType
      /\ \A u \in Tasks : a.flags[u] = IF u = t THEN SLEEPING ELSE r.flags[u]
  BY <1>1 DEF QueueOK, Typed, QueueType
<1> HIDE DEF a
<1>3. QueueOK(a, top)
  <2>1. ASSUME NEW k \in Levels, NEW j \in 0 .. r.running[k] - 1
        PROVE  r.tasks[k][j] \in Tasks \ {t}
    <3>1. r.tasks[k][j] \in 0 .. top - 1 /\ top \in 0 .. MAX_TASKS
      BY <1>1 DEF QueueOK, Typed
    <3>2. r.tasks[k][j] \in Tasks
      BY <3>1, TasksAssumption DEF Tasks
    <3>3. r.tasks[k][j] # t
      BY <1>1 DEF QueueOK, EntriesOwned
    <3> QED BY <3>2, <3>3
  <2>2. Typed(a, top)
    BY <1>1, <1>2 DEF QueueOK, Typed
  <2>3. EntriesOwned(a)
    BY <1>1, <1>2, <2>1 DEF QueueOK, EntriesOwned
  <2>4. EntriesDistinct(a)
    BY <1>1, <1>2 DEF QueueOK, EntriesDistinct
  <2>5. RunningListed(a)
    BY <1>1, <1>2 DEF QueueOK, RunningListed, RUNNING, SLEEPING
  <2> QED BY <2>2, <2>3, <2>4, <2>5 DEF QueueOK
<1>4. FreshMeta(s, t) = [a EXCEPT !.level[t] = 0]
  BY DEF FreshMeta, a, r
<1>5. 0 \in Levels
  BY LevelsAssumption DEF Levels
<1>6. a.flags[t] # RUNNING
  BY <1>2 DEF RUNNING, SLEEPING
<1>7. QueueOK([a EXCEPT !.level[t] = 0], top) /\ [a EXCEPT !.level[t] = 0].flags = a.flags
  BY <1>3, <1>5, <1>6, SetLevelOK
<1> QED
  BY <1>1, <1>2, <1>4, <1>7

(* Changing level takes a runnable task out of the list it was in.           *)
LEMMA RelevelOK ==
    ASSUME NEW s, NEW top, QueueOK(s, top), NEW t \in Tasks, NEW level \in Int
    PROVE  /\ QueueOK(Relevel(s, t, level), top)
           /\ [Relevel(s, t, level).flags EXCEPT ![t] = RUNNING] = [s.flags EXCEPT ![t] = RUNNING]
<1> DEFINE l == ClampLevel(s, t, level)
           r == IF s.flags[t] = RUNNING /\ s.level[t] # l THEN TaskRemove(s, t) ELSE s
<1>1. l \in Levels
  BY LevelsAssumption DEF ClampLevel, QueueOK, Typed, QueueType, Levels
<1>2. s.flags \in [Tasks -> {UNUSED, SLEEPING, RUNNING}]
  BY DEF QueueOK, Typed, QueueType
<1> HIDE DEF l
<1>3. /\ QueueOK(r, top)
      /\ [r.flags EXCEPT ![t] = RUNNING] = [s.flags EXCEPT ![t] = RUNNING]
      /\ r.flags[t] # RUNNING \/ r.level[t] = l
  <2>1. CASE s.flags[t] = RUNNING /\ s.level[t] # l
    <3>1. QueueOK(r, top) /\ r.flags = [s.flags EXCEPT ![t] = SLEEPING]
      BY <2>1, RemoveOK
    <3> HIDE DEF r
    <3> QED BY <1>2, <3>1 DEF RUNNING, SLEEPING
  <2>2. CASE ~ (s.flags[t] = RUNNING /\ s.level[t] # l)
    BY <2>2
  <2> QED BY <2>1, <2>2
<1>4. Relevel(s, t, level) = [r EXCEPT !.level[t] = l]
  BY DEF Relevel, l
<1> HIDE DEF r
<1> QED
  BY <1>1, <1>3, <1>4, SetLevelOK

(* More created tasks leave the queues well-formed.                          *)
LEMMA MoreTasksOK ==
    ASSUME NEW s, NEW top, QueueOK(s, top), top + 1 \in 0 .. MAX_TASKS
    PROVE  QueueOK(s, top + 1)
<1>1. top \in 0 .. MAX_TASKS
  BY DEF QueueOK, Typed
<1>2. 0 .. top - 1 \subseteq 0 .. (top + 1) - 1
  BY <1>1
<1>3. Typed(s, top + 1)
  BY <1>2 DEF QueueOK, Typed
<1> QED
  BY <1>3 DEF QueueOK

(* task_switchsub ends on a level of the table, and on a non-empty one if    *)
(* there is any.                                                             *)
LEMMA LowestLevelOK ==
    ASSUME NEW s
    PROVE  /\ LowestLevel(s) \in Levels
           /\ NonEmpty(s) # {} => s.running[LowestLevel(s)] > 0
           /\ SwitchQuota(s) \in 0 .. LEVEL0_QUOTA
<1>1. NonEmpty(s) \subseteq Nat /\ NonEmpty(s) \subseteq Levels /\ 0 \in Levels
  BY LevelsAssumption DEF NonEmpty, Levels
<1>2. NonEmpty(s) # {} => LowestLevel(s) \in NonEmpty(s)
  <2> SUFFICES ASSUME NonEmpty(s) # {} PROVE LowestLevel(s) \in NonEmpty(s)
    OBVIOUS
  <2>1. \E l \in NonEmpty(s) : \A k \in NonEmpty(s) : l <= k
    BY <1>1, LeastNat
  <2> QED BY <2>1 DEF LowestLevel
<1>3. NonEmpty(s) = {} => LowestLevel(s) = 0
  BY DEF LowestLevel
<1>4. SwitchQuota(s) \in 0 .. LEVEL0_QUOTA
  BY QuotaAssumption DEF SwitchQuota
<1> QED
  BY <1>1, <1>2, <1>3, <1>4 DEF NonEmpty

-----------------------------------------------------------------------------
(* The inductive invariant: well-formed queues, the place of the OS loop     *)
(* agrees with who holds the CPU and what task_next returned, and a picked   *)
(* task is still runnable when task_go looks at it.                          *)
IInv ==
    /\ QueueOK(q, taskTop)
    /\ current_level \in Levels
    /\ current_level_quota \in 0 .. LEVEL0_QUOTA
    /\ ServedLevelLive
    /\ panic \in {"none", "too many tasks"}
    /\ pc \in {"boot", "next", "go", "run"}
    /\ pc = "run" => current_task_id \in Created
    /\ pc # "run" => current_task_id = -1
    /\ pc = "go" => picked \in Created /\ q.flags[picked] = RUNNING
    /\ pc # "go" => picked = -1

(* What every call that ends in task_run's tail does to the scheduler.       *)
LEMMA AddAndSwitchOK ==
    ASSUME NEW s, NEW top, QueueOK(s, top), NEW t \in 0 .. top - 1, AddAndSwitch(s, t)
    PROVE  /\ QueueOK(q', top)
           /\ q'.flags = [s.flags EXCEPT ![t] = RUNNING]
           /\ current_level' \in Levels
           /\ current_level_quota' \in 0 .. LEVEL0_QUOTA
           /\ ServedLevelLive'
           /\ panic' = panic
<1> DEFINE r == IF s.flags[t] # RUNNING THEN TaskAdd(s, t) ELSE s
<1>1. t \in Tasks
  BY TasksAssumption DEF QueueOK, Typed, Tasks
<1>2. ~ (s.flags[t] # RUNNING /\ Overflows(s, t))
  BY <1>1, RoomForSleeper
<1>3. q' = r /\ TaskSwitchsub(r) /\ panic' = panic
  BY <1>2, Zenon DEF AddAndSwitch
<1>4. QueueOK(r, top)
  BY AddOK
<1>5. r.flags = [s.flags EXCEPT ![t] = RUNNING]
  <2>1. CASE s.flags[t] # RUNNING
    BY <1>1, <2>1 DEF TaskAdd, QueueOK, Typed, QueueType
  <2>2. CASE s.flags[t] = RUNNING
    BY <1>1, <2>2 DEF QueueOK, Typed, QueueType
  <2> QED BY <2>1, <2>2
<1> HIDE DEF r
<1> QED
  BY <1>3, <1>4, <1>5, LowestLevelOK DEF TaskSwitchsub, ServedLevelLive, NonEmpty

LEMMA TaskRunOK ==
    ASSUME NEW s, NEW top, QueueOK(s, top), NEW t \in 0 .. top - 1, NEW level \in Int,
           TaskRun(s, t, level)
    PROVE  /\ QueueOK(q', top)
           /\ q'.flags = [s.flags EXCEPT ![t] = RUNNING]
           /\ current_level' \in Levels
           /\ current_level_quota' \in 0 .. LEVEL0_QUOTA
           /\ ServedLevelLive'
           /\ panic' = panic
<1> DEFINE r == Relevel(s, t, level)
<1>1. t \in Tasks
  BY TasksAssumption DEF QueueOK, Typed, Tasks
<1>2. QueueOK(r, top) /\ [r.flags EXCEPT ![t] = RUNNING] = [s.flags EXCEPT ![t] = RUNNING]
  BY <1>1, RelevelOK
<1>3. AddAndSwitch(r, t)
  BY DEF TaskRun
<1> HIDE DEF r
<1> QED
  BY <1>2, <1>3, AddAndSwitchOK

(* task_create and task_reset: a fresh entry, then task_run.                 *)
LEMMA FreshRunOK ==
    ASSUME NEW s, NEW top, QueueOK(s, top), NEW t \in 0 .. top - 1, NEW level \in Int,
           TaskRun(FreshMeta(s, t), t, level)
    PROVE  /\ QueueOK(q', top)
           /\ q'.flags = [s.flags EXCEPT ![t] = RUNNING]
           /\ current_level' \in Levels
           /\ current_level_quota' \in 0 .. LEVEL0_QUOTA
           /\ ServedLevelLive'
           /\ panic' = panic
<1> DEFINE r == FreshMeta(s, t)
<1>1. t \in Tasks
  BY TasksAssumption DEF QueueOK, Typed, Tasks
<1>2. QueueOK(r, top) /\ r.flags = [s.flags EXCEPT ![t] = SLEEPING]
  BY <1>1, FreshMetaOK
<1>3. s.flags \in [Tasks -> {UNUSED, SLEEPING, RUNNING}]
  BY DEF QueueOK, Typed, QueueType
<1> HIDE DEF r
<1>4. [r.flags EXCEPT ![t] = RUNNING] = [s.flags EXCEPT ![t] = RUNNING]
  BY <1>1, <1>2, <1>3
<1>5. TaskRun(r, t, level)
  BY DEF r
<1> QED
  BY <1>2, <1>4, <1>5, TaskRunOK

(* task_next on a non-empty list serves a runnable task and moves the cursor *)
(* inside the list.                                                          *)
LEMMA ServeOK ==
    ASSUME NEW s, NEW top, QueueOK(s, top), NEW l \in Levels, s.running[l] > 0
    PROVE  /\ QueueOK([s EXCEPT !.now[l] = Advance(s, l)], top)
           /\ [s EXCEPT !.now[l] = Advance(s, l)].flags = s.flags
           /\ [s EXCEPT !.now[l] = Advance(s, l)].running = s.running
           /\ Served(s, l) \in 0 .. top - 1
           /\ s.flags[Served(s, l)] = RUNNING
<1> DEFINE c == Advance(s, l)
           r == [s EXCEPT !.now[l] = c]
<1>1. s.now[l] \in Nat /\ s.running[l] \in Nat /\ s.now[l] \in 0 .. s.running[l] - 1
  <2>1. s.now[l] \in Nat /\ s.running[l] \in 0 .. MAX_TASKS
    BY DEF QueueOK, Typed, QueueType
  <2>2. s.now[l] < s.running[l] \/ s.now[l] = 0
    BY DEF QueueOK, Typed
  <2> QED BY <2>1, <2>2, TasksAssumption
<1>2. c \in Nat /\ (c < s.running[l] \/ c = 0)
  BY <1>1 DEF Advance
<1> HIDE DEF c
<1>3. /\ r.tasks = s.tasks /\ r.running = s.running /\ r.flags = s.flags /\ r.level = s.level
      /\ r.now = [s.now EXCEPT ![l] = c]
      /\ r \in QueueType
  BY <1>2 DEF QueueOK, Typed, QueueType
<1>4. \A k \in Levels : r.now[k] = IF k = l THEN c ELSE s.now[k]
  BY <1>3 DEF QueueOK, Typed, QueueType
<1> HIDE DEF r
<1>5. Typed(r, top)
  BY <1>2, <1>3, <1>4 DEF QueueOK, Typed
<1>6. EntriesOwned(r) /\ EntriesDistinct(r) /\ RunningListed(r)
  BY <1>3 DEF QueueOK, EntriesOwned, EntriesDistinct, RunningListed
<1>7. Served(s, l) \in 0 .. top - 1 /\ s.flags[Served(s, l)] = RUNNING
  <2>1. s.tasks[l] \in [0 .. s.running[l] - 1 -> 0 .. top - 1]
    BY DEF QueueOK, Typed
  <2> QED BY <1>1, <2>1 DEF Served, QueueOK, EntriesOwned
<1> QED
  BY <1>3, <1>5, <1>6, <1>7 DEF QueueOK, r, c

(* The search of task_next ends on a non-empty level if there is one.        *)
LEMMA SearchLevelOK ==
    ASSUME IInv, NonEmpty(q) # {}
    PROVE  SearchLevel \in Levels /\ q.running[SearchLevel] > 0
<1> DEFINE Level(step) == (current_level + step) % MAX_TASKLEVELS
           steps == {k \in 1 .. MAX_TASKLEVELS : q.running[Level(k)] > 0}
<1>1. current_level \in Levels /\ q.running[current_level] > 0
  BY DEF IInv, ServedLevelLive
<1>2. Level(MAX_TASKLEVELS) = current_level /\ MAX_TASKLEVELS \in 1 .. MAX_TASKLEVELS
  BY <1>1, LevelsAssumption DEF Levels
<1>3. steps # {} /\ steps \subseteq Nat
  BY <1>1, <1>2, LevelsAssumption
<1>4. \A k \in steps : Level(k) \in Levels
  BY <1>1, LevelsAssumption DEF Levels
<1>5. \E k \in steps : \A j \in steps : k <= j
  <2> HIDE DEF steps
  <2> QED BY <1>3, LeastNat
<1> DEFINE m == CHOOSE k \in steps : \A j \in steps : k <= j
<1>6. m \in steps
  <2> HIDE DEF steps
  <2> QED BY <1>5
<1>7. SearchLevel = Level(m)
  BY DEF SearchLevel
<1> QED
  BY <1>4, <1>6, <1>7

LEMMA InitIInv == Init => IInv
<1> SUFFICES ASSUME Init PROVE IInv
  OBVIOUS
<1>1. 0 \in Levels
  BY LevelsAssumption DEF Levels
<1>2. /\ q.running = [l \in Levels |-> 0]
      /\ q.now = [l \in Levels |-> 0]
      /\ q.tasks = [l \in Levels |-> [i \in 0 .. -1 |-> 0]]
      /\ q.flags = [t \in Tasks |-> UNUSED]
      /\ q.level = [t \in Tasks |-> 0]
  BY DEF Init, EmptyQueues
<1>3. Typed(q, taskTop)
  <2>1. [i \in 0 .. -1 |-> 0] \in [0 .. 0 - 1 -> 0 .. 0 - 1]
    OBVIOUS
  <2>2. [i \in 0 .. -1 |-> 0] \in Lists
    <3>1. 0 \in 0 .. MAX_TASKS
      BY TasksAssumption
    <3> DEFINE f == [i \in 0 .. -1 |-> 0]
    <3>2. f \in [0 .. 0 - 1 -> 0 .. 0 - 1]
      BY <2>1
    <3> HIDE DEF f
    <3>3. f \in Lists
      BY <3>1, <3>2, ListType
    <3> QED BY <3>3 DEF f
  <2>3. q \in QueueType
    BY <1>1, <2>2, TasksAssumption DEF Init, EmptyQueues, QueueType
  <2> QED BY <1>2, <2>1, <2>3, TasksAssumption DEF Init, Typed
<1>4. EntriesOwned(q) /\ EntriesDistinct(q)
  BY <1>2 DEF EntriesOwned, EntriesDistinct
<1>5. RunningListed(q)
  BY <1>2 DEF RunningListed, UNUSED, RUNNING
<1>6. ServedLevelLive
  BY <1>2 DEF ServedLevelLive, NonEmpty
<1> QED
  BY <1>1, <1>3, <1>4, <1>5, <1>6, QuotaAssumption DEF Init, IInv, QueueOK

LEMMA NextIInv == IInv /\ [Next]_vars => IInv'
<1> SUFFICES ASSUME IInv, [Next]_vars PROVE IInv'
  OBVIOUS
<1>0. QueueOK(q, taskTop) /\ taskTop \in 0 .. MAX_TASKS
  BY DEF IInv, QueueOK, Typed
<1>c. Created \subseteq Tasks
  BY <1>0, TasksAssumption DEF Created, Tasks
<1>t. \A t \in Created : t \in 0 .. taskTop - 1
  BY DEF Created
<1>1. ASSUME NEW level \in Int, taskTop + 1 \in 0 .. MAX_TASKS, TaskCreate(level),
             UNCHANGED <<current_task_id, pc, picked>>, pc # "go"
      PROVE  IInv'
  <2>1. QueueOK(q, taskTop + 1)
    BY <1>0, <1>1, MoreTasksOK
  <2>2. taskTop \in 0 .. (taskTop + 1) - 1
    BY <1>0
  <2>3. TaskRun(FreshMeta(q, taskTop), taskTop, level) /\ taskTop' = taskTop + 1
    BY <1>1 DEF TaskCreate
  <2>4. /\ QueueOK(q', taskTop + 1) /\ current_level' \in Levels
        /\ current_level_quota' \in 0 .. LEVEL0_QUOTA /\ ServedLevelLive' /\ panic' = panic
    BY <2>1, <2>2, <2>3, FreshRunOK
  <2>5. Created \subseteq Created'
    BY <1>0, <2>3 DEF Created
  <2> QED BY <1>1, <2>3, <2>4, <2>5 DEF IInv
<1>2. CASE BootCreate
  <2>1. taskTop + 1 \in 0 .. MAX_TASKS /\ BootLevels[taskTop + 1] \in Int
    BY <1>0, <1>2, BootAssumption, TasksAssumption DEF BootCreate
  <2> QED BY <1>1, <1>2, <2>1 DEF BootCreate
<1>3. CASE EnterLoop
  BY <1>3 DEF EnterLoop, IInv, Created, ServedLevelLive, NonEmpty
<1>4. ASSUME NEW level \in CallLevels, Create(level) PROVE IInv'
  <2>1. CASE taskTop >= MAX_TASKS
    BY <1>4, <2>1 DEF Create, Panic, IInv, Created, ServedLevelLive, NonEmpty
  <2>2. CASE ~ (taskTop >= MAX_TASKS)
    <3>1. taskTop + 1 \in 0 .. MAX_TASKS /\ level \in Int
      BY <1>0, <2>2, CallAssumption, TasksAssumption
    <3> QED BY <1>1, <1>4, <2>2, <3>1 DEF Create, InTask
  <2> QED BY <2>1, <2>2
<1>5. ASSUME NEW t \in Tasks, NEW level \in CallLevels, Reset(t, level) PROVE IInv'
  <2>1. level \in Int /\ t \in 0 .. taskTop - 1 /\ TaskRun(FreshMeta(q, t), t, level)
    BY <1>5, CallAssumption DEF Reset, Created
  <2>2. /\ QueueOK(q', taskTop) /\ current_level' \in Levels
        /\ current_level_quota' \in 0 .. LEVEL0_QUOTA /\ ServedLevelLive' /\ panic' = panic
    BY <1>0, <2>1, FreshRunOK
  <2> QED BY <1>5, <2>2 DEF Reset, InTask, IInv, Created
<1>6. ASSUME NEW t \in Tasks, NEW level \in CallLevels, Run(t, level) PROVE IInv'
  <2>1. level \in Int /\ t \in 0 .. taskTop - 1 /\ TaskRun(q, t, level)
    BY <1>6, CallAssumption DEF Run, Created
  <2>2. /\ QueueOK(q', taskTop) /\ current_level' \in Levels
        /\ current_level_quota' \in 0 .. LEVEL0_QUOTA /\ ServedLevelLive' /\ panic' = panic
    BY <1>0, <2>1, TaskRunOK
  <2> QED BY <1>6, <2>2 DEF Run, InTask, IInv, Created
<1>7. ASSUME NEW t \in Tasks, Sleep(t) PROVE IInv'
  <2>1. q' = TaskRemove(q, t) /\ TaskSwitchsub(q')
    BY <1>7 DEF Sleep
  <2>2. QueueOK(q', taskTop)
    <3>1. q.flags[t] = RUNNING
      BY <1>7 DEF Sleep
    <3>2. QueueOK(TaskRemove(q, t), taskTop)
      BY <1>0, <3>1, RemoveOK
    <3> QED BY <2>1, <3>2
  <2>3. /\ current_level' \in Levels /\ current_level_quota' \in 0 .. LEVEL0_QUOTA
        /\ ServedLevelLive'
    BY <2>1, LowestLevelOK DEF TaskSwitchsub, ServedLevelLive, NonEmpty
  <2> QED BY <1>7, <2>2, <2>3 DEF Sleep, InTask, GiveUp, IInv, Created
<1>8. ASSUME NEW t \in Tasks, Wake(t) PROVE IInv'
  <2>1. t \in 0 .. taskTop - 1 /\ AddAndSwitch(q, t)
    BY <1>8 DEF Wake, Created
  <2>2. /\ QueueOK(q', taskTop) /\ current_level' \in Levels
        /\ current_level_quota' \in 0 .. LEVEL0_QUOTA /\ ServedLevelLive' /\ panic' = panic
    BY <1>0, <2>1, AddAndSwitchOK
  <2> QED BY <1>8, <2>2 DEF Wake, InTask, IInv, Created
<1>9. CASE Yield
  BY <1>9 DEF Yield, InTask, GiveUp, IInv, Created, ServedLevelLive, NonEmpty
<1>10. CASE TaskNext
  <2> DEFINE l == IF StayOnLevel THEN current_level ELSE SearchLevel
             t == Served(q, l)
  <2>1. l \in Levels /\ q.running[l] > 0
    BY <1>10, SearchLevelOK DEF TaskNext, StayOnLevel, IInv
  <2>2. /\ QueueOK([q EXCEPT !.now[l] = Advance(q, l)], taskTop)
        /\ [q EXCEPT !.now[l] = Advance(q, l)].flags = q.flags
        /\ [q EXCEPT !.now[l] = Advance(q, l)].running = q.running
        /\ t \in 0 .. taskTop - 1 /\ q.flags[t] = RUNNING
    BY <1>0, <2>1, ServeOK
  <2>3. /\ q' = [q EXCEPT !.now[l] = Advance(q, l)] /\ current_level' = l
        /\ picked' = t /\ pc' = "go" /\ taskTop' = taskTop
        /\ current_task_id' = current_task_id /\ panic' = panic /\ pc = "next"
        /\ current_level_quota' = IF StayOnLevel THEN current_level_quota - 1
                                  ELSE IF l = 0 THEN LEVEL0_QUOTA - 1 ELSE 0
    BY <1>10, <2>2 DEF TaskNext, Created
  <2>4. current_level_quota' \in 0 .. LEVEL0_QUOTA
    <3> HIDE DEF l, t
    <3>1. current_level_quota \in 0 .. LEVEL0_QUOTA
      BY DEF IInv
    <3>2. StayOnLevel => current_level_quota > 0
      BY DEF StayOnLevel
    <3>3. \/ StayOnLevel /\ current_level_quota' = current_level_quota - 1
          \/ current_level_quota' = LEVEL0_QUOTA - 1
          \/ current_level_quota' = 0
      BY <2>3
    <3> QED BY <3>1, <3>2, <3>3, QuotaAssumption
  <2> HIDE DEF l, t
  <2>5. ServedLevelLive'
    BY <2>1, <2>2, <2>3 DEF ServedLevelLive
  <2> QED BY <2>1, <2>2, <2>3, <2>4, <2>5 DEF IInv, Created
<1>11. CASE Idle
  BY <1>11 DEF Idle, vars, IInv, Created, ServedLevelLive, NonEmpty
<1>12. CASE TaskGo
  BY <1>12 DEF TaskGo, IInv, Created, ServedLevelLive, NonEmpty
<1>13. CASE Halted
  BY <1>13 DEF Halted, vars, IInv, Created, ServedLevelLive, NonEmpty
<1>14. CASE UNCHANGED vars
  BY <1>14 DEF vars, IInv, Created, ServedLevelLive, NonEmpty
<1> QED
  BY <1>2, <1>3, <1>4, <1>5, <1>6, <1>7, <1>8, <1>9, <1>10, <1>11, <1>12, <1>13, <1>14
  DEF Next, QueueCall

(* IInv holds in every reachable state.                                      *)
THEOREM Inductive == Spec => []IInv
  BY InitIInv, NextIInv, PTL DEF Spec

(* IInv is as strong as the invariants it was found for.                     *)
LEMMA IInvImplies == IInv => TypeOK /\ QueuesAgree /\ NoRunQueueOverflow /\ ServedLevelLive
<1> SUFFICES ASSUME IInv PROVE TypeOK /\ QueuesAgree /\ NoRunQueueOverflow /\ ServedLevelLive
  OBVIOUS
<1>1. TypeOK
  BY DEF IInv, QueueOK, Typed, TypeOK, Created
<1>2. QueuesAgree
  <2>1. EntriesOwned(q) /\ EntriesDistinct(q) /\ RunningListed(q)
    BY DEF IInv, QueueOK
  <2>2. ASSUME NEW l \in Levels, NEW i \in 0 .. q.running[l] - 1
        PROVE  /\ q.flags[q.tasks[l][i]] = RUNNING
               /\ q.level[q.tasks[l][i]] = l
               /\ \A j \in 0 .. q.running[l] - 1 : q.tasks[l][i] = q.tasks[l][j] => i = j
    BY <2>1 DEF EntriesOwned, EntriesDistinct
  <2>3. \A t \in Tasks : q.flags[t] = RUNNING =>
          \E i \in 0 .. q.running[q.level[t]] - 1 : q.tasks[q.level[t]][i] = t
    BY <2>1, Zenon DEF RunningListed
  <2> QED BY <2>2, <2>3, Zenon DEF QueuesAgree
<1> QED
  BY <1>1, <1>2 DEF IInv, NoRunQueueOverflow

(* The variables of task.c keep their types in every reachable state.        *)
THEOREM TypeCorrect == Spec => []TypeOK
  BY Inductive, IInvImplies, PTL

(* The lists and task_meta agree in every reachable state: no sequence of    *)
(* task_create, task_reset, task_run, task_sleep and task_wake loses a       *)
(* runnable task or lists one twice.                                         *)
THEOREM QueuesAlwaysAgree == Spec => []QueuesAgree
  BY Inductive, IInvImplies, PTL

(* panic("too many runnable tasks") of task_add is unreachable.              *)
THEOREM RunQueueNeverOverflows == Spec => []NoRunQueueOverflow
  BY Inductive, IInvImplies, PTL

(* The level task_next serves is never empty while any task is runnable.     *)
THEOREM ServedLevelAlwaysLive == Spec => []ServedLevelLive
  BY Inductive, IInvImplies, PTL

(* Every call of task_next with a runnable task leads to that task getting   *)
(* the CPU.                                                                  *)
THEOREM EveryRoundServes == Spec => NoLostRound
<1>1. IInv /\ [Next]_vars => [(TaskNext => pc' = "go") /\ (TaskGo => pc' = "run")]_vars
  <2> SUFFICES ASSUME IInv
               PROVE  (TaskNext => pc' = "go") /\ (TaskGo => pc' = "run")
    OBVIOUS
  <2>1. ASSUME TaskNext PROVE pc' = "go"
    <3> DEFINE l == IF StayOnLevel THEN current_level ELSE SearchLevel
    <3>1. l \in Levels /\ q.running[l] > 0
      BY <2>1, SearchLevelOK DEF TaskNext, StayOnLevel, IInv
    <3>2. Served(q, l) \in 0 .. taskTop - 1 /\ q.flags[Served(q, l)] = RUNNING
      BY <3>1, ServeOK DEF IInv
    <3> QED BY <2>1, <3>2 DEF TaskNext, Created
  <2>2. ASSUME TaskGo PROVE pc' = "run"
    BY <2>2 DEF TaskGo, IInv
  <2> QED BY <2>1, <2>2
<1> QED
  BY <1>1, Inductive, PTL DEF Spec, NoLostRound

(* Who is next in turn on a level stays next in turn, unless it is t.        *)
SameTurn(a, b, t) ==
    \A l \in Levels : a.running[l] > 0 /\ Served(a, l) # t =>
        b.running[l] > 0 /\ Served(b, l) = Served(a, l)

LEMMA SameTurnTransitive ==
    ASSUME NEW a, NEW b, NEW c, NEW t, SameTurn(a, b, t), SameTurn(b, c, t)
    PROVE  SameTurn(a, c, t)
  BY DEF SameTurn

(* Two states of the queues with the same lists and cursors agree on turns.  *)
LEMMA SameListsSameTurn ==
    ASSUME NEW a, NEW b, NEW t, b.tasks = a.tasks, b.running = a.running, b.now = a.now
    PROVE  SameTurn(a, b, t)
  BY DEF SameTurn, Served

(* The cursor of a level whose list is not empty points into the list.       *)
LEMMA CursorInList ==
    ASSUME NEW s, NEW top, QueueOK(s, top), NEW l \in Levels, s.running[l] > 0
    PROVE  s.running[l] \in 1 .. MAX_TASKS /\ s.now[l] \in 0 .. s.running[l] - 1
<1>1. s.now[l] \in Nat /\ s.running[l] \in 0 .. MAX_TASKS
  BY DEF QueueOK, Typed, QueueType
<1>2. s.now[l] < s.running[l] \/ s.now[l] = 0
  BY DEF QueueOK, Typed
<1> QED BY <1>1, <1>2, TasksAssumption

(* task_remove moves the cursor along with the entries behind the one it     *)
(* takes out, and wraps it when the last one goes: the entry under the       *)
(* cursor is the same, unless it is the one that leaves.                     *)
LEMMA RemoveTurn ==
    ASSUME NEW s, NEW top, QueueOK(s, top), NEW t \in Tasks, s.flags[t] = RUNNING
    PROVE  SameTurn(s, TaskRemove(s, t), t)
<1> DEFINE l == s.level[t]
           n == s.running[l]
           found == {k \in 0 .. n - 1 : s.tasks[l][k] = t}
           i == CHOOSE k \in found : \A j \in found : k <= j
           r == TaskRemove(s, t)
           shrunk == [k \in 0 .. n - 2 |-> IF k < i THEN s.tasks[l][k] ELSE s.tasks[l][k + 1]]
           c == CursorAfterRemoval(s.now[l], i, n - 1)
<1>1. l \in Levels /\ n \in 0 .. MAX_TASKS
  BY DEF QueueOK, Typed, QueueType
<1>2. i \in 0 .. n - 1 /\ s.tasks[l][i] = t /\ found # {}
  <2>1. PICK k \in 0 .. n - 1 : s.tasks[l][k] = t
    BY <1>1 DEF QueueOK, RunningListed
  <2>2. found = {k}
    BY <1>1, <2>1 DEF QueueOK, EntriesDistinct
  <2>3. \A j \in found : k <= j
    BY <2>1, <2>2
  <2>4. i \in found
    <3> HIDE DEF found
    <3> QED BY <2>2, <2>3
  <2> QED BY <2>2, <2>4
<1> HIDE DEF i
<1>3. r = [s EXCEPT !.tasks[l] = shrunk, !.running[l] = n - 1, !.now[l] = c, !.flags[t] = SLEEPING]
  BY <1>2 DEF TaskRemove, i
<1> HIDE DEF r
<1>4. ASSUME NEW k \in Levels
      PROVE  /\ k = l => r.running[k] = n - 1 /\ r.tasks[k] = shrunk /\ r.now[k] = c
             /\ k # l => r.running[k] = s.running[k] /\ r.tasks[k] = s.tasks[k] /\ r.now[k] = s.now[k]
  <2> HIDE DEF shrunk, c
  <2> QED BY <1>1, <1>3 DEF QueueOK, Typed, QueueType
<1> SUFFICES ASSUME NEW k \in Levels, s.running[k] > 0, Served(s, k) # t
             PROVE  r.running[k] > 0 /\ Served(r, k) = Served(s, k)
  BY DEF SameTurn, r
<1>5. CASE k # l
  BY <1>4, <1>5 DEF Served
<1>6. CASE k = l
  <2> DEFINE m == s.now[l]
  <2>1. m \in 0 .. n - 1 /\ n \in Nat /\ m # i
    <3>1. n \in 1 .. MAX_TASKS /\ m \in 0 .. n - 1
      BY <1>1, <1>6, CursorInList
    <3> QED BY <1>2, <1>6, <3>1, TasksAssumption DEF Served
  <2>2. Served(s, k) = s.tasks[l][m] /\ Served(r, k) = shrunk[c] /\ r.running[k] = n - 1
    BY <1>4, <1>6 DEF Served
  <2> HIDE DEF m, n, l
  <2>3. i \in Nat /\ i <= n - 1
    BY <1>2, <2>1
  <2>4. n - 1 > 0
    BY <1>2, <2>1, <2>3
  <2>5. CASE i < m
    <3>1. c = m - 1
      BY <2>1, <2>3, <2>5 DEF CursorAfterRemoval, m
    <3>2. m - 1 \in 0 .. n - 2 /\ ~ (m - 1 < i) /\ (m - 1) + 1 = m
      BY <2>1, <2>3, <2>5
    <3>3. shrunk[m - 1] = s.tasks[l][m]
      BY <3>2
    <3> QED BY <2>2, <2>4, <3>1, <3>3
  <2>6. CASE m < i
    <3>1. c = m /\ m \in 0 .. n - 2
      BY <2>1, <2>3, <2>6 DEF CursorAfterRemoval, m
    <3>2. shrunk[m] = s.tasks[l][m]
      BY <2>6, <3>1
    <3> QED BY <2>2, <2>4, <3>1, <3>2
  <2> QED BY <2>1, <2>3, <2>5, <2>6
<1> QED BY <1>5, <1>6

(* task_add puts its task behind the others: no cursor reaches it earlier    *)
(* than before.                                                              *)
LEMMA AddTurn ==
    ASSUME NEW s, NEW top, QueueOK(s, top), NEW t \in Tasks
    PROVE  SameTurn(s, TaskAdd(s, t), t)
<1> DEFINE l == s.level[t]
           n == s.running[l]
           r == TaskAdd(s, t)
           grown == [i \in 0 .. n |-> IF i = n THEN t ELSE s.tasks[l][i]]
<1>1. l \in Levels /\ n \in 0 .. MAX_TASKS
  BY DEF QueueOK, Typed, QueueType
<1>2. r = [s EXCEPT !.tasks[l] = grown, !.running[l] = n + 1, !.flags[t] = RUNNING]
  BY DEF TaskAdd
<1> HIDE DEF r
<1>3. ASSUME NEW k \in Levels
      PROVE  /\ r.now[k] = s.now[k]
             /\ k = l => r.running[k] = n + 1 /\ r.tasks[k] = grown
             /\ k # l => r.running[k] = s.running[k] /\ r.tasks[k] = s.tasks[k]
  <2> HIDE DEF grown
  <2> QED BY <1>1, <1>2 DEF QueueOK, Typed, QueueType
<1> SUFFICES ASSUME NEW k \in Levels, s.running[k] > 0, Served(s, k) # t
             PROVE  r.running[k] > 0 /\ Served(r, k) = Served(s, k)
  BY DEF SameTurn, r
<1>4. CASE k # l
  BY <1>3, <1>4 DEF Served
<1>5. CASE k = l
  <2> DEFINE m == s.now[l]
  <2>1. m \in 0 .. n - 1 /\ n \in Nat
    <3>1. n \in 1 .. MAX_TASKS /\ m \in 0 .. n - 1
      BY <1>1, <1>5, CursorInList
    <3> QED BY <3>1, TasksAssumption
  <2>2. Served(s, k) = s.tasks[l][m] /\ Served(r, k) = grown[m] /\ r.running[k] = n + 1
    BY <1>3, <1>5 DEF Served
  <2> HIDE DEF m, n, l
  <2> QED BY <2>1, <2>2
<1> QED BY <1>4, <1>5

(* A fresh task_meta entry and a change of level take at most t out of a     *)
(* list.                                                                     *)
LEMMA FreshMetaTurn ==
    ASSUME NEW s, NEW top, QueueOK(s, top), NEW t \in Tasks
    PROVE  SameTurn(s, FreshMeta(s, t), t)
<1> DEFINE r == IF s.flags[t] = RUNNING THEN TaskRemove(s, t) ELSE s
<1>1. SameTurn(s, r, t) /\ QueueOK(r, top)
  <2>1. CASE s.flags[t] = RUNNING
    BY <2>1, RemoveTurn, RemoveOK
  <2>2. CASE s.flags[t] # RUNNING
    BY <2>2 DEF SameTurn
  <2> QED BY <2>1, <2>2
<1>2. FreshMeta(s, t) = [r EXCEPT !.flags[t] = SLEEPING, !.level[t] = 0]
  BY DEF FreshMeta
<1> DEFINE f == FreshMeta(s, t)
<1> HIDE DEF r
<1>3. f.tasks = r.tasks /\ f.running = r.running /\ f.now = r.now
  BY <1>1, <1>2 DEF QueueOK, Typed, QueueType
<1> HIDE DEF f
<1>4. SameTurn(r, f, t)
  BY <1>3, SameListsSameTurn
<1> QED BY <1>1, <1>4, SameTurnTransitive DEF f

LEMMA RelevelTurn ==
    ASSUME NEW s, NEW top, QueueOK(s, top), NEW t \in Tasks, NEW level \in Int
    PROVE  SameTurn(s, Relevel(s, t, level), t)
<1> DEFINE l == ClampLevel(s, t, level)
           r == IF s.flags[t] = RUNNING /\ s.level[t] # l THEN TaskRemove(s, t) ELSE s
           f == Relevel(s, t, level)
<1>1. SameTurn(s, r, t) /\ QueueOK(r, top)
  <2> HIDE DEF l
  <2>1. CASE s.flags[t] = RUNNING /\ s.level[t] # l
    BY <2>1, RemoveTurn, RemoveOK
  <2>2. CASE ~ (s.flags[t] = RUNNING /\ s.level[t] # l)
    BY <2>2 DEF SameTurn
  <2> QED BY <2>1, <2>2
<1>2. f = [r EXCEPT !.level[t] = l]
  BY DEF Relevel
<1> HIDE DEF r, f, l
<1>3. f.tasks = r.tasks /\ f.running = r.running /\ f.now = r.now
  BY <1>1, <1>2 DEF QueueOK, Typed, QueueType
<1>4. SameTurn(r, f, t)
  BY <1>3, SameListsSameTurn
<1> QED BY <1>1, <1>4, SameTurnTransitive DEF f

LEMMA AddAndSwitchTurn ==
    ASSUME NEW s, NEW top, QueueOK(s, top), NEW t \in 0 .. top - 1, AddAndSwitch(s, t)
    PROVE  SameTurn(s, q', t)
<1> DEFINE r == IF s.flags[t] # RUNNING THEN TaskAdd(s, t) ELSE s
<1>1. t \in Tasks
  BY TasksAssumption DEF QueueOK, Typed, Tasks
<1>2. ~ (s.flags[t] # RUNNING /\ Overflows(s, t))
  BY <1>1, RoomForSleeper
<1>3. q' = r
  BY <1>2, Zenon DEF AddAndSwitch
<1>4. SameTurn(s, r, t)
  <2>1. CASE s.flags[t] # RUNNING
    BY <1>1, <2>1, AddTurn
  <2>2. CASE s.flags[t] = RUNNING
    BY <2>2 DEF SameTurn
  <2> QED BY <2>1, <2>2
<1> QED BY <1>3, <1>4

LEMMA TaskRunTurn ==
    ASSUME NEW s, NEW top, QueueOK(s, top), NEW t \in 0 .. top - 1, NEW level \in Int,
           TaskRun(s, t, level)
    PROVE  SameTurn(s, q', t)
<1> DEFINE r == Relevel(s, t, level)
<1>1. t \in Tasks
  BY TasksAssumption DEF QueueOK, Typed, Tasks
<1>2. QueueOK(r, top) /\ SameTurn(s, r, t)
  BY <1>1, RelevelOK, RelevelTurn
<1>3. AddAndSwitch(r, t)
  BY DEF TaskRun
<1> HIDE DEF r
<1>4. SameTurn(r, q', t)
  BY <1>2, <1>3, AddAndSwitchTurn
<1> QED BY <1>2, <1>4, SameTurnTransitive

(* A task that sleeps, is woken, moved or reset does not cost another task   *)
(* its turn, whatever the lists and the cursors are.                         *)
THEOREM TurnsAreKept == Spec => TurnKept
<1>1. ASSUME IInv,
             NEW t \in Tasks, NEW l \in NonEmpty(q), Served(q, l) # t,
             Sleep(t) \/ Wake(t) \/ \E level \in CallLevels : Reset(t, level) \/ Run(t, level)
      PROVE  Served(q', l) = Served(q, l)
  <2>1. QueueOK(q, taskTop)
    BY <1>1 DEF IInv
  <2>2. SameTurn(q, q', t)
    <3>1. CASE Sleep(t)
      BY <2>1, <3>1, RemoveTurn DEF Sleep
    <3>2. CASE Wake(t)
      <4>1. t \in 0 .. taskTop - 1 /\ AddAndSwitch(q, t)
        BY <3>2 DEF Wake, Created
      <4> QED BY <2>1, <4>1, AddAndSwitchTurn
    <3>3. ASSUME NEW level \in CallLevels, Reset(t, level) PROVE SameTurn(q, q', t)
      <4> DEFINE r == FreshMeta(q, t)
      <4>1. t \in 0 .. taskTop - 1 /\ TaskRun(r, t, level) /\ level \in Int
        BY <3>3, CallAssumption DEF Reset, Created
      <4>2. QueueOK(r, taskTop) /\ SameTurn(q, r, t)
        BY <2>1, FreshMetaOK, FreshMetaTurn
      <4> HIDE DEF r
      <4>3. SameTurn(r, q', t)
        BY <4>1, <4>2, TaskRunTurn
      <4> QED BY <4>2, <4>3, SameTurnTransitive
    <3>4. ASSUME NEW level \in CallLevels, Run(t, level) PROVE SameTurn(q, q', t)
      <4>1. t \in 0 .. taskTop - 1 /\ TaskRun(q, t, level) /\ level \in Int
        BY <3>4, CallAssumption DEF Run, Created
      <4> QED BY <2>1, <4>1, TaskRunTurn
    <3> QED BY <1>1, <3>1, <3>2, <3>3, <3>4
  <2> QED BY <1>1, <2>2 DEF SameTurn, NonEmpty
<1> DEFINE Kept ==
      \A t \in Tasks :
          (Sleep(t) \/ Wake(t) \/ \E level \in CallLevels : Reset(t, level) \/ Run(t, level))
          => \A l \in NonEmpty(q) : Served(q, l) # t => Served(q', l) = Served(q, l)
<1>2. IInv => Kept
  BY <1>1
<1> HIDE DEF Kept
<1>3. IInv /\ [Next]_vars => [Kept]_vars
  BY <1>2
<1>4. Spec => [][Kept]_vars
  BY <1>3, Inductive, PTL DEF Spec
<1> QED
  BY <1>4 DEF TurnKept, Kept

-----------------------------------------------------------------------------
(* Every step of the scheduler is a step of the pool of runnable tasks that  *)
(* task.c promises, or changes neither the pool nor the holder of the CPU.   *)

PoolRunnable == {t \in Tasks : q.flags[t] = RUNNING}

(* A call that makes t runnable admits it, or leaves the pool as it was.     *)
LEMMA AdmitStep ==
    ASSUME IInv, NEW t \in Tasks, q'.flags = [q.flags EXCEPT ![t] = RUNNING],
           current_task_id' = current_task_id
    PROVE  [Pool!Next]_(Pool!vars)
<1>1. q.flags \in [Tasks -> {UNUSED, SLEEPING, RUNNING}]
  BY DEF IInv, QueueOK, Typed, QueueType
<1>2. PoolRunnable' = PoolRunnable \cup {t}
  BY <1>1 DEF PoolRunnable
<1>3. CASE t \in PoolRunnable
  BY <1>2, <1>3 DEF PoolRunnable, Pool!vars
<1>4. CASE t \notin PoolRunnable
  <2>1. Pool!Admit(t)
    BY <1>2, <1>4 DEF PoolRunnable, Pool!Admit
  <2> QED BY <2>1 DEF Pool!Next
<1> QED
  BY <1>3, <1>4

LEMMA PoolStep == IInv /\ [Next]_vars => [Pool!Next]_(Pool!vars)
<1> SUFFICES ASSUME IInv, [Next]_vars PROVE [Pool!Next]_(Pool!vars)
  OBVIOUS
<1>0. QueueOK(q, taskTop) /\ taskTop \in 0 .. MAX_TASKS
  BY DEF IInv, QueueOK, Typed
<1>f. q.flags \in [Tasks -> {UNUSED, SLEEPING, RUNNING}]
  BY DEF IInv, QueueOK, Typed, QueueType
<1>1. ASSUME q'.flags = q.flags, current_task_id' = current_task_id
      PROVE  UNCHANGED Pool!vars
  BY <1>1 DEF Pool!vars
<1>2. ASSUME NEW level \in Int, taskTop + 1 \in 0 .. MAX_TASKS, TaskCreate(level),
             current_task_id' = current_task_id
      PROVE  [Pool!Next]_(Pool!vars)
  <2>1. QueueOK(q, taskTop + 1) /\ taskTop \in 0 .. (taskTop + 1) - 1 /\ taskTop \in Tasks
    BY <1>0, <1>2, MoreTasksOK, TasksAssumption DEF Tasks
  <2>2. q'.flags = [q.flags EXCEPT ![taskTop] = RUNNING]
    BY <1>2, <2>1, FreshRunOK DEF TaskCreate
  <2> QED BY <1>2, <2>1, <2>2, AdmitStep
<1>3. CASE BootCreate
  <2>1. taskTop + 1 \in 0 .. MAX_TASKS /\ BootLevels[taskTop + 1] \in Int
    BY <1>0, <1>3, BootAssumption, TasksAssumption DEF BootCreate
  <2> QED BY <1>2, <1>3, <2>1 DEF BootCreate
<1>4. CASE EnterLoop
  BY <1>1, <1>4 DEF EnterLoop
<1>5. ASSUME NEW level \in CallLevels, Create(level) PROVE [Pool!Next]_(Pool!vars)
  <2>1. CASE taskTop >= MAX_TASKS
    BY <1>1, <1>5, <2>1 DEF Create, Panic
  <2>2. CASE ~ (taskTop >= MAX_TASKS)
    <3>1. taskTop + 1 \in 0 .. MAX_TASKS /\ level \in Int
      BY <1>0, <2>2, CallAssumption, TasksAssumption
    <3> QED BY <1>2, <1>5, <2>2, <3>1 DEF Create
  <2> QED BY <2>1, <2>2
<1>6. ASSUME NEW t \in Tasks, NEW level \in CallLevels, Reset(t, level) \/ Run(t, level)
      PROVE  [Pool!Next]_(Pool!vars)
  <2>1. level \in Int /\ (Reset(t, level) \/ Run(t, level) => t \in 0 .. taskTop - 1)
    BY CallAssumption DEF Reset, Run, Created
  <2>2. Reset(t, level) => q'.flags = [q.flags EXCEPT ![t] = RUNNING]
    BY <1>0, <2>1, FreshRunOK DEF Reset
  <2>3. Run(t, level) => q'.flags = [q.flags EXCEPT ![t] = RUNNING]
    BY <1>0, <2>1, TaskRunOK DEF Run
  <2> QED BY <1>6, <2>2, <2>3, AdmitStep DEF Reset, Run
<1>7. ASSUME NEW t \in Tasks, Wake(t) PROVE [Pool!Next]_(Pool!vars)
  <2>1. q'.flags = [q.flags EXCEPT ![t] = RUNNING]
    BY <1>0, <1>7, AddAndSwitchOK DEF Wake, Created
  <2> QED BY <1>7, <2>1, AdmitStep DEF Wake
<1>8. ASSUME NEW t \in Tasks, Sleep(t) PROVE [Pool!Next]_(Pool!vars)
  <2>1. q.flags[t] = RUNNING /\ q' = TaskRemove(q, t)
    BY <1>8 DEF Sleep
  <2>2. q'.flags = [q.flags EXCEPT ![t] = SLEEPING]
    BY <1>0, <2>1, RemoveOK
  <2>3. PoolRunnable' = PoolRunnable \ {t} /\ t \in PoolRunnable
    BY <1>f, <2>1, <2>2 DEF PoolRunnable, RUNNING, SLEEPING
  <2>4. current_task_id # -1
    BY <1>8 DEF Sleep, InTask, IInv, Created
  <2>5. current_task_id' = IF t = current_task_id THEN -1 ELSE current_task_id
    BY <1>8 DEF Sleep, GiveUp
  <2>6. Pool!Block(t)
    BY <2>3, <2>4, <2>5 DEF Pool!Block, PoolRunnable
  <2> QED BY <2>6 DEF Pool!Next
<1>9. CASE Yield
  <2>1. current_task_id # -1 /\ current_task_id' = -1 /\ q' = q
    BY <1>9 DEF Yield, InTask, GiveUp, Created
  <2>2. Pool!Release
    BY <2>1 DEF Pool!Release
  <2> QED BY <2>2 DEF Pool!Next
<1>10. CASE TaskNext
  <2> DEFINE l == IF StayOnLevel THEN current_level ELSE SearchLevel
  <2>1. l \in Levels /\ q.running[l] > 0
    BY <1>10, SearchLevelOK DEF TaskNext, StayOnLevel, IInv
  <2>2. [q EXCEPT !.now[l] = Advance(q, l)].flags = q.flags
    BY <1>0, <2>1, ServeOK
  <2>3. q'.flags = q.flags /\ current_task_id' = current_task_id
    BY <1>10, <2>2 DEF TaskNext
  <2> QED BY <1>1, <2>3
<1>11. CASE TaskGo
  <2>1. /\ picked \in Tasks /\ q.flags[picked] = RUNNING /\ q' = q
        /\ current_task_id = -1 /\ current_task_id' = picked
    BY <1>0, <1>11, TasksAssumption DEF TaskGo, IInv, Created, Tasks
  <2>2. Pool!Dispatch(picked)
    BY <2>1 DEF Pool!Dispatch
  <2> QED BY <2>1, <2>2 DEF Pool!Next
<1>12. CASE Idle \/ Halted \/ UNCHANGED vars
  BY <1>1, <1>12 DEF Idle, Halted, vars
<1> QED
  BY <1>3, <1>4, <1>5, <1>6, <1>7, <1>8, <1>9, <1>10, <1>11, <1>12 DEF Next, QueueCall

(* task.c with the OS loop implements the pool of runnable tasks.            *)
THEOREM ImplementsPool == Spec => PoolSpec
<1>1. Init => Pool!Init
  BY DEF Init, EmptyQueues, Pool!Init, UNUSED, RUNNING
<1> QED
  BY <1>1, PoolStep, Inductive, PTL DEF Spec, PoolSpec, Pool!Spec
=============================================================================
