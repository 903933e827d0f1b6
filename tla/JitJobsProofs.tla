--------------------------- MODULE JitJobsProofs ---------------------------
(***************************************************************************)
(* Proofs about JitJobs, for any number of windows, workers, slots, blocks *)
(* and descriptors, with and without the timer trap.                       *)
(*                                                                         *)
(* The operators of JitJobs map a job table to the next one and are        *)
(* composed, so the invariant is a predicate on a table st, together with  *)
(* the next id n, the task c on the CPU and the history bit tn.            *)
(***************************************************************************)
EXTENDS JitJobs, FiniteSetTheorems, WellFoundedInduction, TLAPS

(* A non-empty set of naturals has a least element. *)
LEMMA LeastNat ==
    ASSUME NEW T, T \subseteq Nat, T # {}
    PROVE  \E x \in T : \A y \in T : x <= y
<1> DEFINE Less == OpToRel(<, Nat)
<1>1. IsWellFoundedOn(Less, Nat)
  BY NatLessThanWellFounded, Zenon
<1>2. \A x, y \in Nat : y < x => <<y, x>> \in Less
  BY DEF OpToRel
<1> HIDE DEF Less
<1>3. PICK x \in T : \A y \in T : ~ (<<y, x>> \in Less)
  BY <1>1, WFMin, Zenon
<1>4. ASSUME NEW y \in T PROVE x <= y
  <2>1. x \in Nat /\ y \in Nat
    OBVIOUS
  <2>2. ~ (y < x)
    BY <1>2, <1>3, <2>1
  <2> QED
    BY <2>1, <2>2
<1> QED
  BY <1>4

InMain == {"main", "kmalloc", "open"}

(* What a kernel call may have in hand: a block or a descriptor.             *)
Names == Ptrs \cup Int

Job ==
    [id : Nat, state : {EMPTY, "compiling", READY, RUNNING, DONE, FAILED}, bg : BOOLEAN,
     owner : Int, task : Int, waiter : Int, cancel : BOOLEAN, exit : Int, code : BOOLEAN,
     kptrs : SUBSET Ptrs, fds : SUBSET Names]

Place ==
    [at : {"shell", "wait", "entry", "trampoline"} \cup InMain, slot : Int, id : Nat,
     got : Ptrs \cup Int]

(* A FILE block of fopen with the descriptor in it.                          *)
Stream == [block : Ptrs, fd : Int]

(* The tables of places: task_create only ever adds the next task number.    *)
Places == UNION { [0 .. k - 1 -> Place] : k \in Nat }

Table ==
    [jobs : [Slots -> Job], runnable : SUBSET Int, at : Places,
     heap : SUBSET Ptrs, files : SUBSET Int, loose : SUBSET Int, streams : SUBSET Stream]

JobTasksOf(st) == DOMAIN st.at \ Workers

(* Workers and job tasks do not mix, and tasks and slots point at each other. *)
Structure(st, c) ==
    /\ Workers \subseteq DOMAIN st.at
    /\ st.runnable \subseteq DOMAIN st.at
    /\ c \in DOMAIN st.at \cup {-1}
    /\ \A t \in Workers :
          st.at[t].at = "shell" \/ (st.at[t].at = "wait" /\ st.at[t].slot \in Slots)
    /\ \A t \in JobTasksOf(st) :
          /\ st.at[t].at \in {"entry", "trampoline"} \cup InMain
          /\ st.at[t].slot \in Slots /\ st.jobs[st.at[t].slot].task = t
    /\ \A i \in Slots :
          LET j == st.jobs[i] IN
          /\ j.task = -1 \/ (j.task \in JobTasksOf(st) /\ st.at[j.task].slot = i)
          /\ j.waiter \in Workers \cup {-1}

(* What the state of a slot says about its task, its code and what it holds; *)
(* between two steps no slot is being compiled.                              *)
Phases(st) ==
    /\ \A i \in Slots :
          LET j == st.jobs[i] IN
          /\ j.state # "compiling"
          /\ j.state \in Live => j.task # -1 /\ j.task \in st.runnable /\ j.code
          /\ j.state = READY => st.at[j.task].at = "entry" /\ j.kptrs = {} /\ j.fds = {}
          /\ j.state = RUNNING => st.at[j.task].at \in InMain /\ ~ j.cancel
          /\ j.state \notin Live => j.kptrs = {} /\ j.fds = {} /\ ~ j.code
    /\ \A t \in JobTasksOf(st) : st.at[t].at \in InMain =>
          /\ st.jobs[st.at[t].slot].state = RUNNING
          /\ st.jobs[st.at[t].slot].id = st.at[t].id

(* A worker in the wait loop is the waiter of the job it waits for as long   *)
(* as that job is in the slot, and is scheduled once the job has ended.      *)
Waits(st, n) ==
    /\ n \in Nat /\ \A i \in Slots : st.jobs[i].id < n
    /\ \A t \in Workers : st.at[t].at = "wait" =>
          LET j == st.jobs[st.at[t].slot] IN
          /\ st.at[t].id < n
          /\ j.id = st.at[t].id =>
                j.waiter = t /\ ~ j.bg /\ (t \in st.runnable \/ j.state \in Live)

(* A task between an allocation and its entry in the job's table holds the   *)
(* CPU.                                                                      *)
Hands(st, c) ==
    \A t \in JobTasksOf(st) : st.at[t].at \in {"kmalloc", "open"} => c = t

InHand(st, where, p) == \E t \in JobTasksOf(st) : st.at[t].at = where /\ st.at[t].got = p

(* Every block has one holder.                                               *)
Blocks(st, tn) ==
    /\ \A i \in Slots : st.jobs[i].kptrs \subseteq st.heap
    /\ \A i, k \in Slots : i # k => st.jobs[i].kptrs \cap st.jobs[k].kptrs = {}
    /\ \A t \in JobTasksOf(st) : st.at[t].at = "kmalloc" =>
          st.at[t].got \in st.heap /\ \A i \in Slots : st.at[t].got \notin st.jobs[i].kptrs
    /\ ~ tn => \A p \in st.heap :
          (\E i \in Slots : p \in st.jobs[i].kptrs) \/ InHand(st, "kmalloc", p)

Files(st, tn) ==
    ~ tn => \A p \in st.files :
        (\E i \in Slots : p \in st.jobs[i].fds) \/ InHand(st, "open", p)

Good(st, n, c, tn) ==
    /\ st \in Table
    /\ Structure(st, c) /\ Phases(st) /\ Waits(st, n) /\ Hands(st, c)
    /\ Blocks(st, tn) /\ Files(st, tn)

IInv == Good(s, jit_next_id, cpu, torn)

-----------------------------------------------------------------------------
(* Numbers and tables.                                                       *)

LEMMA Numbers ==
    /\ Slots \subseteq Nat /\ Workers \subseteq Nat /\ -1 \notin Slots /\ -1 \notin Workers
    /\ \A win \in Windows : win \in Int /\ WorkerOf(win) \in Workers
<1>1. Slots \subseteq Nat /\ Workers \subseteq Nat
  BY DEF Slots, Workers
<1>2. ASSUME NEW win \in Windows PROVE win \in Int /\ WorkerOf(win) \in Workers
  <2>1. win \in Nat
    BY DEF Windows
  <2> QED BY <2>1, WorkersAssumption DEF WorkerOf, Workers
<1> QED
  BY <1>1, <1>2

LEMMA WorkerNumber ==
    ASSUME NEW t \in Workers
    PROVE  t \in Nat /\ t \in Int /\ t >= 0 /\ t # -1
  BY DEF Workers

LEMMA SlotNumber ==
    ASSUME NEW i \in Slots
    PROVE  i \in Nat /\ i \in Int
  BY DEF Slots

LEMMA PlacesShape ==
    ASSUME NEW f \in Places
    PROVE  \E k \in Nat : DOMAIN f = 0 .. k - 1 /\ f \in [0 .. k - 1 -> Place]
<1>1. PICK k \in Nat : f \in [0 .. k - 1 -> Place]
  BY DEF Places
<1> QED
  BY <1>1

LEMMA PlacesKept ==
    ASSUME NEW f \in Places, NEW g \in [DOMAIN f -> Place]
    PROVE  g \in Places
<1>1. PICK k \in Nat : DOMAIN f = 0 .. k - 1
  BY PlacesShape
<1> QED
  BY <1>1 DEF Places

LEMMA TableFields ==
    ASSUME NEW st \in Table
    PROVE  /\ st.jobs \in [Slots -> Job] /\ st.at \in [DOMAIN st.at -> Place] /\ st.at \in Places
           /\ st.runnable \subseteq Int /\ st.heap \subseteq Ptrs /\ st.files \subseteq Int
           /\ st.loose \subseteq Int /\ st.streams \subseteq Stream
           /\ DOMAIN st.at \subseteq Nat
<1>1. st.at \in Places
  BY DEF Table
<1>2. PICK k \in Nat : DOMAIN st.at = 0 .. k - 1 /\ st.at \in [0 .. k - 1 -> Place]
  BY <1>1, PlacesShape
<1> QED
  BY <1>1, <1>2 DEF Table

(* appfs_close of forgotten descriptors touches only the table of files.     *)
Forgotten(st, r, D) ==
    /\ r \in Table /\ r.jobs = st.jobs /\ r.at = st.at /\ r.runnable = st.runnable
    /\ r.heap = st.heap /\ r.files = st.files \ D

LEMMA ForgottenFields ==
    ASSUME NEW st, st \in Table, NEW D, NEW kept, NEW r, r = CloseForgotten(st, D, kept)
    PROVE  Forgotten(st, r, D)
<1> DEFINE l == (st.loose \ (D \ kept)) \cup (st.files \cap D \cap kept)
<1>1. l \in SUBSET Int
  BY TableFields
<1>2. r = [st EXCEPT !.files = @ \ D, !.loose = l]
  BY DEF CloseForgotten
<1> HIDE DEF l
<1> QED
  BY <1>1, <1>2 DEF Table, Forgotten

LEMMA TopOf ==
    ASSUME NEW st \in Table
    PROVE  TaskTop(st) \in Nat /\ DOMAIN st.at = 0 .. TaskTop(st) - 1
<1>1. PICK k \in Nat : DOMAIN st.at = 0 .. k - 1
  BY PlacesShape DEF Table
<1>2. Cardinality(0 .. k - 1) = k
  BY <1>1, FS_Interval
<1> QED
  BY <1>1, <1>2 DEF TaskTop

LEMMA FirstFree ==
    ASSUME NEW st, FreeSlots(st) # {}
    PROVE  /\ Min(FreeSlots(st)) \in Slots
           /\ st.jobs[Min(FreeSlots(st))].state \in {EMPTY, DONE, FAILED}
<1>1. FreeSlots(st) \subseteq Nat
  BY Numbers DEF FreeSlots
<1>2. Min(FreeSlots(st)) \in FreeSlots(st)
  BY <1>1, LeastNat DEF Min
<1> QED
  BY <1>2 DEF FreeSlots

LEMMA StateNames ==
    /\ EMPTY = "empty" /\ READY = "ready" /\ RUNNING = "running" /\ DONE = "done"
    /\ FAILED = "failed" /\ Live = {"ready", "running"}
  BY DEF EMPTY, READY, RUNNING, DONE, FAILED, Live

-----------------------------------------------------------------------------
(* Scheduling: waking a task, putting one to sleep, giving up the CPU.       *)

LEMMA WakeGood ==
    ASSUME NEW st, NEW n, NEW c, NEW tn, Good(st, n, c, tn), NEW W, W \subseteq DOMAIN st.at
    PROVE  Good([st EXCEPT !.runnable = @ \cup W], n, c, tn)
<1> DEFINE r == [st EXCEPT !.runnable = @ \cup W]
<1>1. st \in Table /\ DOMAIN st.at \subseteq Int
  BY TableFields DEF Good
<1>2. /\ r.jobs = st.jobs /\ r.at = st.at /\ r.heap = st.heap /\ r.files = st.files
      /\ r.runnable = st.runnable \cup W /\ r \in Table
  BY <1>1 DEF Table
<1> HIDE DEF r
<1>3. Structure(r, c) /\ Phases(r) /\ Waits(r, n)
  <2>1. Structure(r, c)
    BY <1>2 DEF Good, Structure, JobTasksOf
  <2>2. Phases(r)
    BY <1>2 DEF Good, Phases, JobTasksOf
  <2>3. Waits(r, n)
    BY <1>2 DEF Good, Waits
  <2> QED BY <2>1, <2>2, <2>3
<1>4. Hands(r, c) /\ Blocks(r, tn) /\ Files(r, tn)
  BY <1>2 DEF Good, Hands, Blocks, Files, InHand, JobTasksOf
<1> QED
  BY <1>2, <1>3, <1>4 DEF Good, r

(* A worker may go to sleep in its shell, or in the wait loop beside a live  *)
(* job; whoever gives up the CPU has nothing in hand.                        *)
LEMMA SleepGood ==
    ASSUME NEW st, NEW n, NEW c, NEW tn, Good(st, n, c, tn), NEW t \in Workers,
           st.at[t].at = "wait" => st.jobs[st.at[t].slot].state \in Live,
           c \notin JobTasksOf(st)
    PROVE  Good(Block(st, t), n, -1, tn)
<1> DEFINE r == Block(st, t)
<1>1. st \in Table
  BY DEF Good
<1>2. /\ r.jobs = st.jobs /\ r.at = st.at /\ r.heap = st.heap /\ r.files = st.files
      /\ r.runnable = st.runnable \ {t} /\ r \in Table
  BY <1>1 DEF Table, Block
<1> HIDE DEF r
<1>3. \A i \in Slots : st.jobs[i].task # t
  BY Numbers DEF Good, Structure, JobTasksOf
<1>4. Structure(r, -1) /\ Phases(r)
  BY <1>2, <1>3 DEF Good, Structure, Phases, JobTasksOf
<1>5. Waits(r, n)
  BY <1>2 DEF Good, Waits
<1>6. Hands(r, -1) /\ Blocks(r, tn) /\ Files(r, tn)
  BY <1>2 DEF Good, Hands, Blocks, Files, InHand, JobTasksOf
<1> QED
  BY <1>2, <1>4, <1>5, <1>6 DEF Good, r

(* The CPU changes hands when nobody has anything in hand.                   *)
LEMMA CpuGood ==
    ASSUME NEW st, NEW n, NEW c, NEW tn, Good(st, n, c, tn),
           NEW d \in DOMAIN st.at \cup {-1},
           \A t \in JobTasksOf(st) : st.at[t].at \in {"kmalloc", "open"} => t # c
    PROVE  Good(st, n, d, tn)
  BY DEF Good, Structure, Hands

-----------------------------------------------------------------------------
(* Ending jobs: kill and the cancel paths, for a set C of slots and a set W  *)
(* of waiters woken.                                                         *)

EndJobs(st, C, rc, kept) == Cleanup(Fail(StopTasks(st, C), C, rc), C, kept)

EndSlots(st, C, rc, W, kept) == [EndJobs(st, C, rc, kept) EXCEPT !.runnable = @ \cup W]

EndedJob(j, rc) ==
    [j EXCEPT !.cancel = TRUE, !.state = FAILED, !.exit = rc,
              !.fds = {}, !.kptrs = {}, !.code = FALSE]

TasksOf(st, C) == { st.jobs[i].task : i \in C } \ {-1}

LEMMA EndedFields ==
    ASSUME NEW j \in Job, NEW rc \in Int
    PROVE  /\ EndedJob(j, rc) \in Job /\ EndedJob(j, rc).state = FAILED
           /\ EndedJob(j, rc).fds = {} /\ EndedJob(j, rc).kptrs = {}
           /\ EndedJob(j, rc).code = FALSE /\ EndedJob(j, rc).id = j.id
           /\ EndedJob(j, rc).bg = j.bg /\ EndedJob(j, rc).task = j.task
           /\ EndedJob(j, rc).waiter = j.waiter
  BY DEF EndedJob, Job

EndedJobs(st, C, rc) ==
    [i \in Slots |-> IF i \in C THEN EndedJob(st.jobs[i], rc) ELSE st.jobs[i]]

EndedPlaces(st, C) ==
    [t \in DOMAIN st.at |-> IF t \in TasksOf(st, C)
        THEN Entry(CHOOSE i \in C : st.jobs[i].task = t) ELSE st.at[t]]

EndsIn(st, e, C, rc) ==
    /\ e.jobs = EndedJobs(st, C, rc)
    /\ e.at = EndedPlaces(st, C)
    /\ e.runnable = st.runnable \ TasksOf(st, C)
    /\ e.heap = st.heap \ UNION { st.jobs[i].kptrs : i \in C }
    /\ e.files = st.files \ UNION { st.jobs[i].fds : i \in C }
    /\ e \in Table

LEMMA EndFields ==
    ASSUME NEW st, st \in Table, NEW C, C \subseteq Slots, NEW rc, rc \in Int, NEW kept
    PROVE  EndsIn(st, EndJobs(st, C, rc, kept), C, rc)
<1> DEFINE S1 == StopTasks(st, C)
           S2 == Fail(S1, C, rc)
           S3 == Cleanup(S2, C, kept)
           A  == [t \in DOMAIN st.at |-> IF t \in TasksOf(st, C)
                        THEN Entry(CHOOSE i \in C : st.jobs[i].task = t) ELSE st.at[t]]
<1>1. st.jobs \in [Slots -> Job] /\ st.at \in [DOMAIN st.at -> Place] /\ st.at \in Places
      /\ st.runnable \subseteq Int
  BY TableFields
<1>2. A \in Places
  <2>1. ASSUME NEW t \in TasksOf(st, C) PROVE Entry(CHOOSE i \in C : st.jobs[i].task = t) \in Place
    <3>1. PICK i \in C : st.jobs[i].task = t
      BY DEF TasksOf
    <3>2. (CHOOSE k \in C : st.jobs[k].task = t) \in C
      BY <3>1
    <3>3. \A k \in C : k \in Int
      BY Numbers
    <3>4. \A k \in Int : Entry(k) \in Place
      BY DEF Entry, Place
    <3> QED BY <3>2, <3>3, <3>4, Zenon
  <2>2. A \in [DOMAIN st.at -> Place]
    BY <1>1, <2>1
  <2> QED BY <1>1, <2>2, PlacesKept
<1>3. /\ S1.jobs = st.jobs /\ S1.at = A /\ S1.runnable = st.runnable \ TasksOf(st, C)
      /\ S1.heap = st.heap /\ S1.files = st.files /\ S1 \in Table
  <2>1. S1 = [st EXCEPT !.at = A, !.runnable = @ \ TasksOf(st, C)]
    BY DEF StopTasks, TasksOf
  <2> HIDE DEF A
  <2> QED BY <1>1, <1>2, <2>1 DEF Table
<1> HIDE DEF S1, A
<1> DEFINE F(j) == [j EXCEPT !.cancel = TRUE, !.state = FAILED, !.exit = rc]
           J2 == [i \in Slots |-> IF i \in C THEN F(st.jobs[i]) ELSE st.jobs[i]]
<1>4. \A j \in Job : F(j) \in Job
  BY DEF Job, FAILED
<1>5. J2 \in [Slots -> Job]
  BY <1>1, <1>4
<1>6. /\ S2.jobs = J2 /\ S2.at = A /\ S2.runnable = st.runnable \ TasksOf(st, C)
      /\ S2.heap = st.heap /\ S2.files = st.files /\ S2 \in Table
  <2>1. S2 = [S1 EXCEPT !.jobs = J2]
    BY <1>3 DEF Fail
  <2> HIDE DEF J2
  <2> QED BY <1>3, <1>5, <2>1 DEF Table
<1> HIDE DEF S2
<1> DEFINE E(j) == [j EXCEPT !.fds = {}, !.kptrs = {}, !.code = FALSE]
           J3 == [i \in Slots |-> IF i \in C THEN E(J2[i]) ELSE J2[i]]
<1>7. \A j \in Job : E(j) \in Job /\ E(F(j)) = EndedJob(j, rc)
                     /\ F(j).kptrs = j.kptrs /\ F(j).fds = j.fds
  BY <1>4 DEF Job, EndedJob
<1>8. J3 = [i \in Slots |-> IF i \in C THEN EndedJob(st.jobs[i], rc) ELSE st.jobs[i]]
      /\ J3 \in [Slots -> Job]
  <2>1. \A i \in Slots : J3[i] = IF i \in C THEN EndedJob(st.jobs[i], rc) ELSE st.jobs[i]
    BY <1>1, <1>7
  <2>2. \A i \in Slots : J3[i] \in Job
    BY <1>5, <1>7
  <2> QED BY <2>1, <2>2
<1>9. \A i \in C : J2[i].kptrs = st.jobs[i].kptrs /\ J2[i].fds = st.jobs[i].fds
  BY <1>1, <1>7
<1>10. /\ S3.jobs = J3 /\ S3.at = A /\ S3.runnable = st.runnable \ TasksOf(st, C)
       /\ S3.heap = st.heap \ UNION { st.jobs[i].kptrs : i \in C }
       /\ S3.files = st.files \ UNION { st.jobs[i].fds : i \in C } /\ S3 \in Table
  <2> DEFINE K == [i \in Slots |-> IF i \in C THEN E(S2.jobs[i]) ELSE S2.jobs[i]]
             fs == UNION { S2.jobs[i].fds : i \in C }
             ps == UNION { S2.jobs[i].kptrs : i \in C }
  <2> DEFINE Z == [S2 EXCEPT !.jobs = K, !.heap = @ \ ps]
  <2>1. S3 = CloseForgotten(Z, fs, kept)
    BY DEF Cleanup
  <2>2. K = J3
    BY <1>6
  <2>3. fs = UNION { st.jobs[i].fds : i \in C } /\ ps = UNION { st.jobs[i].kptrs : i \in C }
    <3>1. \A i \in C : S2.jobs[i].kptrs = st.jobs[i].kptrs /\ S2.jobs[i].fds = st.jobs[i].fds
      BY <1>6, <1>9
    <3> QED BY <3>1
  <2>4. J3 \in [Slots -> Job]
    BY <1>8
  <2> HIDE DEF J2, J3, K, fs, ps
  <2>6. /\ Z.jobs = K /\ Z.at = S2.at /\ Z.runnable = S2.runnable
        /\ Z.heap = S2.heap \ ps /\ Z.files = S2.files /\ Z \in Table
    BY <1>6, <2>2, <2>4 DEF Table
  <2> HIDE DEF Z, S3
  <2>5. /\ S3.jobs = K /\ S3.at = S2.at /\ S3.runnable = S2.runnable
        /\ S3.heap = S2.heap \ ps /\ S3.files = S2.files \ fs /\ S3 \in Table
    <3>1. Forgotten(Z, S3, fs)
      BY <2>1, <2>6, ForgottenFields, Zenon
    <3> QED BY <2>6, <3>1 DEF Forgotten
  <2> QED BY <1>6, <2>2, <2>3, <2>5
<1>11. S3 = EndJobs(st, C, rc, kept)
  BY DEF EndJobs, S1, S2, S3
<1> QED
  BY <1>8, <1>10, <1>11 DEF A, EndedJobs, EndedPlaces, EndsIn

LEMMA EntryFields ==
    ASSUME NEW i
    PROVE  Entry(i).at = "entry" /\ Entry(i).slot = i /\ Entry(i).id = 0
  BY DEF Entry

(* The jobs of C end: their tasks are stopped, what they hold is given back, *)
(* and the workers that wait for them are among the ones woken.  Whoever     *)
(* ends them is no job, so no task has anything in hand.                     *)
LEMMA EndGood ==
    ASSUME NEW st, NEW n, NEW c, NEW tn, Good(st, n, c, tn), c \notin JobTasksOf(st),
           NEW C \in SUBSET Slots, NEW rc \in Int, NEW W \in SUBSET Workers, NEW kept,
           \A t \in Workers :
              /\ st.at[t].at = "wait" /\ st.at[t].slot \in C
              /\ st.jobs[st.at[t].slot].id = st.at[t].id
              => t \in W
    PROVE  Good(EndSlots(st, C, rc, W, kept), n, c, tn)
<1> DEFINE r == EndSlots(st, C, rc, W, kept)
           T == TasksOf(st, C)
<1>1. st \in Table /\ Structure(st, c) /\ Phases(st) /\ Waits(st, n) /\ Hands(st, c)
      /\ Blocks(st, tn) /\ Files(st, tn)
  BY DEF Good
<1>2. st.jobs \in [Slots -> Job] /\ DOMAIN st.at \subseteq Nat
  BY <1>1, TableFields
<1>3. W \in SUBSET Int
  BY Numbers
<1>4. /\ r.jobs = [i \in Slots |-> IF i \in C THEN EndedJob(st.jobs[i], rc) ELSE st.jobs[i]]
      /\ r.at = [t \in DOMAIN st.at |-> IF t \in T
                   THEN Entry(CHOOSE i \in C : st.jobs[i].task = t) ELSE st.at[t]]
      /\ r.runnable = (st.runnable \ T) \cup W
      /\ r.heap = st.heap \ UNION { st.jobs[i].kptrs : i \in C }
      /\ r.files = st.files \ UNION { st.jobs[i].fds : i \in C }
      /\ r \in Table
  <2> DEFINE e == EndJobs(st, C, rc, kept)
  <2>1. /\ e.jobs = [i \in Slots |-> IF i \in C THEN EndedJob(st.jobs[i], rc) ELSE st.jobs[i]]
        /\ e.at = [t \in DOMAIN st.at |-> IF t \in T
                   THEN Entry(CHOOSE i \in C : st.jobs[i].task = t) ELSE st.at[t]]
        /\ e.runnable = st.runnable \ T
        /\ e.heap = st.heap \ UNION { st.jobs[i].kptrs : i \in C }
        /\ e.files = st.files \ UNION { st.jobs[i].fds : i \in C }
        /\ e \in Table
    <3>1. EndsIn(st, e, C, rc)
      BY <1>1, EndFields
    <3> QED BY <3>1 DEF EndsIn, EndedJobs, EndedPlaces
  <2> HIDE DEF e
  <2>2. r = [e EXCEPT !.runnable = @ \cup W]
    BY DEF EndSlots, e
  <2>3. /\ r.jobs = e.jobs /\ r.at = e.at /\ r.heap = e.heap /\ r.files = e.files
        /\ r.runnable = e.runnable \cup W /\ r \in Table
    <3>1. e \in Table
      BY <2>1
    <3> HIDE DEF r
    <3> QED BY <1>3, <2>2, <3>1 DEF Table
  <2> QED BY <2>1, <2>3, Zenon
<1> HIDE DEF r
<1>5. \A i \in Slots :
         /\ i \in C => /\ r.jobs[i].state = FAILED /\ r.jobs[i].fds = {} /\ r.jobs[i].kptrs = {}
                       /\ r.jobs[i].code = FALSE
         /\ i \notin C => r.jobs[i] = st.jobs[i]
         /\ r.jobs[i].id = st.jobs[i].id /\ r.jobs[i].bg = st.jobs[i].bg
         /\ r.jobs[i].task = st.jobs[i].task /\ r.jobs[i].waiter = st.jobs[i].waiter
  <2> SUFFICES ASSUME NEW i \in Slots
               PROVE  /\ i \in C => /\ r.jobs[i].state = FAILED /\ r.jobs[i].fds = {}
                                    /\ r.jobs[i].kptrs = {} /\ r.jobs[i].code = FALSE
                      /\ i \notin C => r.jobs[i] = st.jobs[i]
                      /\ r.jobs[i].id = st.jobs[i].id /\ r.jobs[i].bg = st.jobs[i].bg
                      /\ r.jobs[i].task = st.jobs[i].task /\ r.jobs[i].waiter = st.jobs[i].waiter
    OBVIOUS
  <2>1. r.jobs[i] = IF i \in C THEN EndedJob(st.jobs[i], rc) ELSE st.jobs[i]
    BY <1>4
  <2>2. st.jobs[i] \in Job
    BY <1>2
  <2>3. CASE i \in C
    <3>1. r.jobs[i] = EndedJob(st.jobs[i], rc)
      BY <2>1, <2>3
    <3> DEFINE j == st.jobs[i]
               e == EndedJob(j, rc)
    <3>2. /\ e.state = FAILED /\ e.fds = {} /\ e.kptrs = {} /\ e.code = FALSE
          /\ e.id = j.id /\ e.bg = j.bg /\ e.task = j.task /\ e.waiter = j.waiter
      BY <2>2, EndedFields, Zenon
    <3> QED BY <2>3, <3>1, <3>2
  <2>4. CASE i \notin C
    <3>1. r.jobs[i] = st.jobs[i]
      BY <2>1, <2>4
    <3> QED BY <2>4, <3>1
  <2> QED BY <2>3, <2>4
<1>6. T \subseteq JobTasksOf(st) /\ \A t \in T : st.at[t].slot \in C /\ st.jobs[st.at[t].slot].task = t
  BY <1>1 DEF TasksOf, Structure
<1>7. DOMAIN r.at = DOMAIN st.at /\ \A t \in DOMAIN st.at :
         r.at[t] = IF t \in T THEN Entry(st.at[t].slot) ELSE st.at[t]
  <2>1. DOMAIN r.at = DOMAIN st.at
    BY <1>4
  <2>2. ASSUME NEW t \in T PROVE (CHOOSE i \in C : st.jobs[i].task = t) = st.at[t].slot
    <3>1. \A i \in C : st.jobs[i].task = t => i = st.at[t].slot
      BY <1>1, <1>6, Numbers DEF Structure, TasksOf
    <3>2. st.at[t].slot \in C /\ st.jobs[st.at[t].slot].task = t
      BY <1>6
    <3> QED BY <3>1, <3>2
  <2>3. \A t \in DOMAIN st.at :
          r.at[t] = IF t \in T THEN Entry(CHOOSE i \in C : st.jobs[i].task = t) ELSE st.at[t]
    BY <1>4
  <2> QED BY <2>1, <2>2, <2>3
<1>8. /\ \A t \in T : r.at[t].at = "entry" /\ r.at[t].slot = st.at[t].slot
      /\ \A t \in DOMAIN st.at : t \notin T => r.at[t] = st.at[t]
      /\ \A t \in DOMAIN st.at : t \in T => t \notin Workers
      /\ JobTasksOf(r) = JobTasksOf(st)
  BY <1>6, <1>7, EntryFields DEF JobTasksOf
<1>9. \A i \in Slots : i \notin C => st.jobs[i].task \notin T
  <2> SUFFICES ASSUME NEW i \in Slots, i \notin C, st.jobs[i].task \in T PROVE FALSE
    OBVIOUS
  <2>1. st.jobs[i].task # -1
    BY DEF TasksOf
  <2>2. st.at[st.jobs[i].task].slot = i
    BY <1>1, <2>1 DEF Structure
  <2> QED BY <1>6, <2>2
<1>10. Structure(r, c)
  <2>1. Workers \subseteq DOMAIN r.at /\ r.runnable \subseteq DOMAIN r.at
        /\ c \in DOMAIN r.at \cup {-1}
    BY <1>1, <1>4, <1>7 DEF Structure
  <2>2. \A t \in Workers :
          r.at[t].at = "shell" \/ (r.at[t].at = "wait" /\ r.at[t].slot \in Slots)
    BY <1>1, <1>8 DEF Structure
  <2>3. \A t \in JobTasksOf(r) :
          /\ r.at[t].at \in {"entry", "trampoline"} \cup InMain
          /\ r.at[t].slot \in Slots /\ r.jobs[r.at[t].slot].task = t
    BY <1>1, <1>5, <1>8 DEF Structure, JobTasksOf
  <2>4. \A i \in Slots :
          /\ r.jobs[i].task = -1 \/ (r.jobs[i].task \in JobTasksOf(r) /\ r.at[r.jobs[i].task].slot = i)
          /\ r.jobs[i].waiter \in Workers \cup {-1}
    BY <1>1, <1>5, <1>8, SMTT(30) DEF Structure, JobTasksOf
  <2> QED BY <2>1, <2>2, <2>3, <2>4 DEF Structure
<1>11. Phases(r)
  <2>1. ASSUME NEW i \in Slots, i \notin C
        PROVE  r.jobs[i] = st.jobs[i] /\ (st.jobs[i].task # -1 =>
                  /\ r.at[st.jobs[i].task] = st.at[st.jobs[i].task]
                  /\ st.jobs[i].task \in st.runnable => st.jobs[i].task \in r.runnable)
    BY <1>1, <1>4, <1>5, <1>8, <1>9, <2>1 DEF Structure, JobTasksOf
  <2>2. ASSUME NEW i \in Slots
        PROVE  /\ r.jobs[i].state # "compiling"
               /\ r.jobs[i].state \in Live =>
                    r.jobs[i].task # -1 /\ r.jobs[i].task \in r.runnable /\ r.jobs[i].code
               /\ r.jobs[i].state = READY =>
                    r.at[r.jobs[i].task].at = "entry" /\ r.jobs[i].kptrs = {} /\ r.jobs[i].fds = {}
               /\ r.jobs[i].state = RUNNING => r.at[r.jobs[i].task].at \in InMain /\ ~ r.jobs[i].cancel
               /\ r.jobs[i].state \notin Live =>
                    r.jobs[i].kptrs = {} /\ r.jobs[i].fds = {} /\ ~ r.jobs[i].code
    <3>1. CASE i \in C
      BY <1>5, <3>1, StateNames
    <3>2. CASE i \notin C
      BY <1>1, <2>1, <3>2, StateNames, SMTT(30) DEF Phases
    <3> QED BY <3>1, <3>2
  <2>3. ASSUME NEW t \in JobTasksOf(r), r.at[t].at \in InMain
        PROVE  /\ r.jobs[r.at[t].slot].state = RUNNING
               /\ r.jobs[r.at[t].slot].id = r.at[t].id
    <3>1. t \in JobTasksOf(st) /\ t \notin T /\ r.at[t] = st.at[t]
      BY <1>8, <2>3 DEF JobTasksOf, InMain
    <3>2. st.at[t].slot \in Slots /\ st.at[t].slot \notin C
      BY <1>1, <1>2, <3>1 DEF Structure, TasksOf, JobTasksOf
    <3> QED BY <1>1, <1>5, <2>3, <3>1, <3>2 DEF Phases
  <2> QED BY <2>2, <2>3 DEF Phases
<1>12. Waits(r, n)
  <2>1. ASSUME NEW t \in Workers, r.at[t].at = "wait"
        PROVE  /\ r.at[t].id < n
               /\ r.jobs[r.at[t].slot].id = r.at[t].id =>
                    /\ r.jobs[r.at[t].slot].waiter = t /\ ~ r.jobs[r.at[t].slot].bg
                    /\ (t \in r.runnable \/ r.jobs[r.at[t].slot].state \in Live)
    <3>1. t \in DOMAIN st.at /\ t \notin T /\ r.at[t] = st.at[t] /\ st.at[t].slot \in Slots
      BY <1>1, <1>8, <2>1 DEF Structure
    <3> DEFINE i == st.at[t].slot
    <3>2. /\ st.at[t].id < n
          /\ st.jobs[i].id = st.at[t].id =>
               st.jobs[i].waiter = t /\ ~ st.jobs[i].bg /\ (t \in st.runnable \/ st.jobs[i].state \in Live)
      BY <1>1, <2>1, <3>1 DEF Waits
    <3>3. /\ r.jobs[i].id = st.jobs[i].id /\ r.jobs[i].bg = st.jobs[i].bg
          /\ r.jobs[i].waiter = st.jobs[i].waiter /\ (i \notin C => r.jobs[i] = st.jobs[i])
      BY <1>5, <3>1
    <3>4. t \in st.runnable => t \in r.runnable
      BY <1>4, <3>1
    <3>5. i \in C /\ st.jobs[i].id = st.at[t].id => t \in r.runnable
      BY <1>4, <2>1, <3>1
    <3> QED BY <3>1, <3>2, <3>3, <3>4, <3>5
  <2> QED BY <1>1, <1>5, <2>1 DEF Waits
<1>13. Hands(r, c)
  BY <1>1, <1>8 DEF Hands, JobTasksOf
<1>14. \A t \in JobTasksOf(st) : st.at[t].at \notin {"kmalloc", "open"} /\ r.at[t].at \notin {"kmalloc", "open"}
  BY <1>1, <1>8 DEF Hands, JobTasksOf
<1>15. Blocks(r, tn)
  <2>1. \A i \in Slots : r.jobs[i].kptrs \subseteq r.heap
    BY <1>1, <1>4, <1>5 DEF Blocks
  <2>2. \A i, k \in Slots : i # k => r.jobs[i].kptrs \cap r.jobs[k].kptrs = {}
    BY <1>1, <1>5 DEF Blocks
  <2>3. ASSUME ~ tn, NEW p \in r.heap PROVE \E i \in Slots : p \in r.jobs[i].kptrs
    <3>1. PICK i \in Slots : p \in st.jobs[i].kptrs
      <4>1. p \in st.heap /\ ~ InHand(st, "kmalloc", p)
        BY <1>4, <1>14, <2>3 DEF InHand
      <4> QED BY <1>1, <2>3, <4>1 DEF Blocks
    <3>2. i \notin C
      BY <1>4, <2>3, <3>1
    <3> QED BY <1>5, <3>1, <3>2
  <2> QED BY <1>8, <1>14, <2>1, <2>2, <2>3 DEF Blocks
<1>16. Files(r, tn)
  <2>1. ASSUME ~ tn, NEW p \in r.files PROVE \E i \in Slots : p \in r.jobs[i].fds
    <3>1. PICK i \in Slots : p \in st.jobs[i].fds
      <4>1. p \in st.files /\ ~ InHand(st, "open", p)
        BY <1>4, <1>14, <2>1 DEF InHand
      <4> QED BY <1>1, <2>1, <4>1 DEF Files
    <3>2. i \notin C
      BY <1>4, <2>1, <3>1
    <3> QED BY <1>5, <3>1, <3>2
  <2> QED BY <2>1 DEF Files
<1> QED
  BY <1>4, <1>10, <1>11, <1>12, <1>13, <1>15, <1>16 DEF Good, r

LEMMA KillGood ==
    ASSUME NEW st, NEW n, NEW c, NEW tn, Good(st, n, c, tn), c \notin JobTasksOf(st),
           NEW i \in Slots, NEW kept
    PROVE  Good(KillSlot(st, i, kept), n, c, tn)
<1> DEFINE e == EndJobs(st, {i}, -1, kept)
           j == st.jobs[i]
           W == IF ~ j.bg /\ j.waiter >= 0 THEN {j.waiter} ELSE {}
<1>1. st \in Table /\ j \in Job /\ j.waiter \in Workers \cup {-1}
  BY TableFields DEF Good, Structure
<1>2. W \in SUBSET Workers /\ W \in SUBSET Int
  <2>1. CASE ~ j.bg /\ j.waiter >= 0
    <3>1. j.waiter \in Workers
      BY <1>1, <2>1
    <3>2. W = {j.waiter}
      BY <2>1
    <3> HIDE DEF W
    <3> QED BY <3>1, <3>2, WorkerNumber, Zenon
  <2>2. CASE ~ (~ j.bg /\ j.waiter >= 0)
    <3>1. W = {}
      BY <2>2
    <3> HIDE DEF W
    <3> QED BY <3>1
  <2> QED BY <2>1, <2>2
<1>3. e \in Table /\ e.jobs[i].bg = j.bg /\ e.jobs[i].waiter = j.waiter
  <2> DEFINE C == {i}
             rc == -1
  <2>0. C \in SUBSET Slots /\ rc \in Int
    OBVIOUS
  <2>1. e \in Table /\ e.jobs = [k \in Slots |-> IF k \in C THEN EndedJob(st.jobs[k], rc) ELSE st.jobs[k]]
    <3>1. e = EndJobs(st, C, rc, kept)
      OBVIOUS
    <3> HIDE DEF C, rc, e
    <3>2. e \in Table /\ e.jobs = EndedJobs(st, C, rc)
      <4>1. EndsIn(st, e, C, rc)
        BY <1>1, <2>0, <3>1, EndFields, Zenon
      <4> QED BY <4>1 DEF EndsIn
    <3> QED BY <3>2 DEF EndedJobs
  <2>2. e.jobs[i] = EndedJob(j, -1)
    BY <2>1
  <2>3. EndedJob(j, -1).bg = j.bg /\ EndedJob(j, -1).waiter = j.waiter
    BY <1>1, <2>0, EndedFields, Zenon
  <2> QED BY <2>1, <2>2, <2>3
<1>4. KillSlot(st, i, kept) = EndSlots(st, {i}, -1, W, kept)
  <2>1. KillSlot(st, i, kept) = IF ~ j.bg /\ j.waiter >= 0 THEN Wake(e, j.waiter) ELSE e
    BY <1>3 DEF KillSlot, WakeForegroundWaiter, EndJobs
  <2>2. EndSlots(st, {i}, -1, W, kept) = [e EXCEPT !.runnable = @ \cup W]
    BY DEF EndSlots
  <2> HIDE DEF e
  <2>3. [e EXCEPT !.runnable = @ \cup {}] = e
    BY <1>3 DEF Table
  <2> QED BY <2>1, <2>2, <2>3 DEF Wake
<1>5. \A t \in Workers :
         /\ st.at[t].at = "wait" /\ st.at[t].slot \in {i}
         /\ st.jobs[st.at[t].slot].id = st.at[t].id
         => t \in W
  <2> SUFFICES ASSUME NEW t \in Workers, st.at[t].at = "wait", st.at[t].slot = i,
                      st.jobs[st.at[t].slot].id = st.at[t].id
               PROVE  t \in W
    OBVIOUS
  <2>1. j.waiter = t /\ ~ j.bg
    BY DEF Good, Waits
  <2>2. t >= 0
    BY Numbers
  <2> QED BY <2>1, <2>2
<1> HIDE DEF W
<1> QED
  BY <1>2, <1>4, <1>5, EndGood

LEMMA CancelGood ==
    ASSUME NEW st, NEW n, NEW c, NEW tn, Good(st, n, c, tn), c \notin JobTasksOf(st),
           NEW C \in SUBSET Slots, NEW caller, caller \in Workers => st.at[caller].at # "wait",
           NEW kept
    PROVE  Good(CancelSlots(st, C, caller, kept), n, c, tn)
<1> DEFINE e == EndJobs(st, C, -2, kept)
           W == { e.jobs[i].waiter : i \in C } \ {-1, caller}
<1>1. st \in Table /\ st.jobs \in [Slots -> Job]
  BY TableFields DEF Good
<1>0. -2 \in Int
  OBVIOUS
<1>2. e.jobs = [k \in Slots |-> IF k \in C THEN EndedJob(st.jobs[k], -2) ELSE st.jobs[k]]
  <2> DEFINE rc == -2
  <2>1. e = EndJobs(st, C, rc, kept) /\ rc \in Int
    OBVIOUS
  <2> HIDE DEF rc, e
  <2>2. e.jobs = EndedJobs(st, C, rc)
    <3>1. EndsIn(st, e, C, rc)
      BY <1>1, <2>1, EndFields, Zenon
    <3> QED BY <3>1 DEF EndsIn
  <2> QED BY <2>2 DEF EndedJobs, rc
<1>3. \A i \in C : e.jobs[i].waiter = st.jobs[i].waiter
  <2> SUFFICES ASSUME NEW i \in C PROVE e.jobs[i].waiter = st.jobs[i].waiter
    OBVIOUS
  <2>1. e.jobs[i] = EndedJob(st.jobs[i], -2) /\ st.jobs[i] \in Job
    BY <1>1, <1>2
  <2>2. EndedJob(st.jobs[i], -2).waiter = st.jobs[i].waiter
    BY <1>0, <2>1, EndedFields, Zenon
  <2> QED BY <2>1, <2>2
<1>4. CancelSlots(st, C, caller, kept) = EndSlots(st, C, -2, W, kept)
  BY DEF CancelSlots, WakeOtherWaiters, EndSlots, EndJobs
<1> HIDE DEF e
<1>5. W \in SUBSET Workers
  BY <1>3 DEF Good, Structure
<1>6. \A t \in Workers :
         /\ st.at[t].at = "wait" /\ st.at[t].slot \in C
         /\ st.jobs[st.at[t].slot].id = st.at[t].id
         => t \in W
  <2> SUFFICES ASSUME NEW t \in Workers, st.at[t].at = "wait", st.at[t].slot \in C,
                      st.jobs[st.at[t].slot].id = st.at[t].id
               PROVE  t \in W
    OBVIOUS
  <2>1. st.jobs[st.at[t].slot].waiter = t
    BY DEF Good, Waits
  <2>2. t # -1 /\ t # caller
    BY Numbers
  <2> QED BY <1>3, <2>1, <2>2
<1> HIDE DEF W
<1> QED
  BY <1>4, <1>5, <1>6, EndGood

-----------------------------------------------------------------------------
(* Starting a job in the first free slot.                                    *)

(* jit_job_cleanup of one slot.                                              *)
Cleaned(st, r, i) ==
    /\ r \in Table /\ r.at = st.at /\ r.runnable = st.runnable
    /\ r.heap = st.heap \ st.jobs[i].kptrs /\ r.files = st.files \ st.jobs[i].fds
    /\ \A k \in Slots : k # i => r.jobs[k] = st.jobs[k]
    /\ r.jobs[i].kptrs = {} /\ r.jobs[i].fds = {} /\ ~ r.jobs[i].code
    /\ r.jobs[i].state = st.jobs[i].state /\ r.jobs[i].id = st.jobs[i].id
    /\ r.jobs[i].bg = st.jobs[i].bg /\ r.jobs[i].task = st.jobs[i].task
    /\ r.jobs[i].waiter = st.jobs[i].waiter /\ r.jobs[i].owner = st.jobs[i].owner

LEMMA CleanupFields ==
    ASSUME NEW st, st \in Table, NEW i, i \in Slots, NEW C, C = {i}, NEW kept,
           NEW r, r = Cleanup(st, C, kept)
    PROVE  Cleaned(st, r, i)
<1> DEFINE Cl(j) == [j EXCEPT !.fds = {}, !.kptrs = {}, !.code = FALSE]
           J == [k \in Slots |-> IF k \in {i} THEN Cl(st.jobs[k]) ELSE st.jobs[k]]
           fs == UNION { st.jobs[k].fds : k \in {i} }
           ps == UNION { st.jobs[k].kptrs : k \in {i} }
           Z  == [st EXCEPT !.jobs = J, !.heap = @ \ ps]
<1>1. st.jobs \in [Slots -> Job] /\ st.jobs[i] \in Job
  BY TableFields
<1>2. /\ Cl(st.jobs[i]) \in Job /\ Cl(st.jobs[i]).kptrs = {} /\ Cl(st.jobs[i]).fds = {}
      /\ ~ Cl(st.jobs[i]).code
      /\ Cl(st.jobs[i]).state = st.jobs[i].state /\ Cl(st.jobs[i]).id = st.jobs[i].id
      /\ Cl(st.jobs[i]).bg = st.jobs[i].bg /\ Cl(st.jobs[i]).task = st.jobs[i].task
      /\ Cl(st.jobs[i]).waiter = st.jobs[i].waiter /\ Cl(st.jobs[i]).owner = st.jobs[i].owner
  BY <1>1 DEF Job
<1>3. r = CloseForgotten(Z, fs, kept)
  BY DEF Cleanup
<1>4. fs = st.jobs[i].fds /\ ps = st.jobs[i].kptrs
  OBVIOUS
<1> HIDE DEF fs, ps, Cl
<1>5. J \in [Slots -> Job] /\ J[i] = Cl(st.jobs[i]) /\ \A k \in Slots : k # i => J[k] = st.jobs[k]
  BY <1>1, <1>2
<1> HIDE DEF J
<1>6. /\ Z \in Table /\ Z.at = st.at /\ Z.runnable = st.runnable /\ Z.jobs = J
      /\ Z.heap = st.heap \ ps /\ Z.files = st.files
  BY <1>5 DEF Table
<1> HIDE DEF Z
<1>7. /\ r \in Table /\ r.at = st.at /\ r.runnable = st.runnable /\ r.jobs = J
      /\ r.heap = st.heap \ ps /\ r.files = st.files \ fs
  <2> DEFINE D == fs
  <2>1. r = CloseForgotten(Z, D, kept) /\ Z \in Table
    BY <1>3, <1>6
  <2> HIDE DEF D
  <2>2. Forgotten(Z, r, D)
    BY <2>1, ForgottenFields, Zenon
  <2> QED BY <1>6, <2>2 DEF D, Forgotten
<1> QED
  BY <1>2, <1>4, <1>5, <1>7 DEF Cleaned

LEMMA EmptyJobFields ==
    /\ EmptyJob \in Job /\ EmptyJob.waiter = -1 /\ EmptyJob.kptrs = {} /\ EmptyJob.fds = {}
    /\ ~ EmptyJob.code /\ ~ EmptyJob.cancel
  BY DEF EmptyJob, Job

LEMMA AllocFields ==
    ASSUME NEW st, st \in Table, jit_next_id \in Nat, FreeSlots(st) # {},
           NEW bg \in BOOLEAN, NEW win \in Int, NEW i, i = Min(FreeSlots(st)),
           NEW a, a = AllocJob(st, bg, win)
    PROVE  /\ a \in Table /\ a.at = st.at /\ a.runnable = st.runnable
           /\ a.heap = st.heap /\ a.files = st.files /\ i \in Slots
           /\ \A k \in Slots : k # i => a.jobs[k] = st.jobs[k]
           /\ a.jobs[i].id = jit_next_id /\ a.jobs[i].bg = bg
           /\ a.jobs[i].task = st.jobs[i].task /\ a.jobs[i].waiter = -1
           /\ a.jobs[i].kptrs = {} /\ a.jobs[i].fds = {} /\ ~ a.jobs[i].code
           /\ ~ a.jobs[i].cancel
<1> DEFINE j == [EmptyJob EXCEPT !.id = jit_next_id, !.state = "compiling", !.bg = bg,
                                 !.owner = win, !.task = st.jobs[i].task]
<1>1. i \in Slots /\ st.jobs \in [Slots -> Job]
  BY FirstFree, TableFields
<1>2. st.jobs[i].task \in Int
  <2>1. st.jobs[i] \in Job
    BY <1>1
  <2> QED BY <2>1 DEF Job
<1>3. /\ j \in Job /\ j.id = jit_next_id /\ j.bg = bg /\ j.task = st.jobs[i].task
      /\ j.waiter = -1 /\ j.kptrs = {} /\ j.fds = {} /\ ~ j.code /\ ~ j.cancel
  <2> DEFINE task == st.jobs[i].task
  <2>1. task \in Int /\ j = [EmptyJob EXCEPT !.id = jit_next_id, !.state = "compiling", !.bg = bg,
                                 !.owner = win, !.task = task]
    BY <1>2
  <2> HIDE DEF j, task
  <2>2. /\ j \in Job /\ j.id = jit_next_id /\ j.bg = bg /\ j.task = task
        /\ j.waiter = -1 /\ j.kptrs = {} /\ j.fds = {} /\ ~ j.code /\ ~ j.cancel
    BY <2>1, EmptyJobFields DEF Job
  <2> QED BY <2>2 DEF task
<1>4. a = [st EXCEPT !.jobs[i] = j]
  BY DEF AllocJob
<1> HIDE DEF j
<1>5. /\ a \in Table /\ a.at = st.at /\ a.runnable = st.runnable
      /\ a.heap = st.heap /\ a.files = st.files /\ a.jobs = [st.jobs EXCEPT ![i] = j]
  BY <1>1, <1>3, <1>4 DEF Table
<1> QED
  BY <1>1, <1>3, <1>5

(* A compilation that failed leaves its mark in a slot whose last job has    *)
(* ended, and nothing else.                                                  *)
LEMMA SlotFailed ==
    ASSUME NEW st, NEW n, NEW c, NEW tn, Good(st, n, c, tn),
           NEW i \in Slots, st.jobs[i].state \notin Live,
           NEW r, r \in Table, r.at = st.at, r.runnable = st.runnable,
           r.heap = st.heap, r.files = st.files,
           \A k \in Slots : k # i => r.jobs[k] = st.jobs[k],
           r.jobs[i].id = n, r.jobs[i].state = FAILED, r.jobs[i].task = st.jobs[i].task,
           r.jobs[i].kptrs = {}, r.jobs[i].fds = {}, ~ r.jobs[i].code, r.jobs[i].waiter = -1
    PROVE  Good(r, n + 1, c, tn)
<1>1. JobTasksOf(r) = JobTasksOf(st) /\ n \in Nat
  BY DEF JobTasksOf, Good, Waits
<1>2. st.jobs[i].kptrs = {} /\ st.jobs[i].fds = {}
  BY DEF Good, Phases
<1>3. Structure(r, c)
  BY <1>1 DEF Good, Structure
<1>4. Phases(r)
  BY <1>1, StateNames DEF Good, Phases, Structure
<1>5. Waits(r, n + 1)
  <2>1. \A k \in Slots : r.jobs[k].id < n + 1
    <3> SUFFICES ASSUME NEW k \in Slots PROVE r.jobs[k].id < n + 1
      OBVIOUS
    <3>1. CASE k = i
      BY <1>1, <3>1
    <3>2. CASE k # i
      <4>1. r.jobs[k].id < n /\ r.jobs[k].id \in Nat
        <5>1. st.jobs[k] \in Job
          BY TableFields DEF Good
        <5> QED BY <3>2, <5>1 DEF Good, Waits, Job
      <4> QED BY <1>1, <4>1
    <3> QED BY <3>1, <3>2
  <2>2. ASSUME NEW t \in Workers, st.at[t].at = "wait"
        PROVE  /\ st.at[t].id < n + 1
               /\ r.jobs[st.at[t].slot].id = st.at[t].id =>
                    /\ r.jobs[st.at[t].slot].waiter = t /\ ~ r.jobs[st.at[t].slot].bg
                    /\ (t \in r.runnable \/ r.jobs[st.at[t].slot].state \in Live)
    <3>1. st.at[t].id \in Nat /\ st.at[t].slot \in Slots /\ st.at[t].id < n
      <4>1. st.at[t] \in Place
        BY TableFields DEF Good, Structure
      <4> QED BY <2>2, <4>1, StateNames DEF Good, Structure, Waits, Place
    <3>2. CASE st.at[t].slot = i
      BY <1>1, <3>1, <3>2
    <3>3. CASE st.at[t].slot # i
      BY <1>1, <2>2, <3>1, <3>3 DEF Good, Waits
    <3> QED BY <3>2, <3>3
  <2> QED BY <1>1, <2>1, <2>2 DEF Waits
<1>6. Hands(r, c)
  BY <1>1 DEF Good, Hands
<1>7. Blocks(r, tn) /\ Files(r, tn)
  <2>1. \A k \in Slots : r.jobs[k].kptrs = st.jobs[k].kptrs /\ r.jobs[k].fds = st.jobs[k].fds
    BY <1>2
  <2> QED BY <1>1, <2>1 DEF Good, Blocks, Files, InHand
<1> QED
  BY <1>3, <1>4, <1>5, <1>6, <1>7 DEF Good

(* A job that takes over a slot whose last job has ended gets the slot's     *)
(* task, reset, or a new one.                                                *)
LEMMA SlotStarted ==
    ASSUME NEW st, NEW n, NEW c, NEW tn, Good(st, n, c, tn),
           NEW i \in Slots, st.jobs[i].state \notin Live,
           NEW r, r \in Table, NEW t, t \notin Workers, t \notin DOMAIN st.at \/ t = st.jobs[i].task,
           st.jobs[i].task \in {-1, t}, DOMAIN r.at = DOMAIN st.at \cup {t},
           r.at[t] = Entry(i), \A u \in DOMAIN st.at : u # t => r.at[u] = st.at[u],
           r.runnable = st.runnable \cup {t}, r.heap = st.heap, r.files = st.files,
           \A k \in Slots : k # i => r.jobs[k] = st.jobs[k],
           r.jobs[i].id = n, r.jobs[i].state = READY, r.jobs[i].task = t, r.jobs[i].code,
           r.jobs[i].kptrs = {}, r.jobs[i].fds = {}, r.jobs[i].waiter \in Workers \cup {-1}
    PROVE  Good(r, n + 1, c, tn)
<1>1. /\ n \in Nat /\ JobTasksOf(r) = JobTasksOf(st) \cup {t}
      /\ st.jobs[i].kptrs = {} /\ st.jobs[i].fds = {}
      /\ r.at[t].at = "entry" /\ r.at[t].slot = i
  BY EntryFields DEF JobTasksOf, Good, Waits, Phases
<1>2. t \in Nat /\ DOMAIN st.at \subseteq Nat
  <2>1. DOMAIN st.at \subseteq Nat /\ DOMAIN r.at \subseteq Nat
    BY TableFields DEF Good
  <2> QED BY <2>1
<1>3. ASSUME NEW k \in Slots, k # i
      PROVE  /\ r.jobs[k] = st.jobs[k] /\ st.jobs[k].task # t
             /\ st.jobs[k].task # -1 => /\ st.jobs[k].task \in JobTasksOf(st)
                                        /\ st.jobs[k].task \in DOMAIN st.at
                                        /\ r.at[st.jobs[k].task] = st.at[st.jobs[k].task]
                                        /\ st.at[st.jobs[k].task].slot = k
  <2>1. st.jobs[k].task # -1 => /\ st.jobs[k].task \in JobTasksOf(st) /\ st.jobs[k].task \in DOMAIN st.at
                                /\ st.at[st.jobs[k].task].slot = k
    BY DEF Good, Structure, JobTasksOf
  <2>2. st.jobs[k].task # t
    <3> SUFFICES ASSUME st.jobs[k].task = t PROVE FALSE
      OBVIOUS
    <3>1. t # -1
      BY <1>2
    <3>2. st.at[t].slot = k /\ t = st.jobs[i].task
      BY <2>1, <3>1
    <3>3. st.at[t].slot = i
      BY <3>1, <3>2 DEF Good, Structure
    <3> QED BY <1>3, <3>2, <3>3
  <2> QED BY <1>3, <2>1, <2>2
<1>4. ASSUME NEW u \in JobTasksOf(r), u # t
      PROVE  /\ u \in JobTasksOf(st) /\ u \in DOMAIN st.at /\ r.at[u] = st.at[u]
             /\ st.at[u].slot \in Slots /\ st.at[u].slot # i
             /\ st.jobs[st.at[u].slot].task = u /\ r.jobs[st.at[u].slot] = st.jobs[st.at[u].slot]
  <2>1. u \in JobTasksOf(st) /\ u \in DOMAIN st.at /\ r.at[u] = st.at[u] /\ u # -1
    BY <1>1, <1>2, <1>4 DEF JobTasksOf
  <2>2. st.at[u].slot \in Slots /\ st.jobs[st.at[u].slot].task = u
    BY <2>1 DEF Good, Structure
  <2>3. st.at[u].slot # i
    BY <1>4, <2>1, <2>2
  <2> QED BY <2>1, <2>2, <2>3
<1>5. \A w \in Workers : w \in DOMAIN st.at /\ r.at[w] = st.at[w]
  BY DEF Good, Structure
<1>6. Structure(r, c)
  <2>1. Workers \subseteq DOMAIN r.at /\ r.runnable \subseteq DOMAIN r.at /\ c \in DOMAIN r.at \cup {-1}
    BY DEF Good, Structure
  <2>2. \A w \in Workers :
          r.at[w].at = "shell" \/ (r.at[w].at = "wait" /\ r.at[w].slot \in Slots)
    BY <1>5 DEF Good, Structure
  <2>3. ASSUME NEW u \in JobTasksOf(r)
        PROVE  /\ r.at[u].at \in {"entry", "trampoline"} \cup InMain
               /\ r.at[u].slot \in Slots /\ r.jobs[r.at[u].slot].task = u
    <3>1. CASE u = t
      BY <1>1, <3>1
    <3>2. CASE u # t
      BY <1>4, <3>2 DEF Good, Structure
    <3> QED BY <3>1, <3>2
  <2>4. ASSUME NEW k \in Slots
        PROVE  /\ r.jobs[k].task = -1 \/ (r.jobs[k].task \in JobTasksOf(r) /\ r.at[r.jobs[k].task].slot = k)
               /\ r.jobs[k].waiter \in Workers \cup {-1}
    <3>1. CASE k = i
      BY <1>1, <3>1
    <3>2. CASE k # i
      BY <1>1, <1>3, <3>2 DEF Good, Structure
    <3> QED BY <3>1, <3>2
  <2> QED BY <2>1, <2>2, <2>3, <2>4 DEF Structure
<1>7. Phases(r)
  <2>1. ASSUME NEW k \in Slots
        PROVE  /\ r.jobs[k].state # "compiling"
               /\ r.jobs[k].state \in Live =>
                    r.jobs[k].task # -1 /\ r.jobs[k].task \in r.runnable /\ r.jobs[k].code
               /\ r.jobs[k].state = READY =>
                    r.at[r.jobs[k].task].at = "entry" /\ r.jobs[k].kptrs = {} /\ r.jobs[k].fds = {}
               /\ r.jobs[k].state = RUNNING => r.at[r.jobs[k].task].at \in InMain /\ ~ r.jobs[k].cancel
               /\ r.jobs[k].state \notin Live =>
                    r.jobs[k].kptrs = {} /\ r.jobs[k].fds = {} /\ ~ r.jobs[k].code
    <3>1. CASE k = i
      BY <1>1, <1>2, <3>1, StateNames
    <3>2. CASE k # i
      BY <1>3, <3>2, StateNames DEF Good, Phases
    <3> QED BY <3>1, <3>2
  <2>2. ASSUME NEW u \in JobTasksOf(r), r.at[u].at \in InMain
        PROVE  /\ r.jobs[r.at[u].slot].state = RUNNING
               /\ r.jobs[r.at[u].slot].id = r.at[u].id
    <3>1. u # t
      BY <1>1, <2>2 DEF InMain
    <3> QED BY <1>4, <2>2, <3>1 DEF Good, Phases
  <2> QED BY <2>1, <2>2 DEF Phases
<1>8. Waits(r, n + 1)
  <2>1. \A k \in Slots : r.jobs[k].id < n + 1
    <3> SUFFICES ASSUME NEW k \in Slots PROVE r.jobs[k].id < n + 1
      OBVIOUS
    <3>1. CASE k = i
      BY <1>1, <3>1
    <3>2. CASE k # i
      <4>1. r.jobs[k].id < n /\ r.jobs[k].id \in Nat
        <5>1. st.jobs[k] \in Job
          BY TableFields DEF Good
        <5> QED BY <3>2, <5>1 DEF Good, Waits, Job
      <4> QED BY <1>1, <4>1
    <3> QED BY <3>1, <3>2
  <2>2. ASSUME NEW w \in Workers, r.at[w].at = "wait"
        PROVE  /\ r.at[w].id < n + 1
               /\ r.jobs[r.at[w].slot].id = r.at[w].id =>
                    /\ r.jobs[r.at[w].slot].waiter = w /\ ~ r.jobs[r.at[w].slot].bg
                    /\ (w \in r.runnable \/ r.jobs[r.at[w].slot].state \in Live)
    <3>1. /\ r.at[w] = st.at[w] /\ st.at[w].id \in Nat /\ st.at[w].slot \in Slots
          /\ st.at[w].id < n
      <4>1. st.at[w] \in Place /\ r.at[w] = st.at[w]
        BY <1>5, TableFields DEF Good
      <4> QED BY <2>2, <4>1 DEF Good, Structure, Waits, Place
    <3>2. CASE st.at[w].slot = i
      BY <1>1, <3>1, <3>2
    <3>3. CASE st.at[w].slot # i
      BY <1>1, <2>2, <3>1, <3>3 DEF Good, Waits
    <3> QED BY <3>2, <3>3
  <2> QED BY <1>1, <2>1, <2>2 DEF Waits
<1>9. Hands(r, c)
  <2> SUFFICES ASSUME NEW u \in JobTasksOf(r), r.at[u].at \in {"kmalloc", "open"} PROVE c = u
    BY DEF Hands
  <2>1. u # t
    BY <1>1
  <2> QED BY <1>4, <2>1 DEF Good, Hands
<1>10. ASSUME NEW k \in Slots
       PROVE  r.jobs[k].kptrs = st.jobs[k].kptrs /\ r.jobs[k].fds = st.jobs[k].fds
  <2>1. CASE k = i
    BY <1>1, <2>1
  <2>2. CASE k # i
    BY <2>2
  <2> QED BY <2>1, <2>2
<1>11. ASSUME NEW u \in JobTasksOf(st), st.at[u].at \in InMain
       PROVE  u \in JobTasksOf(r) /\ r.at[u] = st.at[u]
  <2>1. u # t
    <3> SUFFICES ASSUME u = t PROVE FALSE
      OBVIOUS
    <3>1. u \in DOMAIN st.at /\ st.jobs[i].task = u /\ u # -1
      BY <1>2 DEF JobTasksOf
    <3>2. st.at[u].slot = i
      BY <3>1 DEF Good, Structure
    <3> QED BY <1>11, <3>2, StateNames DEF Good, Phases
  <2> QED BY <1>1, <2>1 DEF JobTasksOf
<1>12. Blocks(r, tn)
  <2>1. ASSUME NEW u \in JobTasksOf(r), r.at[u].at = "kmalloc"
        PROVE  r.at[u].got \in r.heap /\ \A k \in Slots : r.at[u].got \notin r.jobs[k].kptrs
    <3>1. u # t
      BY <1>1, <2>1
    <3> QED BY <1>4, <1>10, <2>1, <3>1 DEF Good, Blocks
  <2>2. \A p : InHand(st, "kmalloc", p) => InHand(r, "kmalloc", p)
    BY <1>11 DEF InHand, InMain
  <2> QED BY <1>10, <2>1, <2>2 DEF Good, Blocks
<1>13. Files(r, tn)
  <2>1. \A p : InHand(st, "open", p) => InHand(r, "open", p)
    BY <1>11 DEF InHand, InMain
  <2> QED BY <1>10, <2>1 DEF Good, Files
<1> QED
  BY <1>6, <1>7, <1>8, <1>9, <1>12, <1>13 DEF Good

LEMMA CompileErrorGood ==
    ASSUME NEW st, NEW c, NEW tn, Good(st, jit_next_id, c, tn), FreeSlots(st) # {},
           NEW bg \in BOOLEAN, NEW win \in Int
    PROVE  Good(CompileFailed(AllocJob(st, bg, win), Min(FreeSlots(st))), jit_next_id + 1, c, tn)
<1> DEFINE i == Min(FreeSlots(st))
           a == AllocJob(st, bg, win)
           b == [a EXCEPT !.jobs[i].state = FAILED]
           r == Cleanup(b, {i}, {})
<1>1. st \in Table /\ jit_next_id \in Nat /\ i \in Slots /\ st.jobs[i].state \notin Live
  BY FirstFree, StateNames DEF Good, Waits
<1>2. /\ a \in Table /\ a.at = st.at /\ a.runnable = st.runnable
      /\ a.heap = st.heap /\ a.files = st.files
      /\ \A k \in Slots : k # i => a.jobs[k] = st.jobs[k]
      /\ a.jobs[i].id = jit_next_id /\ a.jobs[i].task = st.jobs[i].task /\ a.jobs[i].waiter = -1
      /\ a.jobs[i].kptrs = {} /\ a.jobs[i].fds = {} /\ ~ a.jobs[i].code
  BY <1>1, AllocFields
<1> HIDE DEF i, a
<1>3. a.jobs \in [Slots -> Job]
  BY <1>2, TableFields
<1> DEFINE j == [a.jobs[i] EXCEPT !.state = FAILED]
<1>4. /\ j \in Job /\ j.id = jit_next_id /\ j.task = st.jobs[i].task /\ j.waiter = -1
      /\ j.kptrs = {} /\ j.fds = {} /\ ~ j.code /\ j.state = FAILED
  <2>1. a.jobs[i] \in Job
    BY <1>1, <1>3
  <2> QED BY <1>2, <2>1 DEF Job, FAILED
<1>5. b = [a EXCEPT !.jobs = [@ EXCEPT ![i] = j]]
  OBVIOUS
<1> HIDE DEF j
<1>6. /\ b \in Table /\ b.at = st.at /\ b.runnable = st.runnable
      /\ b.heap = st.heap /\ b.files = st.files /\ b.jobs = [a.jobs EXCEPT ![i] = j]
  <2>1. [a.jobs EXCEPT ![i] = j] \in [Slots -> Job]
    BY <1>1, <1>3, <1>4
  <2>2. a \in Table
    BY <1>2
  <2> HIDE DEF b
  <2>3. /\ b \in Table /\ b.at = a.at /\ b.runnable = a.runnable
        /\ b.heap = a.heap /\ b.files = a.files /\ b.jobs = [a.jobs EXCEPT ![i] = j]
    BY <1>5, <2>1, <2>2 DEF Table
  <2> QED BY <1>2, <2>3
<1>7. b.jobs[i] = j /\ \A k \in Slots : k # i => b.jobs[k] = st.jobs[k]
  BY <1>1, <1>2, <1>3, <1>6
<1> HIDE DEF b
<1>8. /\ r \in Table /\ r.at = st.at /\ r.runnable = st.runnable
      /\ r.heap = b.heap \ b.jobs[i].kptrs /\ r.files = b.files \ b.jobs[i].fds
      /\ \A k \in Slots : k # i => r.jobs[k] = b.jobs[k]
      /\ r.jobs[i].kptrs = {} /\ r.jobs[i].fds = {} /\ ~ r.jobs[i].code
      /\ r.jobs[i].state = b.jobs[i].state /\ r.jobs[i].id = b.jobs[i].id
      /\ r.jobs[i].task = b.jobs[i].task /\ r.jobs[i].waiter = b.jobs[i].waiter
  <2>1. r = Cleanup(b, {i}, {})
    OBVIOUS
  <2> HIDE DEF r
  <2>2. /\ r \in Table /\ r.at = b.at /\ r.runnable = b.runnable
        /\ r.heap = b.heap \ b.jobs[i].kptrs /\ r.files = b.files \ b.jobs[i].fds
        /\ \A k \in Slots : k # i => r.jobs[k] = b.jobs[k]
        /\ r.jobs[i].kptrs = {} /\ r.jobs[i].fds = {} /\ ~ r.jobs[i].code
        /\ r.jobs[i].state = b.jobs[i].state /\ r.jobs[i].id = b.jobs[i].id
        /\ r.jobs[i].task = b.jobs[i].task /\ r.jobs[i].waiter = b.jobs[i].waiter
    <3>1. b \in Table /\ i \in Slots
      BY <1>1, <1>6
    <3> DEFINE C == {i}
               none == {}
    <3>2. r = Cleanup(b, C, none) /\ C = {i}
      BY <2>1
    <3> HIDE DEF C, none
    <3>3. Cleaned(b, r, i)
      BY <3>1, <3>2, CleanupFields, Zenon
    <3> QED BY <3>3 DEF Cleaned
  <2> QED BY <1>6, <2>2
<1>9. r = CompileFailed(AllocJob(st, bg, win), i)
  BY DEF CompileFailed, a, b
<1> HIDE DEF r
<1>10. r.heap = st.heap /\ r.files = st.files
  BY <1>4, <1>6, <1>7, <1>8
<1>11. Good(r, jit_next_id + 1, c, tn)
  BY <1>1, <1>4, <1>7, <1>8, <1>10, SlotFailed
<1> QED
  BY <1>9, <1>11 DEF i

(* What a started job looks like.                                            *)
LEMMA StartGood ==
    ASSUME NEW st, NEW c, NEW tn, Good(st, jit_next_id, c, tn), FreeSlots(st) # {},
           NEW bg \in BOOLEAN, NEW win \in Int, NEW waiter \in Workers \cup {-1},
           NEW i, i = Min(FreeSlots(st)),
           NEW r, r = StartTask(Compiled(AllocJob(st, bg, win), i), i, waiter)
    PROVE  /\ Good(r, jit_next_id + 1, c, tn)
           /\ i \in Slots /\ r.jobs[i].id = jit_next_id /\ r.jobs[i].state = READY
           /\ r.jobs[i].waiter = waiter /\ (r.jobs[i].bg <=> bg)
           /\ \A w \in Workers : r.at[w] = st.at[w]
<1> DEFINE a == AllocJob(st, bg, win)
           b == Compiled(a, i)
           old == st.jobs[i].task
           top == TaskTop(st)
           t == IF old = -1 THEN top ELSE old
<1>1. st \in Table /\ jit_next_id \in Nat /\ i \in Slots /\ st.jobs[i].state \notin Live
  BY FirstFree, StateNames DEF Good, Waits
<1>2. /\ a \in Table /\ a.at = st.at /\ a.runnable = st.runnable
      /\ a.heap = st.heap /\ a.files = st.files
      /\ \A k \in Slots : k # i => a.jobs[k] = st.jobs[k]
      /\ a.jobs[i].id = jit_next_id /\ a.jobs[i].bg = bg
      /\ a.jobs[i].task = old /\ a.jobs[i].kptrs = {} /\ a.jobs[i].fds = {}
  BY <1>1, AllocFields
<1>3. a.jobs \in [Slots -> Job] /\ a.jobs[i] \in Job
  BY <1>1, <1>2, TableFields
<1> HIDE DEF a
<1>4. /\ top \in Nat /\ DOMAIN st.at = 0 .. top - 1 /\ st.at \in [DOMAIN st.at -> Place]
  BY <1>1, TopOf, TableFields
<1>5. /\ old = -1 \/ (old \in JobTasksOf(st) /\ st.at[old].slot = i)
      /\ Workers \subseteq DOMAIN st.at
  BY <1>1 DEF Good, Structure
<1>6. /\ t \in Nat /\ t \notin Workers /\ (t \notin DOMAIN st.at \/ t = old) /\ old \in {-1, t}
      /\ (t \in DOMAIN st.at \/ t = top)
  <2>1. CASE old = -1
    <3>1. t = top
      BY <2>1
    <3> HIDE DEF t, top, old
    <3> QED BY <1>4, <1>5, <2>1, <3>1
  <2>2. CASE old # -1
    <3>1. t = old
      BY <2>2
    <3> HIDE DEF t, top, old
    <3> QED BY <1>4, <1>5, <2>2, <3>1 DEF JobTasksOf
  <2> QED BY <2>1, <2>2
<1> DEFINE j == [[a.jobs[i] EXCEPT !.state = READY] EXCEPT !.code = TRUE]
           e == [[j EXCEPT !.task = t] EXCEPT !.waiter = waiter]
           A == [u \in DOMAIN st.at \cup {t} |-> IF u = t THEN Entry(i) ELSE st.at[u]]
<1>7. /\ j \in Job /\ j.id = jit_next_id /\ j.bg = bg /\ j.task = old
      /\ j.kptrs = {} /\ j.fds = {} /\ j.code /\ j.state = READY
  <2> HIDE DEF old
  <2> QED BY <1>2, <1>3 DEF Job, READY
<1>8. b \in Table /\ b.at = st.at /\ b.runnable = st.runnable
      /\ b.heap = st.heap /\ b.files = st.files /\ b.jobs = [a.jobs EXCEPT ![i] = j]
  <2>1. [a.jobs EXCEPT ![i] = j] \in [Slots -> Job]
    BY <1>1, <1>3, <1>7
  <2>2. b = [a EXCEPT !.jobs = [a.jobs EXCEPT ![i] = j]]
    BY <1>1, <1>2, <1>3 DEF Compiled, Table
  <2> HIDE DEF j, b
  <2>3. b \in Table /\ b.at = a.at /\ b.runnable = a.runnable
        /\ b.heap = a.heap /\ b.files = a.files /\ b.jobs = [a.jobs EXCEPT ![i] = j]
    BY <1>2, <2>1, <2>2 DEF Table
  <2> QED BY <1>2, <2>3
<1>9. /\ e \in Job /\ e.id = jit_next_id /\ e.bg = bg /\ e.task = t /\ e.waiter = waiter
      /\ e.kptrs = {} /\ e.fds = {} /\ e.code /\ e.state = READY
  <2>1. waiter \in Int
    BY WorkerNumber
  <2>2. t \in Int
    BY <1>6
  <2> DEFINE f == [j EXCEPT !.task = t]
  <2> HIDE DEF j, t
  <2>3. /\ f \in Job /\ f.id = j.id /\ f.bg = j.bg /\ f.task = t /\ f.code = j.code
        /\ f.kptrs = j.kptrs /\ f.fds = j.fds /\ f.state = j.state
    BY <1>7, <2>2 DEF Job
  <2> HIDE DEF f
  <2>4. e = [f EXCEPT !.waiter = waiter]
    BY DEF f
  <2> HIDE DEF e
  <2>5. /\ e \in Job /\ e.id = f.id /\ e.bg = f.bg /\ e.task = f.task /\ e.code = f.code
        /\ e.kptrs = f.kptrs /\ e.fds = f.fds /\ e.state = f.state /\ e.waiter = waiter
    BY <2>1, <2>3, <2>4 DEF Job
  <2> QED BY <1>7, <2>3, <2>5
<1>10. A \in Places
  <2>1. Entry(i) \in Place
    BY <1>1, SlotNumber DEF Entry, Place
  <2>2. A \in [DOMAIN st.at \cup {t} -> Place]
    BY <1>4, <2>1
  <2>3. CASE t \in DOMAIN st.at
    <3>1. DOMAIN st.at \cup {t} = 0 .. top - 1
      BY <1>4, <2>3
    <3> HIDE DEF A, t, top
    <3> QED BY <1>4, <2>2, <3>1 DEF Places
  <2>4. CASE t = top
    <3>1. DOMAIN st.at \cup {t} = 0 .. (top + 1) - 1 /\ top + 1 \in Nat
      <4> HIDE DEF t, top
      <4> QED BY <1>4, <2>4
    <3> HIDE DEF A, t, top
    <3> QED BY <2>2, <3>1 DEF Places
  <2> QED BY <1>6, <2>3, <2>4
<1>11. r = [b EXCEPT !.jobs = [b.jobs EXCEPT ![i] = e], !.at = A, !.runnable = @ \cup {t}]
  <2>1. b.jobs[i] = j
    BY <1>1, <1>3, <1>8
  <2>2. TaskTop(b) = top
    BY <1>8 DEF TaskTop
  <2>3. (j.task < 0 \/ j.task = waiter) <=> old = -1
    <3>1. old \in JobTasksOf(st) => old \notin Workers /\ old \in Nat /\ old # -1
      BY <1>4 DEF JobTasksOf
    <3>2. j.task = old
      BY <1>7
    <3> HIDE DEF j, old
    <3> QED BY <1>5, <3>1, <3>2, WorkerNumber
  <2> DEFINE n == b.jobs[i].task < 0 \/ b.jobs[i].task = waiter
             x == IF n THEN TaskTop(b) ELSE b.jobs[i].task
  <2>4. x = t
    <3>1. n <=> old = -1
      BY <2>1, <2>3
    <3>2. b.jobs[i].task = old
      BY <1>7, <2>1
    <3> HIDE DEF n
    <3> QED BY <2>2, <3>1, <3>2
  <2>5. r = Wake([b EXCEPT !.jobs[i].task = x, !.jobs[i].waiter = waiter,
                        !.at = [u \in DOMAIN @ \cup {x} |->
                                    IF u = x THEN Entry(i) ELSE @[u]]], x)
    BY DEF StartTask, a
  <2> HIDE DEF x, t
  <2> DEFINE B == [u \in DOMAIN b.at \cup {t} |-> IF u = t THEN Entry(i) ELSE b.at[u]]
  <2>6. r = [[[b EXCEPT !.jobs[i].task = t] EXCEPT !.jobs[i].waiter = waiter]
                EXCEPT !.at = B, !.runnable = @ \cup {t}]
    <3> HIDE DEF b
    <3> QED BY <1>8, <2>4, <2>5 DEF Wake, Table
  <2>7. B = A
    BY <1>8
  <2> HIDE DEF A, B
  <2>8. [[b EXCEPT !.jobs[i].task = t] EXCEPT !.jobs[i].waiter = waiter]
          = [b EXCEPT !.jobs = [b.jobs EXCEPT ![i] = e]]
    <3>1. b.jobs \in [Slots -> Job]
      BY <1>8, TableFields
    <3> HIDE DEF b, j
    <3> QED BY <1>1, <1>8, <2>1, <3>1, ZenonT(40) DEF Table
  <2> HIDE DEF b, e
  <2> QED BY <1>8, <2>6, <2>7, <2>8 DEF Table
<1>12. /\ r \in Table /\ r.at = A /\ r.runnable = st.runnable \cup {t}
       /\ r.heap = st.heap /\ r.files = st.files
       /\ r.jobs[i] = e /\ \A k \in Slots : k # i => r.jobs[k] = st.jobs[k]
  <2>1. b.jobs \in [Slots -> Job]
    BY <1>8, TableFields
  <2> DEFINE J == [b.jobs EXCEPT ![i] = e]
  <2>0. r = [b EXCEPT !.jobs = J, !.at = A, !.runnable = @ \cup {t}]
    BY <1>11
  <2>2. J \in [Slots -> Job]
    BY <1>1, <1>9, <2>1
  <2>3. t \in Int
    BY <1>6
  <2> HIDE DEF b, e, A, t
  <2>4. /\ r \in Table /\ r.at = A /\ r.runnable = b.runnable \cup {t}
        /\ r.heap = b.heap /\ r.files = b.files /\ r.jobs = J
    <3>1. b \in Table
      BY <1>8
    <3> HIDE DEF J
    <3> QED BY <1>10, <2>0, <2>2, <2>3, <3>1, ZenonT(40) DEF Table
  <2>5. \A k \in Slots : k # i => b.jobs[k] = st.jobs[k]
    BY <1>1, <1>2, <1>3, <1>8
  <2> QED BY <1>1, <1>8, <2>1, <2>4, <2>5
<1>13. /\ DOMAIN r.at = DOMAIN st.at \cup {t} /\ r.at[t] = Entry(i)
       /\ \A u \in DOMAIN st.at : u # t => r.at[u] = st.at[u]
  BY <1>12
<1>14. \A w \in Workers : r.at[w] = st.at[w]
  BY <1>5, <1>6, <1>13
<1>15. Good(r, jit_next_id + 1, c, tn)
  <2> HIDE DEF t, e, A
  <2>1. /\ r.jobs[i].id = jit_next_id /\ r.jobs[i].state = READY /\ r.jobs[i].task = t
        /\ r.jobs[i].code /\ r.jobs[i].kptrs = {} /\ r.jobs[i].fds = {}
        /\ r.jobs[i].waiter \in Workers \cup {-1}
    BY <1>9, <1>12
  <2> QED BY <1>1, <1>6, <1>12, <1>13, <2>1, SlotStarted
<1> QED
  <2> HIDE DEF e
  <2> QED BY <1>1, <1>9, <1>12, <1>14, <1>15

-----------------------------------------------------------------------------
(* The worker that started a foreground job goes to sleep in the wait loop.  *)

LEMMA WaitStep ==
    ASSUME NEW st, NEW n, NEW c \in Workers, NEW tn, Good(st, n, c, tn), st.at[c].at = "shell",
           NEW i \in Slots, NEW id \in Nat, id < n, st.jobs[i].id = id, st.jobs[i].state \in Live,
           st.jobs[i].waiter = c, ~ st.jobs[i].bg,
           NEW r, r \in Table, r.jobs = st.jobs, r.heap = st.heap, r.files = st.files,
           r.runnable = st.runnable \ {c}, DOMAIN r.at = DOMAIN st.at,
           \A u \in DOMAIN st.at : u # c => r.at[u] = st.at[u],
           r.at[c].at = "wait", r.at[c].slot = i, r.at[c].id = id
    PROVE  Good(r, n, -1, tn)
<1>1. /\ JobTasksOf(r) = JobTasksOf(st) /\ \A u \in JobTasksOf(st) : r.at[u] = st.at[u]
      /\ \A k \in Slots : st.jobs[k].task # c
  BY Numbers DEF Good, Structure, JobTasksOf
<1>2. Structure(r, -1)
  BY <1>1 DEF Good, Structure
<1>3. Phases(r)
  <2>1. \A k \in Slots : st.jobs[k].task # -1 =>
          /\ r.at[st.jobs[k].task] = st.at[st.jobs[k].task]
          /\ st.jobs[k].task \in st.runnable => st.jobs[k].task \in r.runnable
    BY <1>1 DEF Good, Structure
  <2> QED BY <1>1, <2>1, StateNames DEF Good, Phases
<1>4. Waits(r, n)
  <2>1. ASSUME NEW w \in Workers, r.at[w].at = "wait"
        PROVE  /\ r.at[w].id < n
               /\ r.jobs[r.at[w].slot].id = r.at[w].id =>
                    /\ r.jobs[r.at[w].slot].waiter = w /\ ~ r.jobs[r.at[w].slot].bg
                    /\ (w \in r.runnable \/ r.jobs[r.at[w].slot].state \in Live)
    <3>1. CASE w = c
      BY <3>1
    <3>2. CASE w # c
      <4>1. r.at[w] = st.at[w]
        BY <3>2 DEF Good, Structure
      <4> QED BY <2>1, <3>2, <4>1 DEF Good, Waits
    <3> QED BY <3>1, <3>2
  <2> QED BY <2>1 DEF Good, Waits
<1>5. \A u \in JobTasksOf(st) : st.at[u].at \notin {"kmalloc", "open"}
  BY DEF Good, Hands, JobTasksOf
<1>6. Hands(r, -1) /\ Blocks(r, tn) /\ Files(r, tn)
  BY <1>1, <1>5 DEF Good, Hands, Blocks, Files, InHand
<1> QED
  BY <1>2, <1>3, <1>4, <1>6 DEF Good

LEMMA WaitGood ==
    ASSUME NEW st, NEW n, NEW c \in Workers, NEW tn, Good(st, n, c, tn), st.at[c].at = "shell",
           NEW i \in Slots, NEW id \in Nat, id < n, st.jobs[i].id = id, st.jobs[i].state \in Live,
           st.jobs[i].waiter = c, ~ st.jobs[i].bg,
           NEW a, a = [at |-> "wait", slot |-> i, id |-> id, got |-> -1],
           NEW r, r = Block([st EXCEPT !.at[c] = a], c)
    PROVE  Good(r, n, -1, tn)
<1> DEFINE A == [st.at EXCEPT ![c] = a]
<1>1. st \in Table /\ st.at \in [DOMAIN st.at -> Place] /\ st.at \in Places /\ c \in DOMAIN st.at
  BY TableFields DEF Good, Structure
<1>2. a \in Place /\ a.at = "wait" /\ a.slot = i /\ a.id = id
  BY SlotNumber DEF Place
<1>3. A \in Places
  <2>1. A \in [DOMAIN st.at -> Place]
    BY <1>1, <1>2
  <2> QED BY <1>1, <2>1, PlacesKept
<1>4. /\ r.jobs = st.jobs /\ r.at = A /\ r.heap = st.heap /\ r.files = st.files
      /\ r.runnable = st.runnable \ {c} /\ r \in Table
  <2>1. r = [st EXCEPT !.at = A, !.runnable = @ \ {c}]
    BY <1>1 DEF Block, Table
  <2> HIDE DEF A
  <2> QED BY <1>1, <1>3, <2>1 DEF Table
<1>5. /\ DOMAIN r.at = DOMAIN st.at /\ r.at[c] = a
      /\ \A u \in DOMAIN st.at : u # c => r.at[u] = st.at[u]
  BY <1>1, <1>4
<1> QED
  BY <1>2, <1>4, <1>5, WaitStep, SMTT(30)

-----------------------------------------------------------------------------
(* Steps of the job's own task t, in slot i: a step of the program, which    *)
(* stays inside main, and the end of the job.                                *)

InProgram(st, r, t, i) ==
    /\ st.at[t].slot = i /\ st.jobs[i].state \in Live
    /\ r \in Table /\ r.runnable = st.runnable /\ DOMAIN r.at = DOMAIN st.at
    /\ \A u \in DOMAIN st.at : u # t => r.at[u] = st.at[u]
    /\ r.at[t].at \in InMain /\ r.at[t].slot = i /\ r.at[t].id = st.jobs[i].id
    /\ \A k \in Slots : k # i => r.jobs[k] = st.jobs[k]
    /\ r.jobs[i].id = st.jobs[i].id /\ r.jobs[i].task = t /\ r.jobs[i].waiter = st.jobs[i].waiter
    /\ (r.jobs[i].bg <=> st.jobs[i].bg) /\ (r.jobs[i].code <=> st.jobs[i].code)
    /\ r.jobs[i].state = RUNNING /\ ~ r.jobs[i].cancel

LEMMA ProgramGood ==
    ASSUME NEW st, NEW n, NEW tn, NEW t, Good(st, n, t, tn), t \in JobTasksOf(st),
           NEW i \in Slots, NEW r, InProgram(st, r, t, i), Blocks(r, tn), Files(r, tn)
    PROVE  Good(r, n, t, tn)
<1>0. /\ st.at[t].slot = i /\ st.jobs[i].state \in Live
      /\ r \in Table /\ r.runnable = st.runnable /\ DOMAIN r.at = DOMAIN st.at
      /\ \A u \in DOMAIN st.at : u # t => r.at[u] = st.at[u]
      /\ r.at[t].at \in InMain /\ r.at[t].slot = i /\ r.at[t].id = st.jobs[i].id
      /\ \A k \in Slots : k # i => r.jobs[k] = st.jobs[k]
      /\ r.jobs[i].id = st.jobs[i].id /\ r.jobs[i].task = t /\ r.jobs[i].waiter = st.jobs[i].waiter
      /\ (r.jobs[i].bg <=> st.jobs[i].bg) /\ (r.jobs[i].code <=> st.jobs[i].code)
      /\ r.jobs[i].state = RUNNING /\ ~ r.jobs[i].cancel
  BY DEF InProgram
<1> USE <1>0
<1>1. i \in Slots /\ st.jobs[i].task = t /\ t \in DOMAIN st.at /\ t \notin Workers
      /\ t \in st.runnable /\ st.jobs[i].code
  BY DEF Good, Structure, Phases, JobTasksOf
<1>2. JobTasksOf(r) = JobTasksOf(st) /\ \A w \in Workers : w \in DOMAIN st.at /\ r.at[w] = st.at[w]
  BY <1>1 DEF JobTasksOf, Good, Structure
<1>3. ASSUME NEW k \in Slots, k # i
      PROVE  /\ r.jobs[k] = st.jobs[k]
             /\ st.jobs[k].task # -1 => /\ r.at[st.jobs[k].task] = st.at[st.jobs[k].task]
                                        /\ st.jobs[k].task \in JobTasksOf(st)
  <2>1. st.jobs[k].task # t
    BY <1>1, <1>3, Numbers, TableFields DEF Good, Structure
  <2> QED BY <1>3, <2>1 DEF Good, Structure, JobTasksOf
<1>4. ASSUME NEW u \in JobTasksOf(r), u # t
      PROVE  /\ u \in JobTasksOf(st) /\ u \in DOMAIN st.at /\ r.at[u] = st.at[u]
             /\ st.at[u].slot \in Slots /\ st.at[u].slot # i
             /\ st.jobs[st.at[u].slot].task = u /\ r.jobs[st.at[u].slot] = st.jobs[st.at[u].slot]
  BY <1>1, <1>2, <1>4 DEF Good, Structure, JobTasksOf
<1>5. Structure(r, t)
  <2>1. Workers \subseteq DOMAIN r.at /\ r.runnable \subseteq DOMAIN r.at /\ t \in DOMAIN r.at \cup {-1}
    BY <1>1 DEF Good, Structure
  <2>2. \A w \in Workers :
          r.at[w].at = "shell" \/ (r.at[w].at = "wait" /\ r.at[w].slot \in Slots)
    BY <1>2 DEF Good, Structure
  <2>3. ASSUME NEW u \in JobTasksOf(r)
        PROVE  /\ r.at[u].at \in {"entry", "trampoline"} \cup InMain
               /\ r.at[u].slot \in Slots /\ r.jobs[r.at[u].slot].task = u
    <3>1. CASE u = t
      BY <1>1, <3>1
    <3>2. CASE u # t
      BY <1>4, <3>2 DEF Good, Structure
    <3> QED BY <3>1, <3>2
  <2>4. ASSUME NEW k \in Slots
        PROVE  /\ r.jobs[k].task = -1 \/ (r.jobs[k].task \in JobTasksOf(r) /\ r.at[r.jobs[k].task].slot = k)
               /\ r.jobs[k].waiter \in Workers \cup {-1}
    <3>1. CASE k = i
      BY <1>1, <1>2, <3>1 DEF Good, Structure
    <3>2. CASE k # i
      BY <1>2, <1>3, <3>2 DEF Good, Structure
    <3> QED BY <3>1, <3>2
  <2> QED BY <2>1, <2>2, <2>3, <2>4 DEF Structure
<1>6. Phases(r)
  <2>1. ASSUME NEW k \in Slots
        PROVE  /\ r.jobs[k].state # "compiling"
               /\ r.jobs[k].state \in Live =>
                    r.jobs[k].task # -1 /\ r.jobs[k].task \in r.runnable /\ r.jobs[k].code
               /\ r.jobs[k].state = READY =>
                    r.at[r.jobs[k].task].at = "entry" /\ r.jobs[k].kptrs = {} /\ r.jobs[k].fds = {}
               /\ r.jobs[k].state = RUNNING => r.at[r.jobs[k].task].at \in InMain /\ ~ r.jobs[k].cancel
               /\ r.jobs[k].state \notin Live =>
                    r.jobs[k].kptrs = {} /\ r.jobs[k].fds = {} /\ ~ r.jobs[k].code
    <3>1. CASE k = i
      <4>1. t # -1
        BY <1>1, TableFields DEF Good
      <4> QED BY <1>1, <3>1, <4>1, StateNames
    <3>2. CASE k # i
      BY <1>3, <3>2, StateNames DEF Good, Phases
    <3> QED BY <3>1, <3>2
  <2>2. ASSUME NEW u \in JobTasksOf(r), r.at[u].at \in InMain
        PROVE  /\ r.jobs[r.at[u].slot].state = RUNNING
               /\ r.jobs[r.at[u].slot].id = r.at[u].id
    <3>1. CASE u = t
      BY <1>1, <3>1
    <3>2. CASE u # t
      BY <1>4, <2>2, <3>2 DEF Good, Phases
    <3> QED BY <3>1, <3>2
  <2> QED BY <2>1, <2>2 DEF Phases
<1>7. Waits(r, n)
  <2>1. \A k \in Slots : r.jobs[k].id = st.jobs[k].id /\ r.jobs[k].waiter = st.jobs[k].waiter
                         /\ (r.jobs[k].bg <=> st.jobs[k].bg)
                         /\ (st.jobs[k].state \in Live => r.jobs[k].state \in Live)
    BY StateNames
  <2>2. Waits(st, n) /\ \A w \in Workers : st.at[w].at = "wait" => st.at[w].slot \in Slots
    BY DEF Good, Structure
  <2>3. r.runnable = st.runnable /\ \A w \in Workers : r.at[w] = st.at[w]
    BY <1>2
  <2>4. n \in Nat /\ \A k \in Slots : r.jobs[k].id < n
    BY <2>1, <2>2 DEF Waits
  <2> HIDE <1>0
  <2>5. ASSUME NEW w \in Workers, r.at[w].at = "wait"
        PROVE  /\ r.at[w].id < n
               /\ r.jobs[r.at[w].slot].id = r.at[w].id =>
                     /\ r.jobs[r.at[w].slot].waiter = w /\ ~ r.jobs[r.at[w].slot].bg
                     /\ w \in r.runnable \/ r.jobs[r.at[w].slot].state \in Live
    <3>1. st.at[w].at = "wait" /\ st.at[w].slot \in Slots /\ r.at[w] = st.at[w] /\ r.runnable = st.runnable
      BY <2>2, <2>3, <2>5
    <3>2. /\ st.at[w].id < n
          /\ st.jobs[st.at[w].slot].id = st.at[w].id =>
                /\ st.jobs[st.at[w].slot].waiter = w /\ ~ st.jobs[st.at[w].slot].bg
                /\ w \in st.runnable \/ st.jobs[st.at[w].slot].state \in Live
      BY <2>2, <3>1, Zenon DEF Waits
    <3> QED BY <2>1, <3>1, <3>2
  <2> QED BY <2>4, <2>5 DEF Waits
<1>8. Hands(r, t)
  <2> SUFFICES ASSUME NEW u \in JobTasksOf(r), u # t, r.at[u].at \in {"kmalloc", "open"} PROVE FALSE
    BY DEF Hands
  <2> QED BY <1>2, <1>4 DEF Good, Hands
<1> QED
  BY <1>5, <1>6, <1>7, <1>8 DEF Good

(* The job of task t ends, by itself or by the timer trap: what it listed is *)
(* given back, and the workers of W, the one that waits for it among them,   *)
(* are woken.                                                                *)
Over(st, r, t, i, W) ==
    /\ st.at[t].slot = i
    /\ W \subseteq Workers
    /\ ~ st.jobs[i].bg /\ st.jobs[i].waiter # -1 => st.jobs[i].waiter \in W
    /\ r \in Table /\ r.runnable = (st.runnable \cup W) \ {t} /\ DOMAIN r.at = DOMAIN st.at
    /\ \A u \in DOMAIN st.at : u # t => r.at[u] = st.at[u]
    /\ r.at[t].at \in {"entry", "trampoline"} /\ r.at[t].slot = i
    /\ r.heap = st.heap \ st.jobs[i].kptrs /\ r.files = st.files \ st.jobs[i].fds
    /\ \A k \in Slots : k # i => r.jobs[k] = st.jobs[k]
    /\ r.jobs[i].id = st.jobs[i].id /\ r.jobs[i].task = t /\ r.jobs[i].waiter = st.jobs[i].waiter
    /\ (r.jobs[i].bg <=> st.jobs[i].bg) /\ ~ r.jobs[i].code
    /\ r.jobs[i].kptrs = {} /\ r.jobs[i].fds = {} /\ r.jobs[i].state \in {DONE, FAILED}

(* Only something in hand can be left behind.                                *)
Tears(tn, tm, where) == (tn => tm) /\ (where \in {"kmalloc", "open"} => tm)

LEMMA EndedGood ==
    ASSUME NEW st, NEW n, NEW tn, NEW tm, NEW t, Good(st, n, t, tn), t \in JobTasksOf(st),
           NEW i \in Slots, NEW W, NEW r, Over(st, r, t, i, W),
           Tears(tn, tm, st.at[t].at)
    PROVE  Good(r, n, -1, tm)
<1>0. /\ st.at[t].slot = i
      /\ W \subseteq Workers
      /\ ~ st.jobs[i].bg /\ st.jobs[i].waiter # -1 => st.jobs[i].waiter \in W
      /\ r \in Table /\ r.runnable = (st.runnable \cup W) \ {t} /\ DOMAIN r.at = DOMAIN st.at
      /\ \A u \in DOMAIN st.at : u # t => r.at[u] = st.at[u]
      /\ r.at[t].at \in {"entry", "trampoline"} /\ r.at[t].slot = i
      /\ r.heap = st.heap \ st.jobs[i].kptrs /\ r.files = st.files \ st.jobs[i].fds
      /\ \A k \in Slots : k # i => r.jobs[k] = st.jobs[k]
      /\ r.jobs[i].id = st.jobs[i].id /\ r.jobs[i].task = t /\ r.jobs[i].waiter = st.jobs[i].waiter
      /\ (r.jobs[i].bg <=> st.jobs[i].bg) /\ ~ r.jobs[i].code
      /\ r.jobs[i].kptrs = {} /\ r.jobs[i].fds = {} /\ r.jobs[i].state \in {DONE, FAILED}
  BY DEF Over
<1> USE <1>0 DEF Tears
<1>1. st.jobs[i].task = t /\ t \in DOMAIN st.at /\ t \notin Workers
  BY DEF Good, Structure, JobTasksOf
<1>2. JobTasksOf(r) = JobTasksOf(st) /\ \A w \in Workers : w \in DOMAIN st.at /\ r.at[w] = st.at[w]
  BY <1>1 DEF JobTasksOf, Good, Structure
<1>3. ASSUME NEW k \in Slots, k # i
      PROVE  /\ r.jobs[k] = st.jobs[k] /\ st.jobs[k].task # t
             /\ st.jobs[k].task # -1 => /\ r.at[st.jobs[k].task] = st.at[st.jobs[k].task]
                                        /\ st.jobs[k].task \in JobTasksOf(st)
  <2>1. st.jobs[k].task # t
    BY <1>1, <1>3, Numbers, TableFields DEF Good, Structure
  <2> QED BY <1>3, <2>1 DEF Good, Structure, JobTasksOf
<1>4. ASSUME NEW u \in JobTasksOf(r), u # t
      PROVE  /\ u \in JobTasksOf(st) /\ u \in DOMAIN st.at /\ r.at[u] = st.at[u]
             /\ st.at[u].slot \in Slots /\ st.at[u].slot # i
             /\ st.jobs[st.at[u].slot].task = u /\ r.jobs[st.at[u].slot] = st.jobs[st.at[u].slot]
  BY <1>1, <1>2, <1>4 DEF Good, Structure, JobTasksOf
<1>5. Structure(r, -1)
  <2>1. Workers \subseteq DOMAIN r.at /\ r.runnable \subseteq DOMAIN r.at /\ -1 \in DOMAIN r.at \cup {-1}
    BY <1>1 DEF Good, Structure
  <2>2. \A w \in Workers :
          r.at[w].at = "shell" \/ (r.at[w].at = "wait" /\ r.at[w].slot \in Slots)
    BY <1>2 DEF Good, Structure
  <2>3. ASSUME NEW u \in JobTasksOf(r)
        PROVE  /\ r.at[u].at \in {"entry", "trampoline"} \cup InMain
               /\ r.at[u].slot \in Slots /\ r.jobs[r.at[u].slot].task = u
    <3>1. CASE u = t
      BY <1>1, <3>1
    <3>2. CASE u # t
      BY <1>4, <3>2 DEF Good, Structure
    <3> QED BY <3>1, <3>2
  <2>4. ASSUME NEW k \in Slots
        PROVE  /\ r.jobs[k].task = -1 \/ (r.jobs[k].task \in JobTasksOf(r) /\ r.at[r.jobs[k].task].slot = k)
               /\ r.jobs[k].waiter \in Workers \cup {-1}
    <3>1. CASE k = i
      BY <1>1, <1>2, <3>1 DEF Good, Structure
    <3>2. CASE k # i
      BY <1>2, <1>3, <3>2 DEF Good, Structure
    <3> QED BY <3>1, <3>2
  <2> QED BY <2>1, <2>2, <2>3, <2>4 DEF Structure
<1>6. Phases(r)
  <2>1. ASSUME NEW k \in Slots
        PROVE  /\ r.jobs[k].state # "compiling"
               /\ r.jobs[k].state \in Live =>
                    r.jobs[k].task # -1 /\ r.jobs[k].task \in r.runnable /\ r.jobs[k].code
               /\ r.jobs[k].state = READY =>
                    r.at[r.jobs[k].task].at = "entry" /\ r.jobs[k].kptrs = {} /\ r.jobs[k].fds = {}
               /\ r.jobs[k].state = RUNNING => r.at[r.jobs[k].task].at \in InMain /\ ~ r.jobs[k].cancel
               /\ r.jobs[k].state \notin Live =>
                    r.jobs[k].kptrs = {} /\ r.jobs[k].fds = {} /\ ~ r.jobs[k].code
    <3>1. CASE k = i
      BY <3>1, StateNames
    <3>2. CASE k # i
      BY <1>3, <3>2, StateNames DEF Good, Phases
    <3> QED BY <3>1, <3>2
  <2>2. ASSUME NEW u \in JobTasksOf(r), r.at[u].at \in InMain
        PROVE  /\ r.jobs[r.at[u].slot].state = RUNNING
               /\ r.jobs[r.at[u].slot].id = r.at[u].id
    <3>1. u # t
      BY <2>2 DEF InMain
    <3> QED BY <1>4, <2>2, <3>1 DEF Good, Phases
  <2> QED BY <2>1, <2>2 DEF Phases
<1>7. Waits(r, n)
  <2>1. \A k \in Slots : r.jobs[k].id = st.jobs[k].id /\ r.jobs[k].waiter = st.jobs[k].waiter
                         /\ (r.jobs[k].bg <=> st.jobs[k].bg)
    OBVIOUS
  <2>2. ASSUME NEW w \in Workers, r.at[w].at = "wait"
        PROVE  /\ r.at[w].id < n
               /\ r.jobs[r.at[w].slot].id = r.at[w].id =>
                    /\ r.jobs[r.at[w].slot].waiter = w /\ ~ r.jobs[r.at[w].slot].bg
                    /\ (w \in r.runnable \/ r.jobs[r.at[w].slot].state \in Live)
    <3>1. r.at[w] = st.at[w] /\ st.at[w].slot \in Slots /\ w # t /\ w # -1
      BY <1>1, <1>2, <2>2, Numbers DEF Good, Structure
    <3>2. CASE st.at[w].slot = i
      BY <2>1, <2>2, <3>1, <3>2 DEF Good, Waits
    <3>3. CASE st.at[w].slot # i
      BY <2>1, <2>2, <3>1, <3>3 DEF Good, Waits
    <3> QED BY <3>2, <3>3
  <2> QED BY <2>1, <2>2 DEF Good, Waits
<1>8. ASSUME NEW u \in JobTasksOf(r) PROVE r.at[u].at \notin {"kmalloc", "open"}
  <2>1. CASE u = t
    BY <2>1
  <2>2. CASE u # t
    BY <1>4, <2>2 DEF Good, Hands
  <2> QED BY <2>1, <2>2
<1>9. \A u \in JobTasksOf(st) : st.at[u].at \in {"kmalloc", "open"} => tm
  BY DEF Good, Hands
<1>10. Hands(r, -1)
  BY <1>8 DEF Hands
<1>11. Blocks(r, tm)
  <2>1. \A k \in Slots : r.jobs[k].kptrs \subseteq r.heap
    BY DEF Good, Blocks
  <2>2. \A k, l \in Slots : k # l => r.jobs[k].kptrs \cap r.jobs[l].kptrs = {}
    <3>1. \A k \in Slots : r.jobs[k].kptrs \subseteq st.jobs[k].kptrs
      OBVIOUS
    <3> QED BY <3>1 DEF Good, Blocks
  <2>3. ASSUME ~ tm, NEW p \in r.heap PROVE \E k \in Slots : p \in r.jobs[k].kptrs
    <3>1. PICK k \in Slots : p \in st.jobs[k].kptrs
      BY <1>9, <2>3 DEF Good, Blocks, InHand
    <3> QED BY <2>3, <3>1
  <2> QED BY <1>8, <2>1, <2>2, <2>3 DEF Blocks
<1>12. Files(r, tm)
  <2>1. ASSUME ~ tm, NEW p \in r.files PROVE \E k \in Slots : p \in r.jobs[k].fds
    <3>1. PICK k \in Slots : p \in st.jobs[k].fds
      BY <1>9, <2>1 DEF Good, Files, InHand
    <3> QED BY <2>1, <3>1
  <2> QED BY <2>1 DEF Files
<1> QED
  BY <1>5, <1>6, <1>7, <1>10, <1>11, <1>12 DEF Good

(* A step of a job task rewrites its slot, its place and what is allocated.  *)
Rewrites(st, r, i, t, j, a, h, f) ==
    /\ r \in Table /\ r.runnable = st.runnable /\ r.heap = h /\ r.files = f
    /\ r.jobs[i] = j /\ \A k \in Slots : k # i => r.jobs[k] = st.jobs[k]
    /\ DOMAIN r.at = DOMAIN st.at /\ r.at[t] = a
    /\ \A u \in DOMAIN st.at : u # t => r.at[u] = st.at[u]

LEMMA Rewritten ==
    ASSUME NEW st, st \in Table, NEW i, i \in Slots, NEW t, t \in DOMAIN st.at,
           NEW j, j \in Job, NEW a, a \in Place,
           NEW h, h \in SUBSET Ptrs, NEW f, f \in SUBSET Int,
           NEW r, r = [st EXCEPT !.jobs = [st.jobs EXCEPT ![i] = j], !.at = [st.at EXCEPT ![t] = a],
                                 !.heap = h, !.files = f]
    PROVE  Rewrites(st, r, i, t, j, a, h, f)
<1> DEFINE J == [st.jobs EXCEPT ![i] = j]
           A == [st.at EXCEPT ![t] = a]
<1>1. st.jobs \in [Slots -> Job] /\ st.at \in [DOMAIN st.at -> Place] /\ st.at \in Places
  BY TableFields
<1>2. A \in Places
  <2>1. A \in [DOMAIN st.at -> Place]
    BY <1>1
  <2> QED BY <1>1, <2>1, PlacesKept
<1>3. J \in [Slots -> Job]
  BY <1>1
<1>4. r = [st EXCEPT !.jobs = J, !.at = A, !.heap = h, !.files = f]
  OBVIOUS
<1>5. /\ J[i] = j /\ \A k \in Slots : k # i => J[k] = st.jobs[k]
      /\ DOMAIN A = DOMAIN st.at /\ A[t] = a /\ \A u \in DOMAIN st.at : u # t => A[u] = st.at[u]
  BY <1>1
<1> HIDE DEF J, A
<1>6. /\ r \in Table /\ r.runnable = st.runnable /\ r.heap = h /\ r.files = f
      /\ r.jobs = J /\ r.at = A
  BY <1>2, <1>3, <1>4 DEF Table
<1> QED
  BY <1>5, <1>6 DEF Rewrites

(* ... and perhaps what no job answers for.                                  *)
LEMMA Loosened ==
    ASSUME NEW st, NEW q, NEW i, NEW t, NEW j, NEW a, NEW h, NEW f, Rewrites(st, q, i, t, j, a, h, f),
           NEW l, l \in SUBSET Int, NEW m, m \in SUBSET Stream,
           NEW r, r = [q EXCEPT !.loose = l, !.streams = m]
    PROVE  Rewrites(st, r, i, t, j, a, h, f)
<1>1. q \in Table
  BY DEF Rewrites
<1>2. /\ r \in Table /\ r.jobs = q.jobs /\ r.at = q.at /\ r.runnable = q.runnable
      /\ r.heap = q.heap /\ r.files = q.files
  BY <1>1 DEF Table
<1> QED
  BY <1>2 DEF Rewrites

(* The end of jit_job_execute, from the table f in which the slot has its    *)
(* last state: what it listed is given back, its foreground waiter is woken. *)
Woken(j) == IF ~ j.bg /\ j.waiter >= 0 THEN {j.waiter} ELSE {}

Closed(f, r, t, i) ==
    /\ Woken(f.jobs[i]) \subseteq Workers
    /\ ~ f.jobs[i].bg /\ f.jobs[i].waiter # -1 => f.jobs[i].waiter \in Woken(f.jobs[i])
    /\ r \in Table /\ r.runnable = (f.runnable \cup Woken(f.jobs[i])) \ {t} /\ r.at = f.at
    /\ r.heap = f.heap \ f.jobs[i].kptrs /\ r.files = f.files \ f.jobs[i].fds
    /\ \A k \in Slots : k # i => r.jobs[k] = f.jobs[k]
    /\ r.jobs[i].kptrs = {} /\ r.jobs[i].fds = {} /\ ~ r.jobs[i].code
    /\ r.jobs[i].state = f.jobs[i].state /\ r.jobs[i].id = f.jobs[i].id
    /\ (r.jobs[i].bg <=> f.jobs[i].bg) /\ r.jobs[i].task = f.jobs[i].task
    /\ r.jobs[i].waiter = f.jobs[i].waiter

LEMMA FinishFields ==
    ASSUME NEW f, f \in Table, NEW i, i \in Slots, NEW t, f.jobs[i].waiter \in Workers \cup {-1},
           NEW C, C = {i}, NEW kept,
           NEW r, r = Block(WakeForegroundWaiter(Cleanup(f, C, kept), i), t)
    PROVE  Closed(f, r, t, i)
<1> DEFINE c == Cleanup(f, C, kept)
           j == f.jobs[i]
           w == j.waiter
           W == Woken(j)
<1>0. W = IF ~ j.bg /\ w >= 0 THEN {w} ELSE {}
  BY DEF Woken
<1> HIDE DEF W
<1>1. w \in Workers \cup {-1}
  OBVIOUS
<1>2. /\ c \in Table /\ c.at = f.at /\ c.runnable = f.runnable
      /\ c.heap = f.heap \ f.jobs[i].kptrs /\ c.files = f.files \ f.jobs[i].fds
      /\ \A k \in Slots : k # i => c.jobs[k] = f.jobs[k]
      /\ c.jobs[i].kptrs = {} /\ c.jobs[i].fds = {} /\ ~ c.jobs[i].code
      /\ c.jobs[i].state = f.jobs[i].state /\ c.jobs[i].id = f.jobs[i].id
      /\ c.jobs[i].bg = f.jobs[i].bg /\ c.jobs[i].task = f.jobs[i].task
      /\ c.jobs[i].waiter = f.jobs[i].waiter
  <2>1. c = Cleanup(f, C, kept)
    OBVIOUS
  <2> HIDE DEF c
  <2>2. Cleaned(f, c, i)
    BY <2>1, CleanupFields, Zenon
  <2> QED BY <2>2 DEF Cleaned
<1> HIDE DEF c
<1>3. /\ W \subseteq Workers /\ W \subseteq Int
      /\ ~ j.bg /\ w # -1 => w \in W
  <2>1. CASE ~ j.bg /\ w >= 0
    <3>1. w \in Workers
      BY <1>1, <2>1
    <3>2. W = {w}
      BY <1>0, <2>1
    <3> QED BY <3>1, <3>2, WorkerNumber, Zenon
  <2>2. CASE ~ (~ j.bg /\ w >= 0)
    <3>1. W = {}
      BY <1>0, <2>2
    <3>2. ~ j.bg => w = -1
      BY <1>1, <2>2, WorkerNumber
    <3> HIDE DEF w
    <3> QED BY <3>1, <3>2
  <2> QED BY <2>1, <2>2
<1>4. r = [c EXCEPT !.runnable = (@ \cup W) \ {t}]
  <2>1. c.jobs[i].bg = j.bg /\ c.jobs[i].waiter = w
    BY <1>2
  <2>2. r = Block(IF ~ j.bg /\ w >= 0 THEN Wake(c, w) ELSE c, t)
    BY <2>1 DEF WakeForegroundWaiter, c
  <2>3. [c EXCEPT !.runnable = @ \cup {}] = c
    BY <1>2 DEF Table
  <2>4. r = Block([c EXCEPT !.runnable = @ \cup W], t)
    BY <1>0, <2>2, <2>3 DEF Wake
  <2>5. [[c EXCEPT !.runnable = @ \cup W] EXCEPT !.runnable = @ \ {t}]
          = [c EXCEPT !.runnable = (@ \cup W) \ {t}]
    BY <1>2 DEF Table
  <2> QED BY <2>4, <2>5 DEF Block
<1>5. /\ r \in Table /\ r.runnable = (c.runnable \cup W) \ {t} /\ r.at = c.at
      /\ r.jobs = c.jobs /\ r.heap = c.heap /\ r.files = c.files
  <2>1. c \in Table
    BY <1>2
  <2> QED BY <1>3, <1>4, <2>1 DEF Table
<1>6. /\ r.runnable = (f.runnable \cup W) \ {t} /\ r.at = f.at
      /\ r.heap = f.heap \ f.jobs[i].kptrs /\ r.files = f.files \ f.jobs[i].fds
      /\ \A k \in Slots : k # i => r.jobs[k] = f.jobs[k]
      /\ r.jobs[i].kptrs = {} /\ r.jobs[i].fds = {} /\ ~ r.jobs[i].code
      /\ r.jobs[i].state = f.jobs[i].state /\ r.jobs[i].id = f.jobs[i].id
      /\ r.jobs[i].bg = f.jobs[i].bg /\ r.jobs[i].task = f.jobs[i].task
      /\ r.jobs[i].waiter = f.jobs[i].waiter
  BY <1>2, <1>5, Zenon
<1>7. r.jobs[i].bg <=> f.jobs[i].bg
  BY <1>6
<1>8. ~ j.bg /\ w # -1 => w \in W
  BY <1>3
<1> QED
  BY <1>3, <1>5, <1>6, <1>7, <1>8, Zenon DEF Closed, W

(* f is the table st after the job in slot i got its last state and its task *)
(* t is back at the entry.                                                   *)
Ending(st, f, t, i) ==
    /\ st.at[t].slot = i /\ st.at[t].at \notin {"kmalloc", "open"}
    /\ f.runnable = st.runnable /\ f.heap = st.heap /\ f.files = st.files
    /\ \A k \in Slots : k # i => f.jobs[k] = st.jobs[k]
    /\ f.jobs[i].id = st.jobs[i].id /\ f.jobs[i].task = t
    /\ f.jobs[i].waiter = st.jobs[i].waiter /\ (f.jobs[i].bg <=> st.jobs[i].bg)
    /\ f.jobs[i].kptrs = st.jobs[i].kptrs /\ f.jobs[i].fds = st.jobs[i].fds
    /\ f.jobs[i].state \in {DONE, FAILED}
    /\ DOMAIN f.at = DOMAIN st.at /\ f.at[t] = Entry(i)
    /\ \A u \in DOMAIN st.at : u # t => f.at[u] = st.at[u]

LEMMA FinishGood ==
    ASSUME NEW st, NEW n, NEW tn, NEW t, Good(st, n, t, tn), t \in JobTasksOf(st),
           NEW i, i \in Slots, NEW f, f \in Table, Ending(st, f, t, i), NEW kept
    PROVE  Good(Block(WakeForegroundWaiter(Cleanup(f, {i}, kept), i), t), n, -1, tn)
<1> DEFINE C == {i}
           r == Block(WakeForegroundWaiter(Cleanup(f, C, kept), i), t)
           W == Woken(f.jobs[i])
<1>1. C = {i} /\ r = Block(WakeForegroundWaiter(Cleanup(f, C, kept), i), t)
  OBVIOUS
<1>2. f.jobs[i].waiter \in Workers \cup {-1}
  BY DEF Good, Structure, Ending
<1> HIDE DEF C, r, W
<1>3. Closed(f, r, t, i)
  BY <1>1, <1>2, FinishFields
<1>4. /\ W \subseteq Workers /\ ~ f.jobs[i].bg /\ f.jobs[i].waiter # -1 => f.jobs[i].waiter \in W
  BY <1>3 DEF Closed, W
<1>5. Over(st, r, t, i, W)
  <2>1. /\ r \in Table /\ r.runnable = (st.runnable \cup W) \ {t} /\ DOMAIN r.at = DOMAIN st.at
        /\ \A u \in DOMAIN st.at : u # t => r.at[u] = st.at[u]
    BY <1>3 DEF Closed, Ending, W
  <2>2. r.at[t].at \in {"entry", "trampoline"} /\ r.at[t].slot = i
    BY <1>3, EntryFields DEF Closed, Ending
  <2>3. /\ r.heap = st.heap \ st.jobs[i].kptrs /\ r.files = st.files \ st.jobs[i].fds
        /\ \A k \in Slots : k # i => r.jobs[k] = st.jobs[k]
    BY <1>3 DEF Closed, Ending
  <2>4. /\ r.jobs[i].id = st.jobs[i].id /\ r.jobs[i].task = t /\ r.jobs[i].waiter = st.jobs[i].waiter
        /\ (r.jobs[i].bg <=> st.jobs[i].bg) /\ ~ r.jobs[i].code
        /\ r.jobs[i].kptrs = {} /\ r.jobs[i].fds = {} /\ r.jobs[i].state \in {DONE, FAILED}
    BY <1>3 DEF Closed, Ending
  <2>5. /\ st.at[t].slot = i /\ W \subseteq Workers
        /\ ~ st.jobs[i].bg /\ st.jobs[i].waiter # -1 => st.jobs[i].waiter \in W
    BY <1>3 DEF Closed, Ending, W
  <2> QED BY <2>1, <2>2, <2>3, <2>4, <2>5 DEF Over
<1>6. Tears(tn, tn, st.at[t].at)
  BY DEF Ending, Tears
<1>7. Good(r, n, -1, tn)
  BY <1>5, <1>6, EndedGood
<1> QED
  BY <1>1, <1>7

-----------------------------------------------------------------------------
(* The actions.                                                              *)

LEMMA InitIInv == Init => IInv
<1> SUFFICES ASSUME Init PROVE IInv
  OBVIOUS
<1> DEFINE J == [i \in Slots |-> EmptyJob]
           A == [t \in Workers |-> Shell]
<1>1. /\ EmptyJob.id = 0 /\ EmptyJob.state = EMPTY /\ EmptyJob.task = -1
      /\ Shell \in Place /\ Shell.at = "shell"
  BY DEF EmptyJob, Shell, Place
<1>2. J \in [Slots -> Job] /\ A \in Places /\ DOMAIN A = Workers
  BY <1>1, EmptyJobFields, WorkersAssumption DEF Places, Workers
<1>3. /\ s.jobs = J /\ s.at = A /\ s.runnable = {} /\ s.heap = {} /\ s.files = {} /\ s \in Table
  <2>1. s = [jobs |-> J, runnable |-> {}, at |-> A, heap |-> {}, files |-> {},
             loose |-> {}, streams |-> {}]
    BY DEF Init
  <2> HIDE DEF J, A
  <2> QED BY <1>2, <2>1 DEF Table
<1>4. JobTasksOf(s) = {} /\ jit_next_id = 1 /\ cpu = -1
  BY <1>2, <1>3 DEF JobTasksOf, Init
<1>5. \A i \in Slots : s.jobs[i] = EmptyJob
  BY <1>3
<1>6. \A t \in Workers : s.at[t] = Shell
  BY <1>3
<1>7. Structure(s, cpu) /\ Phases(s) /\ Waits(s, jit_next_id)
  BY <1>1, <1>2, <1>3, <1>4, <1>5, <1>6, EmptyJobFields, StateNames DEF Structure, Phases, Waits
<1>8. Hands(s, cpu) /\ Blocks(s, torn) /\ Files(s, torn)
  BY <1>3, <1>4, <1>5, EmptyJobFields DEF Hands, Blocks, Files
<1> QED
  BY <1>3, <1>7, <1>8 DEF IInv, Good

(* A worker in its shell holds the CPU, so no job has anything in hand.      *)
LEMMA ShellCpu ==
    ASSUME IInv, NEW win \in Windows, InShell(win)
    PROVE  /\ cpu \in Workers /\ s.at[cpu].at = "shell" /\ cpu \notin JobTasksOf(s)
           /\ win \in Int /\ WorkerOf(win) \in Workers
  BY Numbers DEF InShell, JobTasksOf

LEMMA DispatchGood == ASSUME IInv, Dispatch PROVE IInv'
<1>1. \A t \in JobTasksOf(s) : t # cpu
  BY TableFields DEF Dispatch, JobTasksOf, IInv, Good
<1>2. cpu' \in DOMAIN s.at \cup {-1}
  BY DEF Dispatch, IInv, Good, Structure
<1>3. Good(s, jit_next_id, cpu', torn)
  BY <1>1, <1>2, CpuGood DEF IInv
<1> QED
  BY <1>3 DEF Dispatch, IInv

LEMMA RestGood == ASSUME IInv, Rest PROVE IInv'
<1>1. PICK win \in Windows : InShell(win)
  BY DEF Rest
<1>2. Good(Block(s, cpu), jit_next_id, -1, torn)
  BY <1>1, ShellCpu, SleepGood DEF IInv
<1> QED
  BY <1>2 DEF Rest, SleepAs, IInv

LEMMA PokeGood == ASSUME IInv, NEW win \in Windows, Poke(win) PROVE IInv'
<1> DEFINE W == {WorkerOf(win)}
<1>1. W \subseteq DOMAIN s.at
  BY Numbers DEF IInv, Good, Structure
<1> HIDE DEF W
<1>2. Good([s EXCEPT !.runnable = @ \cup W], jit_next_id, cpu, torn)
  BY <1>1, WakeGood DEF IInv
<1> QED
  BY <1>2 DEF Poke, Wake, IInv, W

LEMMA GuiCtrlCGood == ASSUME IInv, NEW win \in Windows, GuiCtrlC(win) PROVE IInv'
<1> DEFINE W == {WorkerOf(win)}
           C == Cancellable(s, win)
           nobody == -1
<1>1. C \in SUBSET Slots /\ cpu \notin JobTasksOf(s) /\ nobody \notin Workers
  BY Numbers, TableFields DEF Cancellable, GuiCtrlC, JobTasksOf, IInv, Good
<1>2. PICK kept : /\ s' = Wake(CancelByOwner(s, win, -1, kept), WorkerOf(win))
                  /\ UNCHANGED <<jit_next_id, cpu, torn>>
  BY DEF GuiCtrlC
<1> DEFINE r == CancelSlots(s, C, nobody, kept)
<1>3. s' = [r EXCEPT !.runnable = @ \cup W] /\ UNCHANGED <<jit_next_id, cpu, torn>>
  BY <1>2 DEF Wake, CancelByOwner
<1> HIDE DEF C, nobody
<1>4. Good(r, jit_next_id, cpu, torn)
  BY <1>1, CancelGood DEF IInv
<1> HIDE DEF r
<1>5. W \subseteq DOMAIN r.at
  BY <1>4, Numbers DEF Good, Structure
<1> HIDE DEF W
<1>6. Good([r EXCEPT !.runnable = @ \cup W], jit_next_id, cpu, torn)
  BY <1>4, <1>5, WakeGood
<1> QED
  BY <1>3, <1>6 DEF IInv

LEMMA CompileErrorStep ==
    ASSUME IInv, NEW win \in Windows, NEW bg \in BOOLEAN, CompileError(win, bg) PROVE IInv'
<1>1. win \in Int /\ FreeSlots(s) # {}
  BY Numbers DEF CompileError
<1>2. Good(CompileFailed(AllocJob(s, bg, win), Min(FreeSlots(s))), jit_next_id + 1, cpu, torn)
  BY <1>1, CompileErrorGood DEF IInv
<1> QED
  BY <1>2 DEF CompileError, TakeId, IInv

LEMMA RunForegroundStep ==
    ASSUME IInv, NEW win \in Windows, RunForeground(win) PROVE IInv'
<1> DEFINE i == Min(FreeSlots(s))
           a == StartTask(Compiled(AllocJob(s, FALSE, win), i), i, cpu)
           p == [at |-> "wait", slot |-> i, id |-> jit_next_id, got |-> -1]
<1>1. /\ cpu \in Workers /\ s.at[cpu].at = "shell" /\ win \in Int /\ FreeSlots(s) # {}
      /\ jit_next_id \in Nat
  BY ShellCpu DEF RunForeground, IInv, Good, Waits
<1>2. /\ s' = Block([a EXCEPT !.at[cpu] = p], cpu) /\ cpu' = -1 /\ jit_next_id' = jit_next_id + 1
      /\ torn' = torn
  BY DEF RunForeground, SleepAs, TakeId
<1>3. /\ Good(a, jit_next_id + 1, cpu, torn)
      /\ i \in Slots /\ a.jobs[i].id = jit_next_id /\ a.jobs[i].state = READY
      /\ a.jobs[i].waiter = cpu /\ (a.jobs[i].bg <=> FALSE)
      /\ \A w \in Workers : a.at[w] = s.at[w]
  <2>1. Good(s, jit_next_id, cpu, torn) /\ cpu \in Workers \cup {-1}
    BY <1>1 DEF IInv
  <2> DEFINE bg == FALSE
  <2>2. a = StartTask(Compiled(AllocJob(s, bg, win), i), i, cpu) /\ bg \in BOOLEAN
    OBVIOUS
  <2> HIDE DEF a, bg, i
  <2>3. /\ Good(a, jit_next_id + 1, cpu, torn)
        /\ i \in Slots /\ a.jobs[i].id = jit_next_id /\ a.jobs[i].state = READY
        /\ a.jobs[i].waiter = cpu /\ (a.jobs[i].bg <=> bg)
        /\ \A w \in Workers : a.at[w] = s.at[w]
    BY <1>1, <2>1, <2>2, StartGood DEF i
  <2> QED BY <2>3 DEF bg
<1> HIDE DEF i, a
<1>4. a.at[cpu].at = "shell" /\ a.jobs[i].state \in Live /\ ~ a.jobs[i].bg
      /\ jit_next_id < jit_next_id + 1
  BY <1>1, <1>3, StateNames
<1>5. Good(s', jit_next_id + 1, -1, torn)
  <2> DEFINE m == jit_next_id + 1
  <2>1. Good(a, m, cpu, torn) /\ jit_next_id < m
    BY <1>3, <1>4
  <2> HIDE DEF m
  <2>2. Good(s', m, -1, torn)
    BY <1>1, <1>2, <1>3, <1>4, <2>1, WaitGood
  <2> QED BY <2>2 DEF m
<1> QED
  BY <1>2, <1>5 DEF IInv

(* A background job started from any good table.                             *)
LEMMA BackgroundGood ==
    ASSUME NEW st, NEW c, NEW tn, Good(st, jit_next_id, c, tn), FreeSlots(st) # {}, NEW win \in Int
    PROVE  Good(StartBackground(st, win), jit_next_id + 1, c, tn)
<1> DEFINE i == Min(FreeSlots(st))
           bg == TRUE
           nobody == -1
           r == StartTask(Compiled(AllocJob(st, bg, win), i), i, nobody)
<1>1. StartBackground(st, win) = r /\ bg \in BOOLEAN /\ nobody \in Workers \cup {-1}
  BY DEF StartBackground
<1> HIDE DEF bg, nobody
<1>2. Good(r, jit_next_id + 1, c, tn)
  BY <1>1, StartGood
<1> QED
  BY <1>1, <1>2

LEMMA RunBackgroundStep ==
    ASSUME IInv, NEW win \in Windows, RunBackground(win) PROVE IInv'
<1>1. Good(StartBackground(s, win), jit_next_id + 1, cpu, torn)
  BY BackgroundGood, Numbers DEF RunBackground, IInv
<1> QED
  BY <1>1 DEF RunBackground, TakeId, IInv

LEMMA ShellCancelGood ==
    ASSUME IInv, NEW win \in Windows, InShell(win), NEW kept
    PROVE  Good(CancelByOwner(s, win, cpu, kept), jit_next_id, cpu, torn)
<1> DEFINE C == Cancellable(s, win)
<1>1. C \in SUBSET Slots
  BY DEF Cancellable
<1>2. cpu \notin JobTasksOf(s) /\ s.at[cpu].at # "wait"
  BY ShellCpu
<1> HIDE DEF C
<1>3. Good(CancelSlots(s, C, cpu, kept), jit_next_id, cpu, torn)
  BY <1>1, <1>2, CancelGood DEF IInv
<1> QED
  BY <1>3 DEF CancelByOwner, C

LEMMA RunDebugStep ==
    ASSUME IInv, NEW win \in Windows, RunDebug(win) PROVE IInv'
<1>0. PICK kept :
         LET st == CancelByOwner(s, win, cpu, kept)
         IN  InShell(win) /\ FreeSlots(st) # {} /\ TakeId /\ s' = StartBackground(st, win)
             /\ UNCHANGED <<cpu, torn>>
  BY DEF RunDebug
<1> DEFINE st == CancelByOwner(s, win, cpu, kept)
<1>1. Good(st, jit_next_id, cpu, torn)
  BY <1>0, ShellCancelGood
<1>2. /\ FreeSlots(st) # {} /\ s' = StartBackground(st, win) /\ jit_next_id' = jit_next_id + 1
      /\ UNCHANGED <<cpu, torn>> /\ win \in Int
  BY <1>0, Numbers DEF TakeId
<1> HIDE DEF st
<1>3. Good(StartBackground(st, win), jit_next_id + 1, cpu, torn)
  BY <1>1, <1>2, BackgroundGood
<1> QED
  BY <1>2, <1>3 DEF IInv

LEMMA KillStep ==
    ASSUME IInv, NEW win \in Windows, NEW i \in Slots, Kill(win, i) PROVE IInv'
<1>1. cpu \notin JobTasksOf(s)
  BY ShellCpu DEF Kill
<1>2. PICK kept : s' = KillSlot(s, i, kept) /\ UNCHANGED <<jit_next_id, cpu, torn>>
  BY DEF Kill
<1>3. Good(KillSlot(s, i, kept), jit_next_id, cpu, torn)
  BY <1>1, KillGood DEF IInv
<1> QED
  BY <1>2, <1>3 DEF IInv

LEMMA ShellCtrlCStep ==
    ASSUME IInv, NEW win \in Windows, ShellCtrlC(win) PROVE IInv'
<1>1. PICK kept : s' = CancelByOwner(s, win, cpu, kept) /\ UNCHANGED <<jit_next_id, cpu, torn>>
  BY DEF ShellCtrlC
<1>2. Good(CancelByOwner(s, win, cpu, kept), jit_next_id, cpu, torn)
  BY ShellCancelGood DEF ShellCtrlC
<1> QED
  BY <1>1, <1>2 DEF IInv

(* The loop of os_jit_run.                                                   *)
LEMMA WaitLoopStep ==
    ASSUME IInv, NEW t \in Workers, WaitLoop(t) PROVE IInv'
<1> DEFINE i == s.at[t].slot
<1>1. /\ s \in Table /\ t \in DOMAIN s.at /\ s.at[t].at = "wait" /\ cpu = t
      /\ cpu \notin JobTasksOf(s) /\ UNCHANGED <<jit_next_id, torn>>
  BY DEF IInv, Good, Structure, JobTasksOf, WaitLoop
<1>2. CASE s.jobs[i].state \in {READY, RUNNING}
  <2>1. s' = Block(s, t) /\ cpu' = -1
    BY <1>2 DEF WaitLoop, SleepAs
  <2>2. s.jobs[s.at[t].slot].state \in Live
    BY <1>2 DEF Live
  <2>3. Good(Block(s, t), jit_next_id, -1, torn)
    BY <1>1, <2>2, SleepGood DEF IInv
  <2> QED BY <1>1, <2>1, <2>3 DEF IInv
<1>3. CASE s.jobs[i].state \notin {READY, RUNNING}
  <2> DEFINE A == [s.at EXCEPT ![t] = Shell]
  <2>1. s' = [s EXCEPT !.at = A] /\ cpu' = cpu
    BY <1>3 DEF WaitLoop
  <2>2. Shell \in Place /\ Shell.at = "shell"
    BY DEF Shell, Place
  <2>3. A \in Places /\ DOMAIN A = DOMAIN s.at /\ A[t] = Shell
        /\ \A u \in DOMAIN s.at : u # t => A[u] = s.at[u]
    <3>1. s.at \in Places /\ s.at \in [DOMAIN s.at -> Place]
      BY <1>1, TableFields
    <3>2. A \in [DOMAIN s.at -> Place]
      BY <2>2, <3>1
    <3> QED BY <1>1, <3>1, <3>2, PlacesKept
  <2> HIDE DEF A
  <2>4. /\ s' \in Table /\ s'.jobs = s.jobs /\ s'.runnable = s.runnable
        /\ s'.heap = s.heap /\ s'.files = s.files /\ s'.at = A
    BY <1>1, <2>1, <2>3 DEF Table
  <2>5. JobTasksOf(s') = JobTasksOf(s) /\ \A u \in JobTasksOf(s) : s'.at[u] = s.at[u]
    BY <2>3, <2>4 DEF JobTasksOf
  <2>6. Structure(s', cpu)
    BY <2>2, <2>3, <2>4, <2>5 DEF IInv, Good, Structure
  <2>7. Phases(s')
    <3>1. \A k \in Slots : s.jobs[k].task # -1 => s'.at[s.jobs[k].task] = s.at[s.jobs[k].task]
      BY <2>5 DEF IInv, Good, Structure
    <3> QED BY <2>4, <2>5, <3>1, StateNames DEF IInv, Good, Phases
  <2>8. Waits(s', jit_next_id)
    BY <2>2, <2>3, <2>4 DEF IInv, Good, Waits, Structure
  <2>9. Hands(s', cpu) /\ Blocks(s', torn) /\ Files(s', torn)
    BY <2>4, <2>5 DEF IInv, Good, Hands, Blocks, Files, InHand
  <2> QED BY <1>1, <2>1, <2>4, <2>6, <2>7, <2>8, <2>9 DEF IInv, Good
<1> QED
  BY <1>2, <1>3

-----------------------------------------------------------------------------
(* The actions of a job's task.                                              *)

LEMMA TaskCpu ==
    ASSUME IInv, NEW t \in JobTasks, cpu = t
    PROVE  /\ t \in JobTasksOf(s) /\ t \in DOMAIN s.at /\ t \in Int /\ s \in Table
           /\ Good(s, jit_next_id, t, torn)
           /\ SlotOf(t) \in Slots /\ s.at[t].slot = SlotOf(t) /\ s.jobs[SlotOf(t)].task = t
           /\ s.jobs[SlotOf(t)] \in Job /\ s.at[t] \in Place
           /\ s.heap \in SUBSET Ptrs /\ s.files \in SUBSET Int
<1>1. /\ t \in JobTasksOf(s) /\ t \in DOMAIN s.at /\ s \in Table /\ Good(s, jit_next_id, t, torn)
  BY DEF JobTasks, JobTasksOf, IInv, Good
<1>2. /\ SlotOf(t) \in Slots /\ s.at[t].slot = SlotOf(t) /\ s.jobs[SlotOf(t)].task = t
  BY <1>1 DEF Good, Structure, SlotOf
<1>3. /\ s.jobs \in [Slots -> Job] /\ s.at \in [DOMAIN s.at -> Place] /\ DOMAIN s.at \subseteq Nat
      /\ s.heap \in SUBSET Ptrs /\ s.files \in SUBSET Int
  BY <1>1, TableFields
<1> QED
  BY <1>1, <1>2, <1>3

(* In main the job is RUNNING and not cancelled.                             *)
LEMMA MainPhase ==
    ASSUME IInv, NEW t \in JobTasks, cpu = t, s.at[t].at \in InMain
    PROVE  /\ s.jobs[SlotOf(t)].state = RUNNING /\ ~ s.jobs[SlotOf(t)].cancel
           /\ s.jobs[SlotOf(t)].id = s.at[t].id /\ s.jobs[SlotOf(t)].state \in Live
  BY TaskCpu, StateNames DEF Good, Phases

Returned(q) == [q EXCEPT !.exit = 0, !.state = DONE]
Invalid(q, t) == [q EXCEPT !.task = t, !.cancel = FALSE, !.state = FAILED, !.exit = -3]

LEMMA JobField ==
    ASSUME NEW q \in Job
    PROVE  /\ \A x \in Int : [q EXCEPT !.exit = x] \in Job
           /\ \A x \in {DONE, FAILED, RUNNING} : [q EXCEPT !.state = x] \in Job
           /\ \A x \in Int : [q EXCEPT !.task = x] \in Job
           /\ [q EXCEPT !.cancel = FALSE] \in Job
<1>1. \A x \in Int : [q EXCEPT !.exit = x] \in Job
  BY DEF Job
<1>2. \A x \in {DONE, FAILED, RUNNING} : [q EXCEPT !.state = x] \in Job
  BY DEF Job
<1>3. \A x \in Int : [q EXCEPT !.task = x] \in Job
  BY DEF Job
<1>4. [q EXCEPT !.cancel = FALSE] \in Job
  BY DEF Job
<1> QED
  BY <1>1, <1>2, <1>3, <1>4

LEMMA JobEnds ==
    ASSUME NEW q \in Job, NEW t \in Int
    PROVE  /\ Returned(q) \in Job /\ Returned(q).id = q.id /\ Returned(q).task = q.task
           /\ Returned(q).waiter = q.waiter /\ Returned(q).bg = q.bg
           /\ Returned(q).kptrs = q.kptrs /\ Returned(q).fds = q.fds /\ Returned(q).state = DONE
           /\ Invalid(q, t) \in Job /\ Invalid(q, t).id = q.id /\ Invalid(q, t).task = t
           /\ Invalid(q, t).waiter = q.waiter /\ Invalid(q, t).bg = q.bg
           /\ Invalid(q, t).kptrs = q.kptrs /\ Invalid(q, t).fds = q.fds /\ Invalid(q, t).state = FAILED
<1>1. Returned(q) \in Job
  <2> DEFINE a == [q EXCEPT !.exit = 0]
             b == [a EXCEPT !.state = DONE]
  <2>1. a \in Job
    BY DEF Job
  <2> HIDE DEF a
  <2>2. b \in Job
    BY <2>1, JobField
  <2>3. Returned(q) = b
    BY DEF Returned, a
  <2> QED BY <2>2, <2>3
<1>2. /\ Returned(q).id = q.id /\ Returned(q).task = q.task /\ Returned(q).waiter = q.waiter
      /\ Returned(q).bg = q.bg /\ Returned(q).state = DONE
  BY DEF Job, Returned
<1>3. Returned(q).kptrs = q.kptrs /\ Returned(q).fds = q.fds
  BY DEF Job, Returned
<1>4. Invalid(q, t) \in Job
  <2> DEFINE x == -3
             a == [q EXCEPT !.task = t]
             b == [a EXCEPT !.cancel = FALSE]
             c == [b EXCEPT !.state = FAILED]
             d == [c EXCEPT !.exit = x]
  <2>1. a \in Job
    BY JobField
  <2>2. Invalid(q, t) = d /\ x \in Int
    BY DEF Invalid
  <2> HIDE DEF a, x
  <2>3. b \in Job
    BY <2>1, JobField
  <2> HIDE DEF b
  <2>4. c \in Job
    BY <2>3, JobField
  <2> HIDE DEF c
  <2>5. d \in Job
    BY <2>2, <2>4, JobField
  <2> HIDE DEF d
  <2> QED BY <2>2, <2>5
<1>5. /\ Invalid(q, t).id = q.id /\ Invalid(q, t).task = t
      /\ Invalid(q, t).waiter = q.waiter /\ Invalid(q, t).bg = q.bg /\ Invalid(q, t).state = FAILED
  BY DEF Job, Invalid
<1>6. Invalid(q, t).kptrs = q.kptrs /\ Invalid(q, t).fds = q.fds
  BY DEF Job, Invalid
<1> QED
  BY <1>1, <1>2, <1>3, <1>4, <1>5, <1>6, Zenon

LEMMA InvalidMainStep ==
    ASSUME IInv, NEW t \in JobTasks, InvalidMain(t) PROVE IInv'
<1> DEFINE i == SlotOf(t)
           j == [s.jobs[i] EXCEPT !.task = t, !.cancel = FALSE, !.state = FAILED, !.exit = -3]
           e == Entry(i)
           f == [[s EXCEPT !.jobs[i] = j] EXCEPT !.at[t] = e]
<1>1. cpu = t /\ s.at[t].at = "entry" /\ UNCHANGED <<jit_next_id, torn>>
  BY DEF InvalidMain, At
<1>2. /\ t \in JobTasksOf(s) /\ t \in DOMAIN s.at /\ t \in Int /\ s \in Table
      /\ Good(s, jit_next_id, t, torn)
      /\ i \in Slots /\ s.at[t].slot = i /\ s.jobs[i].task = t
      /\ s.jobs[i] \in Job /\ s.at[t] \in Place
      /\ s.heap \in SUBSET Ptrs /\ s.files \in SUBSET Int
  BY <1>1, TaskCpu
<1>4. PICK kept : s' = Block(WakeForegroundWaiter(Cleanup(f, {i}, kept), i), t) /\ cpu' = -1
  BY DEF InvalidMain, Finish, SleepAs
<1>5. /\ j \in Job /\ j.id = s.jobs[i].id /\ j.task = t /\ j.waiter = s.jobs[i].waiter
      /\ j.bg = s.jobs[i].bg /\ j.kptrs = s.jobs[i].kptrs /\ j.fds = s.jobs[i].fds
      /\ j.state \in {DONE, FAILED}
  <2> DEFINE q == s.jobs[i]
  <2> HIDE DEF i, q
  <2>1. j = Invalid(q, t) /\ q \in Job
    BY <1>2 DEF q, Invalid
  <2> HIDE DEF j
  <2>2. /\ j \in Job /\ j.id = q.id /\ j.waiter = q.waiter /\ j.bg = q.bg
        /\ j.kptrs = q.kptrs /\ j.fds = q.fds /\ j.state \in {DONE, FAILED} /\ j.task = t
    BY <1>2, <2>1, JobEnds, Zenon
  <2> QED BY <1>2, <2>2 DEF q
<1>6. e \in Place
  BY <1>2, SlotNumber DEF Entry, Place
<1> HIDE DEF i, j, e
<1>7. f = [s EXCEPT !.jobs = [s.jobs EXCEPT ![i] = j], !.at = [s.at EXCEPT ![t] = e],
                    !.heap = s.heap, !.files = s.files]
  BY <1>2 DEF Table
<1> HIDE DEF f
<1>8. Rewrites(s, f, i, t, j, e, s.heap, s.files)
  <2> DEFINE h == s.heap
             fs == s.files
  <2>1. f = [s EXCEPT !.jobs = [s.jobs EXCEPT ![i] = j], !.at = [s.at EXCEPT ![t] = e],
                      !.heap = h, !.files = fs]
    BY <1>7
  <2>2. h \in SUBSET Ptrs /\ fs \in SUBSET Int
    BY <1>2
  <2> HIDE DEF h, fs
  <2>3. Rewrites(s, f, i, t, j, e, h, fs)
    BY <1>2, <1>5, <1>6, <2>1, <2>2, Rewritten
  <2> QED BY <2>3 DEF h, fs
<1>9. Ending(s, f, t, i) /\ f \in Table
  BY <1>1, <1>2, <1>5, <1>8 DEF Rewrites, Ending, e
<1>10. Good(Block(WakeForegroundWaiter(Cleanup(f, {i}, kept), i), t), jit_next_id, -1, torn)
  BY <1>2, <1>9, FinishGood
<1> QED
  BY <1>1, <1>4, <1>10 DEF IInv

LEMMA MainReturnsStep ==
    ASSUME IInv, NEW t \in JobTasks, MainReturns(t) PROVE IInv'
<1> DEFINE i == SlotOf(t)
           j == [s.jobs[i] EXCEPT !.exit = 0, !.state = DONE]
           e == Entry(i)
           f == [[s EXCEPT !.jobs[i] = j] EXCEPT !.at[t] = e]
<1>1. cpu = t /\ s.at[t].at = "main" /\ UNCHANGED <<jit_next_id, torn>>
  BY DEF MainReturns, At
<1>2. /\ t \in JobTasksOf(s) /\ t \in DOMAIN s.at /\ t \in Int /\ s \in Table
      /\ Good(s, jit_next_id, t, torn)
      /\ i \in Slots /\ s.at[t].slot = i /\ s.jobs[i].task = t
      /\ s.jobs[i] \in Job /\ s.at[t] \in Place
      /\ s.heap \in SUBSET Ptrs /\ s.files \in SUBSET Int
  BY <1>1, TaskCpu
<1>3. ~ s.jobs[i].cancel /\ s.jobs[i].state # FAILED
  BY <1>1, MainPhase, StateNames DEF InMain
<1>4. PICK kept : s' = Block(WakeForegroundWaiter(Cleanup(f, {i}, kept), i), t) /\ cpu' = -1
  BY <1>3 DEF MainReturns, Finish, SleepAs
<1>5. /\ j \in Job /\ j.id = s.jobs[i].id /\ j.task = t /\ j.waiter = s.jobs[i].waiter
      /\ j.bg = s.jobs[i].bg /\ j.kptrs = s.jobs[i].kptrs /\ j.fds = s.jobs[i].fds
      /\ j.state \in {DONE, FAILED}
  <2> DEFINE q == s.jobs[i]
  <2> HIDE DEF i, q
  <2>1. j = Returned(q) /\ q \in Job
    BY <1>2 DEF q, Returned
  <2> HIDE DEF j
  <2>2. /\ j \in Job /\ j.id = q.id /\ j.waiter = q.waiter /\ j.bg = q.bg
        /\ j.kptrs = q.kptrs /\ j.fds = q.fds /\ j.state \in {DONE, FAILED} /\ j.task = q.task
    BY <1>2, <2>1, JobEnds, Zenon
  <2> QED BY <1>2, <2>2 DEF q
<1>6. e \in Place
  BY <1>2, SlotNumber DEF Entry, Place
<1> HIDE DEF i, j, e
<1>7. f = [s EXCEPT !.jobs = [s.jobs EXCEPT ![i] = j], !.at = [s.at EXCEPT ![t] = e],
                    !.heap = s.heap, !.files = s.files]
  BY <1>2 DEF Table
<1> HIDE DEF f
<1>8. Rewrites(s, f, i, t, j, e, s.heap, s.files)
  <2> DEFINE h == s.heap
             fs == s.files
  <2>1. f = [s EXCEPT !.jobs = [s.jobs EXCEPT ![i] = j], !.at = [s.at EXCEPT ![t] = e],
                      !.heap = h, !.files = fs]
    BY <1>7
  <2>2. h \in SUBSET Ptrs /\ fs \in SUBSET Int
    BY <1>2
  <2> HIDE DEF h, fs
  <2>3. Rewrites(s, f, i, t, j, e, h, fs)
    BY <1>2, <1>5, <1>6, <2>1, <2>2, Rewritten
  <2> QED BY <2>3 DEF h, fs
<1>9. Ending(s, f, t, i) /\ f \in Table
  BY <1>1, <1>2, <1>5, <1>8 DEF Rewrites, Ending, e
<1>10. Good(Block(WakeForegroundWaiter(Cleanup(f, {i}, kept), i), t), jit_next_id, -1, torn)
  BY <1>2, <1>9, FinishGood
<1> QED
  BY <1>1, <1>4, <1>10 DEF IInv

LEMMA JitYieldStep ==
    ASSUME IInv, NEW t \in JobTasks, JitYield(t) PROVE IInv'
<1>1. cpu = t /\ s.at[t].at = "main" /\ UNCHANGED <<jit_next_id, torn>>
  BY DEF JitYield, At
<1>2. ~ s.jobs[SlotOf(t)].cancel
  BY <1>1, MainPhase DEF InMain
<1>3. s' = s /\ cpu' = -1
  BY <1>2 DEF JitYield
<1>4. \A u \in JobTasksOf(s) : s.at[u].at \in {"kmalloc", "open"} => u # cpu
  BY <1>1
<1> DEFINE d == -1
<1>5. d \in DOMAIN s.at \cup {-1}
  OBVIOUS
<1> HIDE DEF d
<1>6. Good(s, jit_next_id, d, torn)
  BY <1>4, <1>5, CpuGood DEF IInv
<1> QED
  BY <1>1, <1>3, <1>6 DEF IInv, d

-----------------------------------------------------------------------------
(* What a step of the program does to the blocks and the files.              *)

LEMMA OthersKept ==
    ASSUME NEW st, NEW n, NEW tn, NEW t, Good(st, n, t, tn), t \in JobTasksOf(st),
           NEW i, NEW j, NEW a, NEW h, NEW f, NEW r, Rewrites(st, r, i, t, j, a, h, f)
    PROVE  /\ JobTasksOf(r) = JobTasksOf(st)
           /\ \A u \in JobTasksOf(st) : u # t =>
                 r.at[u] = st.at[u] /\ st.at[u].at \notin {"kmalloc", "open"}
  BY DEF Rewrites, JobTasksOf, Good, Hands

LEMMA BlocksKept ==
    ASSUME NEW st, NEW n, NEW tn, NEW t, Good(st, n, t, tn), t \in JobTasksOf(st),
           NEW i, i \in Slots, NEW j, NEW a, NEW h, NEW f, NEW r, Rewrites(st, r, i, t, j, a, h, f),
           h = st.heap, j.kptrs = st.jobs[i].kptrs, st.at[t].at # "kmalloc", a.at # "kmalloc"
    PROVE  Blocks(r, tn)
<1>1. /\ JobTasksOf(r) = JobTasksOf(st)
      /\ \A u \in JobTasksOf(st) : u # t =>
            r.at[u] = st.at[u] /\ st.at[u].at \notin {"kmalloc", "open"}
  BY OthersKept
<1>2. /\ \A u \in JobTasksOf(st) : r.at[u].at # "kmalloc" /\ st.at[u].at # "kmalloc"
      /\ r.heap = st.heap /\ \A k \in Slots : r.jobs[k].kptrs = st.jobs[k].kptrs
  BY <1>1 DEF Rewrites
<1> QED
  BY <1>1, <1>2 DEF Good, Blocks, InHand

LEMMA FilesKept ==
    ASSUME NEW st, NEW n, NEW tn, NEW t, Good(st, n, t, tn), t \in JobTasksOf(st),
           NEW i, i \in Slots, NEW j, NEW a, NEW h, NEW f, NEW r, Rewrites(st, r, i, t, j, a, h, f),
           f \subseteq st.files, j.fds = st.jobs[i].fds, st.at[t].at # "open", a.at # "open"
    PROVE  Files(r, tn)
<1>1. /\ JobTasksOf(r) = JobTasksOf(st)
      /\ \A u \in JobTasksOf(st) : u # t =>
            r.at[u] = st.at[u] /\ st.at[u].at \notin {"kmalloc", "open"}
  BY OthersKept
<1>2. /\ \A u \in JobTasksOf(st) : r.at[u].at # "open" /\ st.at[u].at # "open"
      /\ r.files \subseteq st.files /\ \A k \in Slots : r.jobs[k].fds = st.jobs[k].fds
  BY <1>1 DEF Rewrites
<1> QED
  BY <1>1, <1>2 DEF Good, Files, InHand

(* A block comes into hand.                                                  *)
LEMMA BlockTaken ==
    ASSUME NEW st, NEW n, NEW tn, NEW t, Good(st, n, t, tn), t \in JobTasksOf(st),
           NEW i, i \in Slots, NEW j, NEW a, NEW h, NEW f, NEW r, Rewrites(st, r, i, t, j, a, h, f),
           NEW p, p \notin st.heap, h = st.heap \cup {p}, j.kptrs = st.jobs[i].kptrs,
           st.at[t].at # "kmalloc", a.at = "kmalloc", a.got = p
    PROVE  Blocks(r, tn)
<1>1. /\ JobTasksOf(r) = JobTasksOf(st)
      /\ \A u \in JobTasksOf(st) : u # t =>
            r.at[u] = st.at[u] /\ st.at[u].at \notin {"kmalloc", "open"}
  BY OthersKept
<1>2. /\ \A u \in JobTasksOf(st) : st.at[u].at # "kmalloc" /\ (r.at[u].at = "kmalloc" => u = t)
      /\ r.at[t].at = "kmalloc" /\ r.at[t].got = p
      /\ r.heap = st.heap \cup {p} /\ \A k \in Slots : r.jobs[k].kptrs = st.jobs[k].kptrs
  BY <1>1 DEF Rewrites
<1>3. \A k \in Slots : st.jobs[k].kptrs \subseteq st.heap
  BY DEF Good, Blocks
<1>4. InHand(r, "kmalloc", p)
  BY <1>1, <1>2 DEF InHand
<1>5. ASSUME ~ tn, NEW q \in r.heap
      PROVE  (\E k \in Slots : q \in r.jobs[k].kptrs) \/ InHand(r, "kmalloc", q)
  <2>1. CASE q = p
    BY <1>4, <2>1
  <2>2. CASE q # p
    <3>1. ~ InHand(st, "kmalloc", q)
      BY <1>2 DEF InHand
    <3> QED BY <1>2, <1>5, <2>2, <3>1 DEF Good, Blocks
  <2> QED BY <2>1, <2>2
<1>6. \A k, l \in Slots : k # l => r.jobs[k].kptrs \cap r.jobs[l].kptrs = {}
  BY <1>2 DEF Good, Blocks
<1> QED
  BY <1>1, <1>2, <1>3, <1>5, <1>6 DEF Blocks

(* The block in hand is listed, or freed when the list is full.              *)
LEMMA BlockListed ==
    ASSUME NEW st, NEW n, NEW tn, NEW t, Good(st, n, t, tn), t \in JobTasksOf(st),
           NEW i, i \in Slots, NEW j, NEW a, NEW h, NEW f, NEW r, Rewrites(st, r, i, t, j, a, h, f),
           st.at[t].at = "kmalloc", a.at # "kmalloc", NEW p, p = st.at[t].got,
           \/ h = st.heap /\ j.kptrs = st.jobs[i].kptrs \cup {p}
           \/ h = st.heap \ {p} /\ j.kptrs = st.jobs[i].kptrs
    PROVE  Blocks(r, tn)
<1>1. /\ JobTasksOf(r) = JobTasksOf(st)
      /\ \A u \in JobTasksOf(st) : u # t =>
            r.at[u] = st.at[u] /\ st.at[u].at \notin {"kmalloc", "open"}
  BY OthersKept
<1>2. /\ \A u \in JobTasksOf(st) : r.at[u].at # "kmalloc" /\ (st.at[u].at = "kmalloc" => u = t)
      /\ r.heap = h /\ r.jobs[i].kptrs = j.kptrs
      /\ \A k \in Slots : k # i => r.jobs[k].kptrs = st.jobs[k].kptrs
  BY <1>1 DEF Rewrites
<1>3. /\ p \in st.heap /\ \A k \in Slots : p \notin st.jobs[k].kptrs
      /\ \A k \in Slots : st.jobs[k].kptrs \subseteq st.heap
      /\ \A k, l \in Slots : k # l => st.jobs[k].kptrs \cap st.jobs[l].kptrs = {}
  BY DEF Good, Blocks
<1>4. \A k \in Slots : r.jobs[k].kptrs \subseteq r.heap
  BY <1>2, <1>3
<1>5. \A k, l \in Slots : k # l => r.jobs[k].kptrs \cap r.jobs[l].kptrs = {}
  BY <1>2, <1>3
<1>6. ASSUME ~ tn, NEW q \in r.heap PROVE \E k \in Slots : q \in r.jobs[k].kptrs
  <2>1. q \in st.heap /\ (q = p => q \in r.jobs[i].kptrs)
    BY <1>2, <1>3, <1>6
  <2>2. CASE q = p
    BY <2>1, <2>2
  <2>3. CASE q # p
    <3>1. ~ InHand(st, "kmalloc", q)
      BY <1>2, <2>3 DEF InHand
    <3>2. PICK k \in Slots : q \in st.jobs[k].kptrs
      BY <1>6, <2>1, <3>1 DEF Good, Blocks
    <3>3. q \in r.jobs[k].kptrs
      BY <1>2, <3>2
    <3> QED BY <3>3
  <2> QED BY <2>2, <2>3
<1> QED
  BY <1>1, <1>2, <1>4, <1>5, <1>6 DEF Blocks

(* A listed block is freed.                                                  *)
LEMMA BlockFreed ==
    ASSUME NEW st, NEW n, NEW tn, NEW t, Good(st, n, t, tn), t \in JobTasksOf(st),
           NEW i, i \in Slots, NEW j, NEW a, NEW h, NEW f, NEW r, Rewrites(st, r, i, t, j, a, h, f),
           st.at[t].at # "kmalloc", a.at # "kmalloc", NEW p, p \in st.jobs[i].kptrs,
           h = st.heap \ {p}, j.kptrs = st.jobs[i].kptrs \ {p}
    PROVE  Blocks(r, tn)
<1>1. /\ JobTasksOf(r) = JobTasksOf(st)
      /\ \A u \in JobTasksOf(st) : u # t =>
            r.at[u] = st.at[u] /\ st.at[u].at \notin {"kmalloc", "open"}
  BY OthersKept
<1>2. /\ \A u \in JobTasksOf(st) : r.at[u].at # "kmalloc" /\ st.at[u].at # "kmalloc"
      /\ r.heap = st.heap \ {p} /\ r.jobs[i].kptrs = st.jobs[i].kptrs \ {p}
      /\ \A k \in Slots : k # i => r.jobs[k].kptrs = st.jobs[k].kptrs
  BY <1>1 DEF Rewrites
<1>3. /\ \A k \in Slots : st.jobs[k].kptrs \subseteq st.heap
      /\ \A k, l \in Slots : k # l => st.jobs[k].kptrs \cap st.jobs[l].kptrs = {}
  BY DEF Good, Blocks
<1>4. \A k \in Slots : r.jobs[k].kptrs = st.jobs[k].kptrs \ {p}
  BY <1>2, <1>3
<1>5. ASSUME ~ tn, NEW q \in r.heap PROVE \E k \in Slots : q \in r.jobs[k].kptrs
  <2>1. ~ InHand(st, "kmalloc", q)
    BY <1>2 DEF InHand
  <2>2. PICK k \in Slots : q \in st.jobs[k].kptrs
    BY <1>2, <1>5, <2>1 DEF Good, Blocks
  <2> QED BY <1>2, <1>4, <1>5, <2>2
<1> QED
  BY <1>1, <1>2, <1>3, <1>4, <1>5 DEF Blocks

(* A file is opened, listed or closed.                                       *)
LEMMA FileOpened ==
    ASSUME NEW st, NEW n, NEW tn, NEW t, Good(st, n, t, tn), t \in JobTasksOf(st),
           NEW i, i \in Slots, NEW j, NEW a, NEW h, NEW f, NEW r, Rewrites(st, r, i, t, j, a, h, f),
           NEW p, f = st.files \cup {p}, j.fds = st.jobs[i].fds,
           st.at[t].at # "open", a.at = "open", a.got = p
    PROVE  Files(r, tn)
<1>1. /\ JobTasksOf(r) = JobTasksOf(st)
      /\ \A u \in JobTasksOf(st) : u # t =>
            r.at[u] = st.at[u] /\ st.at[u].at \notin {"kmalloc", "open"}
  BY OthersKept
<1>2. /\ \A u \in JobTasksOf(st) : st.at[u].at # "open"
      /\ r.at[t].at = "open" /\ r.at[t].got = p
      /\ r.files = st.files \cup {p} /\ \A k \in Slots : r.jobs[k].fds = st.jobs[k].fds
  BY <1>1 DEF Rewrites
<1>3. InHand(r, "open", p)
  BY <1>1, <1>2 DEF InHand
<1>4. ASSUME ~ tn, NEW q \in r.files
      PROVE  (\E k \in Slots : q \in r.jobs[k].fds) \/ InHand(r, "open", q)
  <2>1. CASE q = p
    BY <1>3, <2>1
  <2>2. CASE q # p
    <3>1. ~ InHand(st, "open", q)
      BY <1>2 DEF InHand
    <3> QED BY <1>2, <1>4, <2>2, <3>1 DEF Good, Files
  <2> QED BY <2>1, <2>2
<1> QED
  BY <1>4 DEF Files

LEMMA FileListed ==
    ASSUME NEW st, NEW n, NEW tn, NEW t, Good(st, n, t, tn), t \in JobTasksOf(st),
           NEW i, i \in Slots, NEW j, NEW a, NEW h, NEW f, NEW r, Rewrites(st, r, i, t, j, a, h, f),
           st.at[t].at = "open", NEW p, p = st.at[t].got,
           \/ f = st.files /\ j.fds = st.jobs[i].fds \cup {p}
           \/ f = st.files \ {p} /\ j.fds = st.jobs[i].fds
    PROVE  Files(r, tn)
<1>1. /\ \A u \in JobTasksOf(st) : st.at[u].at = "open" => u = t
      /\ r.files = f /\ r.jobs[i].fds = j.fds
      /\ \A k \in Slots : k # i => r.jobs[k].fds = st.jobs[k].fds
  BY DEF Rewrites, Good, Hands
<1>2. ASSUME ~ tn, NEW q \in r.files PROVE \E k \in Slots : q \in r.jobs[k].fds
  <2>1. q \in st.files /\ (q = p => q \in r.jobs[i].fds)
    BY <1>1, <1>2
  <2>2. CASE q = p
    BY <2>1, <2>2
  <2>3. CASE q # p
    <3>1. ~ InHand(st, "open", q)
      BY <1>1, <2>3 DEF InHand
    <3>2. PICK k \in Slots : q \in st.jobs[k].fds
      BY <1>2, <2>1, <3>1 DEF Good, Files
    <3>3. q \in r.jobs[k].fds
      BY <1>1, <3>2
    <3> QED BY <3>3
  <2> QED BY <2>2, <2>3
<1> QED
  BY <1>2 DEF Files

LEMMA FileClosed ==
    ASSUME NEW st, NEW n, NEW tn, NEW t, Good(st, n, t, tn), t \in JobTasksOf(st),
           NEW i, i \in Slots, NEW j, NEW a, NEW h, NEW f, NEW r, Rewrites(st, r, i, t, j, a, h, f),
           st.at[t].at # "open", NEW p, f = st.files \ {p}, j.fds = st.jobs[i].fds \ {p}
    PROVE  Files(r, tn)
<1>1. /\ \A u \in JobTasksOf(st) : st.at[u].at # "open"
      /\ r.files = st.files \ {p} /\ r.jobs[i].fds = st.jobs[i].fds \ {p}
      /\ \A k \in Slots : k # i => r.jobs[k].fds = st.jobs[k].fds
  BY DEF Rewrites, Good, Hands
<1>2. ASSUME ~ tn, NEW q \in r.files PROVE \E k \in Slots : q \in r.jobs[k].fds
  <2>1. ~ InHand(st, "open", q)
    BY <1>1 DEF InHand
  <2>2. PICK k \in Slots : q \in st.jobs[k].fds
    BY <1>1, <1>2, <2>1 DEF Good, Files
  <2>3. q \in r.jobs[k].fds
    BY <1>1, <1>2, <2>2
  <2> QED BY <2>3
<1> QED
  BY <1>2 DEF Files

-----------------------------------------------------------------------------
(* The steps of the program.                                                 *)

JobRuns(q, j, t) ==
    /\ j \in Job /\ j.id = q.id /\ j.task = t /\ j.waiter = q.waiter
    /\ (j.bg <=> q.bg) /\ (j.code <=> q.code) /\ j.state = RUNNING /\ ~ j.cancel

PlaceRuns(a, i, id) == a \in Place /\ a.at \in InMain /\ a.slot = i /\ a.id = id

LEMMA StepGood ==
    ASSUME IInv, NEW t, t \in JobTasks, cpu = t, NEW i, i = SlotOf(t), s.jobs[i].state \in Live,
           NEW j, NEW a, NEW h, NEW f, Rewrites(s, s', i, t, j, a, h, f),
           JobRuns(s.jobs[i], j, t), PlaceRuns(a, i, s.jobs[i].id),
           Blocks(s', torn), Files(s', torn), UNCHANGED <<jit_next_id, cpu, torn>>
    PROVE  IInv'
<1>1. t \in JobTasksOf(s) /\ Good(s, jit_next_id, t, torn) /\ i \in Slots /\ s.at[t].slot = i
  BY TaskCpu
<1>2. InProgram(s, s', t, i)
  BY <1>1 DEF InProgram, Rewrites, JobRuns, PlaceRuns
<1>3. Good(s', jit_next_id, t, torn)
  BY <1>1, <1>2, ProgramGood
<1> QED
  BY <1>3 DEF IInv

Started(q, t) == [q EXCEPT !.task = t, !.state = RUNNING, !.cancel = FALSE]

LEMMA StartedRuns ==
    ASSUME NEW q \in Job, NEW t \in Int
    PROVE  /\ JobRuns(q, Started(q, t), t)
           /\ Started(q, t).kptrs = q.kptrs /\ Started(q, t).fds = q.fds
<1>1. Started(q, t) \in Job
  <2> DEFINE a == [q EXCEPT !.task = t]
             b == [a EXCEPT !.state = RUNNING]
             c == [b EXCEPT !.cancel = FALSE]
  <2>1. a \in Job
    BY JobField
  <2>2. Started(q, t) = c
    BY DEF Started
  <2> HIDE DEF a
  <2>3. b \in Job
    BY <2>1, JobField
  <2> HIDE DEF b
  <2>4. c \in Job
    BY <2>3, JobField
  <2> HIDE DEF c
  <2> QED BY <2>2, <2>4
<1>2. /\ Started(q, t).id = q.id /\ Started(q, t).task = t /\ Started(q, t).waiter = q.waiter
      /\ Started(q, t).state = RUNNING
  BY DEF Job, Started
<1>3. /\ (Started(q, t).bg <=> q.bg) /\ (Started(q, t).code <=> q.code) /\ ~ Started(q, t).cancel
  BY DEF Job, Started
<1>4. Started(q, t).kptrs = q.kptrs /\ Started(q, t).fds = q.fds
  BY DEF Job, Started
<1> QED
  BY <1>1, <1>2, <1>3, <1>4 DEF JobRuns

LEMMA ListRuns ==
    ASSUME NEW q \in Job, NEW t, JobRuns(q, q, t), NEW x, NEW j,
           \/ x \in SUBSET Ptrs /\ j = [q EXCEPT !.kptrs = x]
           \/ x \in SUBSET Names /\ j = [q EXCEPT !.fds = x]
    PROVE  JobRuns(q, j, t)
<1>1. CASE x \in SUBSET Ptrs /\ j = [q EXCEPT !.kptrs = x]
  <2>1. j \in Job
    BY <1>1 DEF Job
  <2>2. j.id = q.id /\ j.task = q.task /\ j.waiter = q.waiter /\ j.state = q.state
    BY <1>1 DEF Job
  <2>3. (j.bg <=> q.bg) /\ (j.code <=> q.code) /\ (j.cancel <=> q.cancel)
    BY <1>1 DEF Job
  <2> QED BY <2>1, <2>2, <2>3 DEF JobRuns
<1>2. CASE x \in SUBSET Names /\ j = [q EXCEPT !.fds = x]
  <2>1. j \in Job
    BY <1>2 DEF Job
  <2>2. j.id = q.id /\ j.task = q.task /\ j.waiter = q.waiter /\ j.state = q.state
    BY <1>2 DEF Job
  <2>3. (j.bg <=> q.bg) /\ (j.code <=> q.code) /\ (j.cancel <=> q.cancel)
    BY <1>2 DEF Job
  <2> QED BY <2>1, <2>2, <2>3 DEF JobRuns
<1> QED
  BY <1>1, <1>2

Moved(p, w, g) == [p EXCEPT !.at = w, !.got = g]

LEMMA MoveRuns ==
    ASSUME NEW p \in Place, NEW w \in InMain, NEW g \in Names
    PROVE  PlaceRuns(Moved(p, w, g), p.slot, p.id)
<1>1. Moved(p, w, g) \in Place
  BY DEF Place, Names, Moved
<1>2. /\ Moved(p, w, g).at = w /\ Moved(p, w, g).slot = p.slot /\ Moved(p, w, g).id = p.id
  BY DEF Place, Moved
<1> QED
  BY <1>1, <1>2 DEF PlaceRuns

LEMMA EnterRuns ==
    ASSUME NEW p \in Place, NEW id \in Nat, NEW a, a = [p EXCEPT !.at = "main", !.id = id]
    PROVE  PlaceRuns(a, p.slot, id) /\ a.at = "main"
<1>1. a \in Place
  BY DEF Place, InMain
<1>2. a.at = "main" /\ a.slot = p.slot /\ a.id = id
  BY DEF Place
<1> QED
  BY <1>1, <1>2 DEF PlaceRuns, InMain

(* The slot and the place of a task inside main.                             *)
LEMMA InsideMain ==
    ASSUME IInv, NEW t, t \in JobTasks, cpu = t, s.at[t].at \in InMain,
           NEW i, i = SlotOf(t)
    PROVE  /\ t \in JobTasksOf(s) /\ t \in DOMAIN s.at /\ s \in Table
           /\ Good(s, jit_next_id, t, torn) /\ i \in Slots /\ s.at[t].slot = i
           /\ s.jobs[i] \in Job /\ s.at[t] \in Place /\ s.jobs[i].state \in Live
           /\ JobRuns(s.jobs[i], s.jobs[i], t) /\ PlaceRuns(s.at[t], i, s.jobs[i].id)
           /\ s.at[t].id = s.jobs[i].id
           /\ s.heap \in SUBSET Ptrs /\ s.files \in SUBSET Int
  BY TaskCpu, MainPhase DEF JobRuns, PlaceRuns

LEMMA ExecuteStep ==
    ASSUME IInv, NEW t \in JobTasks, Execute(t) PROVE IInv'
<1> DEFINE i == SlotOf(t)
           j == Started(s.jobs[i], t)
           a == [s.at[t] EXCEPT !.at = "main", !.id = s.jobs[i].id]
           h == s.heap
           f == s.files
<1>1. cpu = t /\ s.at[t].at = "entry" /\ UNCHANGED <<jit_next_id, cpu, torn>> /\ s.jobs[i].state = READY
  BY DEF Execute, At
<1>2. /\ t \in JobTasksOf(s) /\ t \in DOMAIN s.at /\ t \in Int /\ s \in Table
      /\ Good(s, jit_next_id, t, torn)
      /\ i \in Slots /\ s.at[t].slot = i /\ s.jobs[i].task = t
      /\ s.jobs[i] \in Job /\ s.at[t] \in Place
      /\ s.heap \in SUBSET Ptrs /\ s.files \in SUBSET Int
  BY <1>1, TaskCpu
<1>3. s' = [s EXCEPT !.jobs = [s.jobs EXCEPT ![i] = j], !.at = [s.at EXCEPT ![t] = a],
                     !.heap = h, !.files = f]
  BY <1>2 DEF Execute, Table, Started
<1>4. /\ JobRuns(s.jobs[i], j, t) /\ j.kptrs = s.jobs[i].kptrs /\ j.fds = s.jobs[i].fds
      /\ PlaceRuns(a, i, s.jobs[i].id) /\ a.at = "main"
  <2>1. s.jobs[i].id \in Nat
    BY <1>2 DEF Job
  <2>2. JobRuns(s.jobs[i], j, t) /\ j.kptrs = s.jobs[i].kptrs /\ j.fds = s.jobs[i].fds
    BY <1>2, StartedRuns
  <2>3. PlaceRuns(a, s.at[t].slot, s.jobs[i].id) /\ a.at = "main"
    BY <1>2, <2>1, EnterRuns
  <2> QED BY <1>2, <2>2, <2>3
<1>5. i = SlotOf(t) /\ h = s.heap /\ f = s.files /\ s.jobs[i].state \in Live
  BY <1>1, StateNames
<1> HIDE DEF i, j, a, h, f
<1>6. Rewrites(s, s', i, t, j, a, h, f)
  <2>1. j \in Job /\ a \in Place /\ h \in SUBSET Ptrs /\ f \in SUBSET Int
    BY <1>2, <1>4, <1>5 DEF JobRuns, PlaceRuns
  <2> QED BY <1>2, <1>3, <2>1, Rewritten
<1>7. Blocks(s', torn)
  BY <1>1, <1>2, <1>4, <1>5, <1>6, BlocksKept
<1>8. Files(s', torn)
  BY <1>1, <1>2, <1>4, <1>5, <1>6, FilesKept
<1> QED
  BY <1>1, <1>2, <1>4, <1>5, <1>6, <1>7, <1>8, StepGood

LEMMA KmallocStep ==
    ASSUME IInv, NEW t \in JobTasks, Kmalloc(t) PROVE IInv'
<1> DEFINE i == SlotOf(t)
<1>1. cpu = t /\ s.at[t].at = "main" /\ UNCHANGED <<jit_next_id, cpu, torn>>
  BY DEF Kmalloc, At
<1>2. /\ t \in JobTasksOf(s) /\ t \in DOMAIN s.at /\ s \in Table
      /\ Good(s, jit_next_id, t, torn) /\ i \in Slots /\ s.at[t].slot = i
      /\ s.jobs[i] \in Job /\ s.at[t] \in Place /\ s.jobs[i].state \in Live
      /\ JobRuns(s.jobs[i], s.jobs[i], t) /\ PlaceRuns(s.at[t], i, s.jobs[i].id)
      /\ s.at[t].id = s.jobs[i].id
      /\ s.heap \in SUBSET Ptrs /\ s.files \in SUBSET Int
  BY <1>1, InsideMain DEF InMain
<1>3. PICK p \in Ptrs \ s.heap :
         s' = [s EXCEPT !.heap = @ \cup {p}, !.at[t] = [@ EXCEPT !.at = "kmalloc", !.got = p]]
  BY DEF Kmalloc, FreePtrs
<1> DEFINE j == s.jobs[i]
           a == [s.at[t] EXCEPT !.at = "kmalloc", !.got = p]
           h == s.heap \cup {p}
           f == s.files
<1>4. s' = [s EXCEPT !.jobs = [s.jobs EXCEPT ![i] = j], !.at = [s.at EXCEPT ![t] = a],
                     !.heap = h, !.files = f]
  BY <1>2, <1>3 DEF Table
<1>5. /\ JobRuns(s.jobs[i], j, t) /\ PlaceRuns(a, i, s.jobs[i].id)
      /\ h \in SUBSET Ptrs /\ f \in SUBSET Int
  <2> DEFINE w == "kmalloc"
  <2>1. p \in Names /\ w \in InMain /\ a = Moved(s.at[t], w, p)
    BY <1>3 DEF Names, InMain, Moved
  <2> HIDE DEF a, w
  <2>2. PlaceRuns(a, s.at[t].slot, s.at[t].id)
    BY <1>2, <2>1, MoveRuns
  <2> QED BY <1>2, <1>3, <2>2
<1>6. h = s.heap \cup {p} /\ p \notin s.heap /\ j.kptrs = s.jobs[i].kptrs /\ a.at = "kmalloc" /\ a.got = p
  BY <1>2, <1>3 DEF Place
<1>7. f = s.files /\ j.fds = s.jobs[i].fds /\ a.at # "open"
  BY <1>2 DEF Place
<1>8. i = SlotOf(t)
  OBVIOUS
<1> HIDE DEF i, j, a, h, f
<1>9. Rewrites(s, s', i, t, j, a, h, f)
  <2>1. j \in Job /\ a \in Place
    BY <1>5 DEF JobRuns, PlaceRuns
  <2> QED BY <1>2, <1>4, <1>5, <2>1, Rewritten
<1>10. Blocks(s', torn)
  BY <1>1, <1>2, <1>6, <1>9, BlockTaken
<1>11. Files(s', torn)
  BY <1>1, <1>2, <1>7, <1>9, FilesKept
<1> QED
  BY <1>1, <1>2, <1>5, <1>8, <1>9, <1>10, <1>11, StepGood

LEMMA TrackKptrStep ==
    ASSUME IInv, NEW t \in JobTasks, TrackKptr(t) PROVE IInv'
<1> DEFINE i == SlotOf(t)
<1>1. cpu = t /\ s.at[t].at = "kmalloc" /\ UNCHANGED <<jit_next_id, cpu, torn>>
  BY DEF TrackKptr, At
<1>2. /\ t \in JobTasksOf(s) /\ t \in DOMAIN s.at /\ s \in Table
      /\ Good(s, jit_next_id, t, torn) /\ i \in Slots /\ s.at[t].slot = i
      /\ s.jobs[i] \in Job /\ s.at[t] \in Place /\ s.jobs[i].state \in Live
      /\ JobRuns(s.jobs[i], s.jobs[i], t) /\ PlaceRuns(s.at[t], i, s.jobs[i].id)
      /\ s.at[t].id = s.jobs[i].id
      /\ s.heap \in SUBSET Ptrs /\ s.files \in SUBSET Int
  BY <1>1, InsideMain DEF InMain
<1> DEFINE p == s.at[t].got
           room == Cardinality(s.jobs[i].kptrs) < JIT_MAX_KPTRS
           K == IF room THEN s.jobs[i].kptrs \cup {p} ELSE s.jobs[i].kptrs
           j == [s.jobs[i] EXCEPT !.kptrs = K]
           a == [s.at[t] EXCEPT !.at = "main", !.got = -1]
           h == IF room THEN s.heap ELSE s.heap \ {p}
           f == s.files
<1>3. p \in s.heap /\ p \in Ptrs /\ K \in SUBSET Ptrs
  <2>1. p \in s.heap
    BY <1>1, <1>2 DEF Good, Blocks
  <2>2. s.jobs[i].kptrs \in SUBSET Ptrs
    BY <1>2 DEF Job
  <2> QED BY <1>2, <2>1, <2>2
<1>4. s' = [s EXCEPT !.jobs = [s.jobs EXCEPT ![i] = j], !.at = [s.at EXCEPT ![t] = a],
                     !.heap = h, !.files = f]
  BY <1>1, <1>2 DEF TrackKptr, Table
<1>5. /\ JobRuns(s.jobs[i], j, t) /\ PlaceRuns(a, i, s.jobs[i].id)
      /\ h \in SUBSET Ptrs /\ f \in SUBSET Int
  <2> DEFINE w == "main"
             g == -1
  <2>1. g \in Names /\ w \in InMain /\ a = Moved(s.at[t], w, g)
    BY DEF Names, InMain, Moved
  <2>2. PlaceRuns(a, s.at[t].slot, s.at[t].id)
    <3> HIDE DEF a, w, g
    <3> QED BY <1>2, <2>1, MoveRuns
  <2>3. JobRuns(s.jobs[i], j, t)
    <3>1. j = [s.jobs[i] EXCEPT !.kptrs = K]
      OBVIOUS
    <3> HIDE DEF i, j, K
    <3> QED BY <1>2, <1>3, <3>1, ListRuns
  <2> QED BY <1>2, <2>2, <2>3
<1>6. /\ a.at # "kmalloc" /\ p = s.at[t].got
      /\ \/ h = s.heap /\ j.kptrs = s.jobs[i].kptrs \cup {p}
         \/ h = s.heap \ {p} /\ j.kptrs = s.jobs[i].kptrs
  <2>1. j.kptrs = K
    <3> HIDE DEF i, K
    <3> QED BY <1>2 DEF Job
  <2> QED BY <1>2, <2>1 DEF Place
<1>7. f = s.files /\ j.fds = s.jobs[i].fds /\ a.at # "open"
  <2>1. j.fds = s.jobs[i].fds
    <3> HIDE DEF i, K
    <3> QED BY <1>2 DEF Job
  <2> QED BY <1>2, <2>1 DEF Place
<1>8. i = SlotOf(t)
  OBVIOUS
<1> HIDE DEF i, j, a, h, f
<1>9. Rewrites(s, s', i, t, j, a, h, f)
  <2>1. j \in Job /\ a \in Place
    BY <1>5 DEF JobRuns, PlaceRuns
  <2> QED BY <1>2, <1>4, <1>5, <2>1, Rewritten
<1>10. Blocks(s', torn)
  BY <1>1, <1>2, <1>6, <1>9, BlockListed
<1>11. Files(s', torn)
  BY <1>1, <1>2, <1>7, <1>9, FilesKept
<1> QED
  BY <1>1, <1>2, <1>5, <1>8, <1>9, <1>10, <1>11, StepGood

LEMMA KfreeStep ==
    ASSUME IInv, NEW t \in JobTasks, Kfree(t) PROVE IInv'
<1> DEFINE i == SlotOf(t)
<1>1. cpu = t /\ s.at[t].at = "main" /\ UNCHANGED <<jit_next_id, cpu, torn>>
  BY DEF Kfree, At
<1>2. /\ t \in JobTasksOf(s) /\ t \in DOMAIN s.at /\ s \in Table
      /\ Good(s, jit_next_id, t, torn) /\ i \in Slots /\ s.at[t].slot = i
      /\ s.jobs[i] \in Job /\ s.at[t] \in Place /\ s.jobs[i].state \in Live
      /\ JobRuns(s.jobs[i], s.jobs[i], t) /\ PlaceRuns(s.at[t], i, s.jobs[i].id)
      /\ s.at[t].id = s.jobs[i].id
      /\ s.heap \in SUBSET Ptrs /\ s.files \in SUBSET Int
  BY <1>1, InsideMain DEF InMain
<1>3. PICK p \in s.jobs[i].kptrs :
         s' = [s EXCEPT !.heap = @ \ {p}, !.jobs[i].kptrs = @ \ {p}]
  BY DEF Kfree
<1> DEFINE K == s.jobs[i].kptrs \ {p}
           j == [s.jobs[i] EXCEPT !.kptrs = K]
           a == s.at[t]
           h == s.heap \ {p}
           f == s.files
<1>4. s' = [s EXCEPT !.jobs = [s.jobs EXCEPT ![i] = j], !.at = [s.at EXCEPT ![t] = a],
                     !.heap = h, !.files = f]
  <2>1. [s.at EXCEPT ![t] = a] = s.at
    BY <1>2, TableFields
  <2> HIDE DEF a
  <2> QED BY <1>2, <1>3, <2>1 DEF Table
<1>5. /\ JobRuns(s.jobs[i], j, t) /\ PlaceRuns(a, i, s.jobs[i].id)
      /\ h \in SUBSET Ptrs /\ f \in SUBSET Int
  <2>1. K \in SUBSET Ptrs
    BY <1>2 DEF Job
  <2>2. JobRuns(s.jobs[i], j, t)
    <3>1. j = [s.jobs[i] EXCEPT !.kptrs = K]
      OBVIOUS
    <3> HIDE DEF i, j, K
    <3> QED BY <1>2, <2>1, <3>1, ListRuns
  <2> QED BY <1>2, <2>2
<1>6. a.at # "kmalloc" /\ p \in s.jobs[i].kptrs /\ h = s.heap \ {p} /\ j.kptrs = s.jobs[i].kptrs \ {p}
  <2>1. j.kptrs = K
    <3> HIDE DEF i, K
    <3> QED BY <1>2 DEF Job
  <2> QED BY <1>1, <1>3, <2>1
<1>7. f = s.files /\ j.fds = s.jobs[i].fds /\ a.at # "open"
  <2>1. j.fds = s.jobs[i].fds
    <3> HIDE DEF i, K
    <3> QED BY <1>2 DEF Job
  <2> QED BY <1>1, <2>1
<1>8. i = SlotOf(t)
  OBVIOUS
<1> HIDE DEF i, j, a, h, f
<1>9. Rewrites(s, s', i, t, j, a, h, f)
  <2>1. j \in Job /\ a \in Place
    BY <1>5 DEF JobRuns, PlaceRuns
  <2> QED BY <1>2, <1>4, <1>5, <2>1, Rewritten
<1>10. Blocks(s', torn)
  BY <1>1, <1>2, <1>6, <1>9, BlockFreed
<1>11. Files(s', torn)
  BY <1>1, <1>2, <1>7, <1>9, FilesKept
<1> QED
  BY <1>1, <1>2, <1>5, <1>8, <1>9, <1>10, <1>11, StepGood

LEMMA OpenStep ==
    ASSUME IInv, NEW t \in JobTasks, Open(t) PROVE IInv'
<1> DEFINE i == SlotOf(t)
<1>1. cpu = t /\ s.at[t].at = "main" /\ UNCHANGED <<jit_next_id, cpu, torn>>
  BY DEF Open, At
<1>2. /\ t \in JobTasksOf(s) /\ t \in DOMAIN s.at /\ s \in Table
      /\ Good(s, jit_next_id, t, torn) /\ i \in Slots /\ s.at[t].slot = i
      /\ s.jobs[i] \in Job /\ s.at[t] \in Place /\ s.jobs[i].state \in Live
      /\ JobRuns(s.jobs[i], s.jobs[i], t) /\ PlaceRuns(s.at[t], i, s.jobs[i].id)
      /\ s.at[t].id = s.jobs[i].id
      /\ s.heap \in SUBSET Ptrs /\ s.files \in SUBSET Int
  BY <1>1, InsideMain DEF InMain
<1> DEFINE free == FreeFds(s)
           p == Min(free)
           j == s.jobs[i]
           a == [s.at[t] EXCEPT !.at = "open", !.got = p]
           h == s.heap
           f == s.files \cup {p}
<1>3. p \in Int
  <2>1. free \subseteq Nat /\ free # {}
    BY TableAssumption DEF Open, FreeFds
  <2> HIDE DEF free
  <2>2. Min(free) \in free
    BY <2>1, LeastNat DEF Min
  <2>3. Min(free) \in Nat
    BY <2>1, <2>2
  <2> QED BY <2>3
<1>4. s' = [s EXCEPT !.jobs = [s.jobs EXCEPT ![i] = j], !.at = [s.at EXCEPT ![t] = a],
                     !.heap = h, !.files = f]
  <2>1. s' = [s EXCEPT !.files = @ \cup {p}, !.at[t] = [@ EXCEPT !.at = "open", !.got = p]]
    BY DEF Open
  <2> HIDE DEF p
  <2> QED BY <1>2, <2>1 DEF Table
<1>5. /\ JobRuns(s.jobs[i], j, t) /\ PlaceRuns(a, i, s.jobs[i].id)
      /\ h \in SUBSET Ptrs /\ f \in SUBSET Int
  <2> DEFINE w == "open"
  <2>1. p \in Names /\ w \in InMain /\ a = Moved(s.at[t], w, p)
    BY <1>3 DEF Names, InMain, Moved
  <2> HIDE DEF p
  <2>2. PlaceRuns(a, s.at[t].slot, s.at[t].id)
    <3> HIDE DEF a, w
    <3> QED BY <1>2, <2>1, MoveRuns
  <2> QED BY <1>2, <1>3, <2>2
<1>6. h = s.heap /\ j.kptrs = s.jobs[i].kptrs /\ a.at # "kmalloc"
  BY <1>2 DEF Place
<1>7. f = s.files \cup {p} /\ j.fds = s.jobs[i].fds /\ a.at = "open" /\ a.got = p
  <2> HIDE DEF p
  <2> QED BY <1>2 DEF Place
<1>8. i = SlotOf(t)
  OBVIOUS
<1> HIDE DEF i, j, a, h, f, p, free
<1>9. Rewrites(s, s', i, t, j, a, h, f)
  <2>1. j \in Job /\ a \in Place
    BY <1>5 DEF JobRuns, PlaceRuns
  <2> QED BY <1>2, <1>4, <1>5, <2>1, Rewritten
<1>10. Blocks(s', torn)
  BY <1>1, <1>2, <1>6, <1>9, BlocksKept
<1>11. Files(s', torn)
  BY <1>1, <1>2, <1>7, <1>9, FileOpened
<1> QED
  BY <1>1, <1>2, <1>5, <1>8, <1>9, <1>10, <1>11, StepGood

LEMMA TrackFdStep ==
    ASSUME IInv, NEW t \in JobTasks, TrackFd(t) PROVE IInv'
<1> DEFINE i == SlotOf(t)
<1>1. cpu = t /\ s.at[t].at = "open" /\ UNCHANGED <<jit_next_id, cpu, torn>>
  BY DEF TrackFd, At
<1>2. /\ t \in JobTasksOf(s) /\ t \in DOMAIN s.at /\ s \in Table
      /\ Good(s, jit_next_id, t, torn) /\ i \in Slots /\ s.at[t].slot = i
      /\ s.jobs[i] \in Job /\ s.at[t] \in Place /\ s.jobs[i].state \in Live
      /\ JobRuns(s.jobs[i], s.jobs[i], t) /\ PlaceRuns(s.at[t], i, s.jobs[i].id)
      /\ s.at[t].id = s.jobs[i].id
      /\ s.heap \in SUBSET Ptrs /\ s.files \in SUBSET Int
  BY <1>1, InsideMain DEF InMain
<1> DEFINE p == s.at[t].got
           room == Cardinality(s.jobs[i].fds) < JIT_MAX_FDS
           D == IF room THEN s.jobs[i].fds \cup {p} ELSE s.jobs[i].fds
           j == [s.jobs[i] EXCEPT !.fds = D]
           a == [s.at[t] EXCEPT !.at = "main", !.got = -1]
           h == s.heap
           f == IF room THEN s.files ELSE s.files \ {p}
<1>3. D \in SUBSET Names
  <2>1. p \in Names
    BY <1>2 DEF Place, Names
  <2>2. s.jobs[i].fds \in SUBSET Names
    BY <1>2 DEF Job
  <2> QED BY <2>1, <2>2
<1> DEFINE q == [s EXCEPT !.jobs = [s.jobs EXCEPT ![i] = j], !.at = [s.at EXCEPT ![t] = a],
                          !.heap = h, !.files = f]
<1>4. \E l \in SUBSET Int, m \in SUBSET Stream : s' = [q EXCEPT !.loose = l, !.streams = m]
  <2> DEFINE back == [s EXCEPT !.at[t] = a]
  <2>1. s.files \subseteq Int /\ s.loose \in SUBSET Int /\ s.streams \in SUBSET Stream
    BY <1>2, TableFields
  <2>2. CASE room
    <3>1. s' = [back EXCEPT !.jobs[i].fds = @ \cup {p}]
      BY <2>2 DEF TrackFd
    <3>2. s' = [q EXCEPT !.loose = s.loose, !.streams = s.streams]
      BY <1>2, <2>2, <3>1 DEF Table
    <3> QED BY <2>1, <3>2
  <2>3. CASE ~ room
    <3>1. PICK kept : s' = CloseForgotten(back, {p}, kept)
      BY <2>3 DEF TrackFd
    <3> DEFINE l == (s.loose \ ({p} \ kept)) \cup (s.files \cap {p} \cap kept)
    <3>2. l \in SUBSET Int
      BY <2>1
    <3>3. s' = [s EXCEPT !.at[t] = a, !.files = @ \ {p}, !.loose = l]
      BY <1>2, <3>1 DEF CloseForgotten, Table
    <3>4. j = s.jobs[i]
      BY <1>2, <2>3 DEF Job
    <3>5. [s.jobs EXCEPT ![i] = j] = s.jobs
      BY <1>2, <3>4, TableFields
    <3> HIDE DEF l
    <3>6. s' = [q EXCEPT !.loose = l, !.streams = s.streams]
      BY <1>2, <2>3, <3>3, <3>5 DEF Table
    <3> QED BY <2>1, <3>2, <3>6
  <2> QED BY <2>2, <2>3
<1>5. /\ JobRuns(s.jobs[i], j, t) /\ PlaceRuns(a, i, s.jobs[i].id)
      /\ h \in SUBSET Ptrs /\ f \in SUBSET Int
  <2> DEFINE w == "main"
             g == -1
  <2>1. g \in Names /\ w \in InMain /\ a = Moved(s.at[t], w, g)
    BY DEF Names, InMain, Moved
  <2>2. PlaceRuns(a, s.at[t].slot, s.at[t].id)
    <3> HIDE DEF a, w, g
    <3> QED BY <1>2, <2>1, MoveRuns
  <2>3. JobRuns(s.jobs[i], j, t)
    <3>1. j = [s.jobs[i] EXCEPT !.fds = D]
      OBVIOUS
    <3> HIDE DEF i, j, D
    <3> QED BY <1>2, <1>3, <3>1, ListRuns
  <2> QED BY <1>2, <2>2, <2>3
<1>6. h = s.heap /\ j.kptrs = s.jobs[i].kptrs /\ a.at # "kmalloc"
  <2>1. j.kptrs = s.jobs[i].kptrs
    <3> HIDE DEF i, D
    <3> QED BY <1>2 DEF Job
  <2> QED BY <1>2, <2>1 DEF Place
<1>7. /\ p = s.at[t].got
      /\ \/ f = s.files /\ j.fds = s.jobs[i].fds \cup {p}
         \/ f = s.files \ {p} /\ j.fds = s.jobs[i].fds
  <2>1. j.fds = D
    <3> HIDE DEF i, D
    <3> QED BY <1>2 DEF Job
  <2> QED BY <2>1
<1>8. i = SlotOf(t)
  OBVIOUS
<1> HIDE DEF i, j, a, h, f
<1>9. Rewrites(s, s', i, t, j, a, h, f)
  <2>1. j \in Job /\ a \in Place
    BY <1>5 DEF JobRuns, PlaceRuns
  <2>2. Rewrites(s, q, i, t, j, a, h, f)
    BY <1>2, <1>5, <2>1, Rewritten
  <2> HIDE DEF q
  <2> QED BY <1>4, <2>2, Loosened
<1>10. Blocks(s', torn)
  BY <1>1, <1>2, <1>6, <1>9, BlocksKept
<1>11. Files(s', torn)
  BY <1>1, <1>2, <1>7, <1>9, FileListed
<1> QED
  BY <1>1, <1>2, <1>5, <1>8, <1>9, <1>10, <1>11, StepGood

LEMMA CloseStep ==
    ASSUME IInv, NEW t \in JobTasks, Close(t) PROVE IInv'
<1> DEFINE i == SlotOf(t)
<1>1. cpu = t /\ s.at[t].at = "main" /\ UNCHANGED <<jit_next_id, cpu, torn>>
  BY DEF Close, At
<1>2. /\ t \in JobTasksOf(s) /\ t \in DOMAIN s.at /\ s \in Table
      /\ Good(s, jit_next_id, t, torn) /\ i \in Slots /\ s.at[t].slot = i
      /\ s.jobs[i] \in Job /\ s.at[t] \in Place /\ s.jobs[i].state \in Live
      /\ JobRuns(s.jobs[i], s.jobs[i], t) /\ PlaceRuns(s.at[t], i, s.jobs[i].id)
      /\ s.at[t].id = s.jobs[i].id
      /\ s.heap \in SUBSET Ptrs /\ s.files \in SUBSET Int
  BY <1>1, InsideMain DEF InMain
<1>3. PICK p, kept : s' = CloseForgotten([s EXCEPT !.jobs[i].fds = @ \ {p}], {p}, kept)
  BY DEF Close
<1> DEFINE D == s.jobs[i].fds \ {p}
           j == [s.jobs[i] EXCEPT !.fds = D]
           a == s.at[t]
           h == s.heap
           f == s.files \ {p}
           q == [s EXCEPT !.jobs = [s.jobs EXCEPT ![i] = j], !.at = [s.at EXCEPT ![t] = a],
                          !.heap = h, !.files = f]
<1>4. \E l \in SUBSET Int, m \in SUBSET Stream : s' = [q EXCEPT !.loose = l, !.streams = m]
  <2>1. [s.at EXCEPT ![t] = a] = s.at
    BY <1>2, TableFields
  <2>2. s.files \subseteq Int /\ s.loose \in SUBSET Int /\ s.streams \in SUBSET Stream
    BY <1>2, TableFields
  <2> DEFINE l == (s.loose \ ({p} \ kept)) \cup (s.files \cap {p} \cap kept)
  <2>3. l \in SUBSET Int
    BY <2>2
  <2>4. s' = [s EXCEPT !.jobs = [s.jobs EXCEPT ![i] = j], !.files = @ \ {p}, !.loose = l]
    BY <1>2, <1>3 DEF CloseForgotten, Table
  <2> HIDE DEF a, j, l
  <2>5. s' = [q EXCEPT !.loose = l, !.streams = s.streams]
    BY <1>2, <2>1, <2>4 DEF Table
  <2> QED BY <2>2, <2>3, <2>5
<1>5. /\ JobRuns(s.jobs[i], j, t) /\ PlaceRuns(a, i, s.jobs[i].id)
      /\ h \in SUBSET Ptrs /\ f \in SUBSET Int
  <2>1. D \in SUBSET Names
    BY <1>2 DEF Job
  <2>2. JobRuns(s.jobs[i], j, t)
    <3>1. j = [s.jobs[i] EXCEPT !.fds = D]
      OBVIOUS
    <3> HIDE DEF i, j, D
    <3> QED BY <1>2, <2>1, <3>1, ListRuns
  <2> QED BY <1>2, <2>2
<1>6. h = s.heap /\ j.kptrs = s.jobs[i].kptrs /\ a.at # "kmalloc"
  <2>1. j.kptrs = s.jobs[i].kptrs
    <3> HIDE DEF i, D
    <3> QED BY <1>2 DEF Job
  <2> QED BY <1>1, <2>1
<1>7. f = s.files \ {p} /\ j.fds = s.jobs[i].fds \ {p}
  <2>1. j.fds = D
    <3> HIDE DEF i, D
    <3> QED BY <1>2 DEF Job
  <2> QED BY <2>1
<1>8. i = SlotOf(t)
  OBVIOUS
<1> HIDE DEF i, j, a, h, f
<1>9. Rewrites(s, s', i, t, j, a, h, f)
  <2>1. j \in Job /\ a \in Place
    BY <1>5 DEF JobRuns, PlaceRuns
  <2>2. Rewrites(s, q, i, t, j, a, h, f)
    BY <1>2, <1>5, <2>1, Rewritten
  <2> HIDE DEF q
  <2> QED BY <1>4, <2>2, Loosened
<1>10. Blocks(s', torn)
  BY <1>1, <1>2, <1>6, <1>9, BlocksKept
<1>11. Files(s', torn)
  BY <1>1, <1>2, <1>7, <1>9, FileClosed
<1> QED
  BY <1>1, <1>2, <1>5, <1>8, <1>9, <1>10, <1>11, StepGood

(* A step that leaves the slot, the place and the blocks alone, and at most  *)
(* closes files.                                                             *)
LEMMA LibcGood ==
    ASSUME IInv, NEW t \in JobTasks, At(t, "main"), UNCHANGED <<jit_next_id, cpu, torn>>,
           NEW f, f \in SUBSET s.files, NEW l, l \in SUBSET Int, NEW m, m \in SUBSET Stream,
           s' = [s EXCEPT !.files = f, !.loose = l, !.streams = m]
    PROVE  IInv'
<1> DEFINE i == SlotOf(t)
           j == s.jobs[i]
           a == s.at[t]
           h == s.heap
           q == [s EXCEPT !.jobs = [s.jobs EXCEPT ![i] = j], !.at = [s.at EXCEPT ![t] = a],
                          !.heap = h, !.files = f]
<1>1. cpu = t /\ s.at[t].at = "main"
  BY DEF At
<1>2. /\ t \in JobTasksOf(s) /\ t \in DOMAIN s.at /\ s \in Table
      /\ Good(s, jit_next_id, t, torn) /\ i \in Slots /\ s.at[t].slot = i
      /\ s.jobs[i] \in Job /\ s.at[t] \in Place /\ s.jobs[i].state \in Live
      /\ JobRuns(s.jobs[i], s.jobs[i], t) /\ PlaceRuns(s.at[t], i, s.jobs[i].id)
      /\ s.heap \in SUBSET Ptrs /\ s.files \in SUBSET Int
  BY <1>1, InsideMain DEF InMain
<1>3. s' = [q EXCEPT !.loose = l, !.streams = m]
  <2>1. [s.at EXCEPT ![t] = a] = s.at /\ [s.jobs EXCEPT ![i] = j] = s.jobs
    BY <1>2, TableFields
  <2> HIDE DEF a, j
  <2> QED BY <1>2, <2>1 DEF Table
<1>4. JobRuns(s.jobs[i], j, t) /\ PlaceRuns(a, i, s.jobs[i].id) /\ f \in SUBSET Int /\ h \in SUBSET Ptrs
  BY <1>2
<1>5. h = s.heap /\ j.kptrs = s.jobs[i].kptrs /\ a.at # "kmalloc"
  BY <1>1
<1>6. j.fds = s.jobs[i].fds /\ a.at # "open"
  BY <1>1
<1>7. i = SlotOf(t)
  OBVIOUS
<1> HIDE DEF i, j, a, h
<1>8. Rewrites(s, s', i, t, j, a, h, f)
  <2>1. j \in Job /\ a \in Place
    BY <1>4 DEF JobRuns, PlaceRuns
  <2>2. Rewrites(s, q, i, t, j, a, h, f)
    BY <1>2, <1>4, <2>1, Rewritten
  <2> HIDE DEF q
  <2> QED BY <1>3, <2>2, Loosened
<1>9. Blocks(s', torn)
  BY <1>1, <1>2, <1>5, <1>8, BlocksKept
<1>10. Files(s', torn)
  BY <1>1, <1>2, <1>6, <1>8, FilesKept
<1> QED
  BY <1>1, <1>2, <1>4, <1>7, <1>8, <1>9, <1>10, StepGood

LEMMA LibcOpenStep ==
    ASSUME IInv, NEW t \in JobTasks, LibcOpen(t) PROVE IInv'
<1> DEFINE fd == Min(FreeFds(s))
<1>1. At(t, "main") /\ UNCHANGED <<jit_next_id, cpu, torn>>
  BY DEF LibcOpen
<1>2. s \in Table /\ s.loose \subseteq Int /\ s.streams \subseteq Stream
  BY TableFields DEF IInv, Good
<1>3. fd \in Int
  <2>1. FreeFds(s) \subseteq Nat /\ FreeFds(s) # {}
    BY TableAssumption DEF LibcOpen, FreeFds
  <2>2. Min(FreeFds(s)) \in FreeFds(s)
    BY <2>1, LeastNat DEF Min
  <2> QED BY <2>1, <2>2
<1>4. PICK file \in {{}} \cup { {[block |-> p, fd |-> fd]} : p \in FreePtrs(s) } :
         s' = [s EXCEPT !.loose = @ \cup {fd}, !.streams = @ \cup file]
  BY DEF LibcOpen
<1> HIDE DEF fd
<1>5. file \in SUBSET Stream
  BY <1>3, <1>4 DEF FreePtrs, Stream
<1> DEFINE f == s.files
           l == s.loose \cup {fd}
           m == s.streams \cup file
<1>6. f \in SUBSET s.files /\ l \in SUBSET Int /\ m \in SUBSET Stream
  BY <1>2, <1>3, <1>5
<1>7. s' = [s EXCEPT !.files = f, !.loose = l, !.streams = m]
  BY <1>2, <1>4 DEF Table
<1> HIDE DEF f, l, m
<1> QED
  BY <1>1, <1>6, <1>7, LibcGood

LEMMA LibcCloseStep ==
    ASSUME IInv, NEW t \in JobTasks, LibcClose(t) PROVE IInv'
<1>1. At(t, "main") /\ UNCHANGED <<jit_next_id, cpu, torn>>
  BY DEF LibcClose
<1>2. s \in Table /\ s.files \subseteq Int /\ s.loose \subseteq Int /\ s.streams \subseteq Stream
  BY TableFields DEF IInv, Good
<1>3. \E D : \E m \in SUBSET s.streams : s' = CloseForgotten([s EXCEPT !.streams = m], D, {})
  <2>1. CASE \E fd \in Used(s) : s' = CloseForgotten(s, {fd}, {})
    <3>1. PICK D : s' = CloseForgotten(s, D, {})
      BY <2>1
    <3> DEFINE m == s.streams
    <3>2. [s EXCEPT !.streams = m] = s
      BY <1>2 DEF Table
    <3>3. s' = CloseForgotten([s EXCEPT !.streams = m], D, {}) /\ m \in SUBSET s.streams
      BY <3>1, <3>2
    <3> HIDE DEF m
    <3> QED BY <3>3, Zenon
  <2>2. CASE \E g \in s.streams : \E D \in SUBSET {g.fd} :
               s' = CloseForgotten([s EXCEPT !.streams = @ \ {g}], D, {})
    <3>1. PICK g \in s.streams : \E D \in SUBSET {g.fd} :
             s' = CloseForgotten([s EXCEPT !.streams = @ \ {g}], D, {})
      BY <2>2
    <3>2. PICK D : s' = CloseForgotten([s EXCEPT !.streams = @ \ {g}], D, {})
      BY <3>1
    <3> DEFINE m == s.streams \ {g}
    <3>3. s' = CloseForgotten([s EXCEPT !.streams = m], D, {}) /\ m \in SUBSET s.streams
      BY <3>2
    <3> HIDE DEF m
    <3> QED BY <3>3, Zenon
  <2> QED BY <2>1, <2>2 DEF LibcClose
<1>4. PICK D, m : m \in SUBSET s.streams /\ s' = CloseForgotten([s EXCEPT !.streams = m], D, {})
  BY <1>3
<1> DEFINE f == s.files \ D
           l == (s.loose \ (D \ {})) \cup (s.files \cap D \cap {})
<1>5. f \in SUBSET s.files /\ l \in SUBSET Int /\ m \in SUBSET Stream
  BY <1>2, <1>4
<1>6. s' = [s EXCEPT !.files = f, !.loose = l, !.streams = m]
  BY <1>2, <1>4 DEF CloseForgotten, Table
<1> HIDE DEF f, l
<1> QED
  BY <1>1, <1>5, <1>6, LibcGood

-----------------------------------------------------------------------------
(* The timer trap.                                                           *)

Failed(q, rc) == [q EXCEPT !.cancel = TRUE, !.state = FAILED, !.exit = rc]

LEMMA FailedJob ==
    ASSUME NEW q \in Job, NEW rc \in Int
    PROVE  /\ Failed(q, rc) \in Job /\ Failed(q, rc).id = q.id /\ Failed(q, rc).task = q.task
           /\ Failed(q, rc).waiter = q.waiter /\ Failed(q, rc).state = FAILED
           /\ Failed(q, rc).kptrs = q.kptrs /\ Failed(q, rc).fds = q.fds /\ Failed(q, rc).bg = q.bg
<1>1. Failed(q, rc) \in Job
  BY DEF Job, FAILED, Failed
<1>2. /\ Failed(q, rc).id = q.id /\ Failed(q, rc).task = q.task
      /\ Failed(q, rc).waiter = q.waiter /\ Failed(q, rc).state = FAILED /\ Failed(q, rc).bg = q.bg
  BY DEF Job, Failed
<1>3. Failed(q, rc).kptrs = q.kptrs /\ Failed(q, rc).fds = q.fds
  BY DEF Job, Failed
<1> QED
  BY <1>1, <1>2, <1>3, Zenon

LEMMA FailFields ==
    ASSUME NEW st, st \in Table, NEW i, i \in Slots, NEW C, C = {i}, NEW rc, rc \in Int,
           NEW r, r = Fail(st, C, rc)
    PROVE  /\ r \in Table /\ r.at = st.at /\ r.runnable = st.runnable
           /\ r.heap = st.heap /\ r.files = st.files
           /\ r.jobs[i] = Failed(st.jobs[i], rc) /\ \A k \in Slots : k # i => r.jobs[k] = st.jobs[k]
<1> DEFINE J == [k \in Slots |-> IF k \in C THEN Failed(st.jobs[k], rc) ELSE st.jobs[k]]
<1>1. st.jobs \in [Slots -> Job]
  BY TableFields
<1>2. r = [st EXCEPT !.jobs = J]
  BY DEF Fail, Failed
<1>3. J \in [Slots -> Job]
  <2>1. \A k \in Slots : Failed(st.jobs[k], rc) \in Job
    BY <1>1, FailedJob
  <2> QED BY <1>1, <2>1
<1>4. J[i] = Failed(st.jobs[i], rc) /\ \A k \in Slots : k # i => J[k] = st.jobs[k]
  OBVIOUS
<1> HIDE DEF J
<1>5. /\ r \in Table /\ r.at = st.at /\ r.runnable = st.runnable
      /\ r.heap = st.heap /\ r.files = st.files /\ r.jobs = J
  BY <1>2, <1>3 DEF Table
<1> QED
  BY <1>4, <1>5

LEMMA TrapCancelStep ==
    ASSUME IInv, NEW win \in Windows, TrapCancel(win) PROVE IInv'
<1>1. PICK i \in Slots :
        /\ cpu \in JobTasks /\ s.jobs[i].task = cpu
        /\ torn' = (torn \/ s.at[cpu].at \in {"kmalloc", "open"})
        /\ \E kept \in SUBSET Used(s) :
              SleepAs([Wake(WakeOtherWaiters(Cleanup(Fail(s, {i}, -2), {i}, kept), {i}, cpu),
                            WorkerOf(win))
                         EXCEPT !.at[cpu] = [Entry(i) EXCEPT !.at = "trampoline"]], cpu)
        /\ UNCHANGED jit_next_id
  BY DEF TrapCancel
<1>0. PICK kept :
         SleepAs([Wake(WakeOtherWaiters(Cleanup(Fail(s, {i}, -2), {i}, kept), {i}, cpu), WorkerOf(win))
                    EXCEPT !.at[cpu] = [Entry(i) EXCEPT !.at = "trampoline"]], cpu)
  BY <1>1
<1> DEFINE t == cpu
           C == {i}
           rc == -2
           g == Fail(s, C, rc)
           c == Cleanup(g, C, kept)
           V == { c.jobs[k].waiter : k \in C } \ {-1, t}
           W == V \cup {WorkerOf(win)}
           a == [Entry(i) EXCEPT !.at = "trampoline"]
           A == [c.at EXCEPT ![t] = a]
<1>2. /\ t \in JobTasksOf(s) /\ t \in DOMAIN s.at /\ s \in Table
      /\ Good(s, jit_next_id, t, torn) /\ SlotOf(t) \in Slots /\ s.at[t].slot = SlotOf(t)
  BY <1>1, TaskCpu
<1>3. s.at[t].slot = i /\ t # -1 /\ t \notin Workers /\ s.jobs[i] \in Job
      /\ s.jobs[i].waiter \in Workers \cup {-1}
  <2>1. t # -1 /\ s.jobs[i] \in Job
    BY <1>2, TableFields
  <2>2. s.jobs[i].task = t
    BY <1>1
  <2> HIDE DEF t
  <2> QED BY <1>2, <2>1, <2>2 DEF Good, Structure, JobTasksOf
<1>4. C = {i} /\ rc \in Int /\ g = Fail(s, C, rc) /\ c = Cleanup(g, C, kept)
  OBVIOUS
<1>5. s' = Block([Wake(WakeOtherWaiters(c, C, t), WorkerOf(win)) EXCEPT !.at[t] = a], t)
      /\ cpu' = -1 /\ UNCHANGED jit_next_id /\ torn' = (torn \/ s.at[t].at \in {"kmalloc", "open"})
  BY <1>0, <1>1 DEF SleepAs
<1> HIDE DEF C, rc, g, c, t
<1>6. /\ g \in Table /\ g.at = s.at /\ g.runnable = s.runnable
      /\ g.heap = s.heap /\ g.files = s.files
      /\ g.jobs[i] = Failed(s.jobs[i], rc) /\ \A k \in Slots : k # i => g.jobs[k] = s.jobs[k]
  <2>1. i \in Slots /\ C = {i} /\ rc \in Int /\ g = Fail(s, C, rc) /\ s \in Table
    BY <1>2, <1>4
  <2> QED BY <2>1, FailFields
<1>7. /\ Failed(s.jobs[i], rc).id = s.jobs[i].id /\ Failed(s.jobs[i], rc).task = s.jobs[i].task
      /\ Failed(s.jobs[i], rc).waiter = s.jobs[i].waiter /\ Failed(s.jobs[i], rc).state = FAILED
      /\ Failed(s.jobs[i], rc).kptrs = s.jobs[i].kptrs /\ Failed(s.jobs[i], rc).fds = s.jobs[i].fds
      /\ Failed(s.jobs[i], rc).bg = s.jobs[i].bg
  BY <1>3, <1>4, FailedJob, Zenon
<1>8. /\ c \in Table /\ c.at = g.at /\ c.runnable = g.runnable
      /\ c.heap = g.heap \ g.jobs[i].kptrs /\ c.files = g.files \ g.jobs[i].fds
      /\ \A k \in Slots : k # i => c.jobs[k] = g.jobs[k]
      /\ c.jobs[i].kptrs = {} /\ c.jobs[i].fds = {} /\ ~ c.jobs[i].code
      /\ c.jobs[i].state = g.jobs[i].state /\ c.jobs[i].id = g.jobs[i].id
      /\ c.jobs[i].bg = g.jobs[i].bg /\ c.jobs[i].task = g.jobs[i].task
      /\ c.jobs[i].waiter = g.jobs[i].waiter
  <2>1. g \in Table /\ c = Cleanup(g, C, kept) /\ C = {i} /\ i \in Slots
    BY <1>4, <1>6
  <2>2. Cleaned(g, c, i)
    BY <2>1, CleanupFields, Zenon
  <2> QED BY <2>2 DEF Cleaned
<1>9. /\ c.heap = s.heap \ s.jobs[i].kptrs /\ c.files = s.files \ s.jobs[i].fds
      /\ \A k \in Slots : k # i => c.jobs[k] = s.jobs[k]
      /\ c.jobs[i].id = s.jobs[i].id /\ c.jobs[i].task = t /\ c.jobs[i].waiter = s.jobs[i].waiter
      /\ c.jobs[i].state = FAILED /\ c.at = s.at /\ c.runnable = s.runnable
  BY <1>1, <1>6, <1>7, <1>8, ZenonT(30) DEF t
<1>10. c.jobs[i].bg <=> s.jobs[i].bg
  BY <1>6, <1>7, <1>8
<1>11. /\ W \subseteq Workers /\ W \subseteq Int
       /\ ~ s.jobs[i].bg /\ s.jobs[i].waiter # -1 => s.jobs[i].waiter \in W
  <2>1. WorkerOf(win) \in Workers /\ Workers \subseteq Int
    BY Numbers
  <2>2. V = {s.jobs[i].waiter} \ {-1, t}
    BY <1>4, <1>9
  <2> HIDE DEF V
  <2> QED BY <1>3, <2>1, <2>2
<1>12. a \in Place /\ a.at = "trampoline" /\ a.slot = i
  BY SlotNumber DEF Entry, Place
<1> HIDE DEF a
<1>13. A \in Places /\ DOMAIN A = DOMAIN s.at /\ A[t] = a /\ \A u \in DOMAIN s.at : u # t => A[u] = s.at[u]
  <2>1. s.at \in Places /\ s.at \in [DOMAIN s.at -> Place]
    BY <1>2, TableFields
  <2>2. A \in [DOMAIN s.at -> Place] /\ A[t] = a /\ \A u \in DOMAIN s.at : u # t => A[u] = s.at[u]
    BY <1>2, <1>9, <1>12, <2>1
  <2> HIDE DEF A
  <2> QED BY <2>1, <2>2, PlacesKept
<1>14. s' = [c EXCEPT !.runnable = (@ \cup W) \ {t}, !.at = A]
  <2>1. WakeOtherWaiters(c, C, t) = [c EXCEPT !.runnable = @ \cup V]
    BY DEF WakeOtherWaiters
  <2> HIDE DEF V, A
  <2>2. Wake([c EXCEPT !.runnable = @ \cup V], WorkerOf(win)) = [c EXCEPT !.runnable = @ \cup W]
    BY <1>8 DEF Wake, Table
  <2> HIDE DEF W
  <2>3. [[c EXCEPT !.runnable = @ \cup W] EXCEPT !.at[t] = a] = [c EXCEPT !.runnable = @ \cup W, !.at = A]
    BY <1>8 DEF A, Table
  <2>4. Block([c EXCEPT !.runnable = @ \cup W, !.at = A], t)
          = [c EXCEPT !.runnable = (@ \cup W) \ {t}, !.at = A]
    BY <1>8 DEF Block, Table
  <2> QED BY <1>5, <2>1, <2>2, <2>3, <2>4
<1> HIDE DEF A, W
<1>15. /\ s' \in Table /\ s'.runnable = (c.runnable \cup W) \ {t} /\ s'.at = A
       /\ s'.jobs = c.jobs /\ s'.heap = c.heap /\ s'.files = c.files
  <2>1. c \in Table
    BY <1>8
  <2> QED BY <1>11, <1>13, <1>14, <2>1 DEF Table
<1>16. Over(s, s', t, i, W)
  <2>1. /\ s' \in Table /\ s'.runnable = (s.runnable \cup W) \ {t} /\ DOMAIN s'.at = DOMAIN s.at
        /\ \A u \in DOMAIN s.at : u # t => s'.at[u] = s.at[u]
    BY <1>9, <1>13, <1>15
  <2>2. s'.at[t].at \in {"entry", "trampoline"} /\ s'.at[t].slot = i
    BY <1>12, <1>13, <1>15
  <2>3. /\ s'.heap = s.heap \ s.jobs[i].kptrs /\ s'.files = s.files \ s.jobs[i].fds
        /\ \A k \in Slots : k # i => s'.jobs[k] = s.jobs[k]
    BY <1>9, <1>15
  <2>4. /\ s'.jobs[i].id = s.jobs[i].id /\ s'.jobs[i].task = t /\ s'.jobs[i].waiter = s.jobs[i].waiter
        /\ (s'.jobs[i].bg <=> s.jobs[i].bg) /\ ~ s'.jobs[i].code
        /\ s'.jobs[i].kptrs = {} /\ s'.jobs[i].fds = {} /\ s'.jobs[i].state \in {DONE, FAILED}
    BY <1>8, <1>9, <1>10, <1>15
  <2> QED BY <1>3, <1>11, <2>1, <2>2, <2>3, <2>4 DEF Over
<1>17. Tears(torn, torn', s.at[t].at)
  BY <1>5 DEF Tears
<1>18. Good(s', jit_next_id, -1, torn')
  BY <1>2, <1>16, <1>17, EndedGood
<1> QED
  BY <1>5, <1>18 DEF IInv

-----------------------------------------------------------------------------
(* The invariant.                                                            *)

LEMMA NextIInv == IInv /\ [Next]_vars => IInv'
<1> SUFFICES ASSUME IInv, [Next]_vars PROVE IInv'
  OBVIOUS
<1>1. CASE Dispatch
  BY <1>1, DispatchGood
<1>2. CASE Rest
  BY <1>2, RestGood
<1>3. ASSUME NEW win \in Windows, Poke(win) \/ GuiCtrlC(win) \/ Command(win) \/ TrapCancel(win)
      PROVE  IInv'
  <2>1. CASE Poke(win)
    BY <2>1, PokeGood
  <2>2. CASE GuiCtrlC(win)
    BY <2>2, GuiCtrlCGood
  <2>3. CASE Command(win)
    <3>1. ASSUME NEW bg \in BOOLEAN, CompileError(win, bg) PROVE IInv'
      BY <3>1, CompileErrorStep
    <3>2. CASE RunForeground(win)
      BY <3>2, RunForegroundStep
    <3>3. CASE RunBackground(win)
      BY <3>3, RunBackgroundStep
    <3>4. CASE RunDebug(win)
      BY <3>4, RunDebugStep
    <3>5. ASSUME NEW i \in Slots, Kill(win, i) PROVE IInv'
      BY <3>5, KillStep
    <3>6. CASE ShellCtrlC(win)
      BY <3>6, ShellCtrlCStep
    <3> QED BY <2>3, <3>1, <3>2, <3>3, <3>4, <3>5, <3>6 DEF Command
  <2>4. CASE TrapCancel(win)
    BY <2>4, TrapCancelStep
  <2> QED BY <1>3, <2>1, <2>2, <2>3, <2>4
<1>4. ASSUME NEW t \in Workers, WaitLoop(t) PROVE IInv'
  BY <1>4, WaitLoopStep
<1>5. ASSUME NEW t \in JobTasks, JobStep(t) PROVE IInv'
  <2>1. CASE Execute(t)
    BY <2>1, ExecuteStep
  <2>2. CASE InvalidMain(t)
    BY <2>2, InvalidMainStep
  <2>3. CASE MainReturns(t)
    BY <2>3, MainReturnsStep
  <2>4. CASE JitYield(t)
    BY <2>4, JitYieldStep
  <2>5. CASE Kmalloc(t)
    BY <2>5, KmallocStep
  <2>6. CASE TrackKptr(t)
    BY <2>6, TrackKptrStep
  <2>7. CASE Kfree(t)
    BY <2>7, KfreeStep
  <2>8. CASE Open(t)
    BY <2>8, OpenStep
  <2>9. CASE TrackFd(t)
    BY <2>9, TrackFdStep
  <2>10. CASE Close(t)
    BY <2>10, CloseStep
  <2>11. CASE LibcOpen(t)
    BY <2>11, LibcOpenStep
  <2>12. CASE LibcClose(t)
    BY <2>12, LibcCloseStep
  <2> QED
    BY <1>5, <2>1, <2>2, <2>3, <2>4, <2>5, <2>6, <2>7, <2>8, <2>9, <2>10, <2>11, <2>12
    DEF JobStep
<1>6. CASE UNCHANGED vars
  BY <1>6 DEF vars, IInv
<1> QED
  BY <1>1, <1>2, <1>3, <1>4, <1>5, <1>6 DEF Next

(* The inductive invariant of the job table and of its tasks: the links      *)
(* between slots, tasks and waiting workers, what each phase of a job owns,  *)
(* and whose every block and open file is.                                   *)
THEOREM Invariance == Spec => []IInv
  BY InitIInv, NextIInv, PTL DEF Spec

LEMMA WaiterOfIInv == IInv => WaiterOfLiveJob
<1> SUFFICES ASSUME IInv, NEW t \in Workers, s.at[t].at = "wait", t \notin s.runnable,
                    s.jobs[s.at[t].slot].id = s.at[t].id
             PROVE  /\ s.jobs[s.at[t].slot].state \in Live
                    /\ s.jobs[s.at[t].slot].task \in s.runnable /\ s.jobs[s.at[t].slot].waiter = t
  BY DEF WaiterOfLiveJob
<1>1. s.at[t].slot \in Slots
  BY DEF IInv, Good, Structure
<1>2. s.jobs[s.at[t].slot].state \in Live /\ s.jobs[s.at[t].slot].waiter = t
  BY DEF IInv, Good, Waits
<1>3. s.jobs[s.at[t].slot].task \in s.runnable
  BY <1>1, <1>2 DEF IInv, Good, Phases
<1> QED
  BY <1>2, <1>3

LEMMA RunsOfIInv == IInv => RunsOwnCode
<1> SUFFICES ASSUME IInv, NEW t \in JobTasks \cap s.runnable, s.at[t].at \in InMain
             PROVE  /\ s.jobs[SlotOf(t)].state = RUNNING /\ s.jobs[SlotOf(t)].code
                    /\ s.jobs[SlotOf(t)].id = s.at[t].id /\ s.jobs[SlotOf(t)].task = t
  BY DEF RunsOwnCode, InMain
<1>1. t \in JobTasksOf(s) /\ SlotOf(t) \in Slots /\ s.jobs[SlotOf(t)].task = t /\ SlotOf(t) = s.at[t].slot
  BY DEF IInv, Good, Structure, JobTasks, JobTasksOf, SlotOf
<1>2. s.jobs[SlotOf(t)].state = RUNNING /\ s.jobs[SlotOf(t)].id = s.at[t].id
  BY <1>1 DEF IInv, Good, Phases
<1>3. s.jobs[SlotOf(t)].code
  BY <1>1, <1>2, StateNames DEF IInv, Good, Phases
<1> QED
  BY <1>1, <1>2, <1>3

LEMMA LostOfIInv == IInv => TrackedNotLost
<1> SUFFICES ASSUME IInv PROVE TrackedNotLost
  OBVIOUS
<1> DEFINE held == UNION { s.jobs[i].kptrs : i \in Slots }
           open == UNION { s.jobs[i].fds : i \in Slots }
           inHand(where) == { s.at[t].got : t \in { u \in JobTasks : s.at[u].at = where } }
<1>1. \A i \in Slots : s.jobs[i].state \notin Live =>
          s.jobs[i].kptrs = {} /\ s.jobs[i].fds = {} /\ ~ s.jobs[i].code
  BY DEF IInv, Good, Phases
<1>2. \A where, p : InHand(s, where, p) => p \in inHand(where)
  BY DEF InHand, JobTasks, JobTasksOf
<1>3. ASSUME ~ torn PROVE s.heap = held \cup inHand("kmalloc") /\ s.files \subseteq open \cup inHand("open")
  <2>1. s.heap \subseteq held \cup inHand("kmalloc")
    <3> SUFFICES ASSUME NEW p \in s.heap PROVE p \in held \/ p \in inHand("kmalloc")
      OBVIOUS
    <3>1. (\E i \in Slots : p \in s.jobs[i].kptrs) \/ InHand(s, "kmalloc", p)
      BY <1>3 DEF IInv, Good, Blocks
    <3> QED BY <1>2, <3>1
  <2>2. held \subseteq s.heap
    BY DEF IInv, Good, Blocks
  <2>3. inHand("kmalloc") \subseteq s.heap
    BY DEF IInv, Good, Blocks, JobTasks, JobTasksOf
  <2>4. s.files \subseteq open \cup inHand("open")
    <3> SUFFICES ASSUME NEW p \in s.files PROVE p \in open \/ p \in inHand("open")
      OBVIOUS
    <3>1. (\E i \in Slots : p \in s.jobs[i].fds) \/ InHand(s, "open", p)
      BY <1>3 DEF IInv, Good, Files
    <3> QED BY <1>2, <3>1
  <2> QED BY <2>1, <2>2, <2>3, <2>4
<1> QED
  BY <1>1, <1>3, Zenon DEF TrackedNotLost

(* The tasks beyond the workers map one to one into the slots.               *)
LEMMA TasksOfIInv == IInv => OneTaskPerSlot
<1> SUFFICES ASSUME IInv PROVE OneTaskPerSlot
  OBVIOUS
<1>1. ASSUME NEW i \in Slots, NEW k \in Slots, i # k, s.jobs[i].task >= 0
      PROVE  s.jobs[i].task # s.jobs[k].task
  <2>1. s.jobs[i].task # -1
    BY <1>1
  <2> QED BY <1>1, <2>1 DEF IInv, Good, Structure
<1>2. TaskTop(s) \in Nat /\ DOMAIN s.at = 0 .. TaskTop(s) - 1
  BY TopOf DEF IInv, Good
<1> DEFINE g == [t \in JobTasksOf(s) |-> s.at[t].slot]
<1>3. g \in [JobTasksOf(s) -> Slots]
  BY DEF IInv, Good, Structure
<1>4. \A t, u \in JobTasksOf(s) : g[t] = g[u] => t = u
  BY DEF IInv, Good, Structure
<1>5. JobTasksOf(s) = TERMINAL_WORKERS .. TaskTop(s) - 1 /\ TERMINAL_WORKERS <= TaskTop(s)
  <2>1. Workers \subseteq DOMAIN s.at
    BY DEF IInv, Good, Structure
  <2> QED BY <1>2, <2>1, WorkersAssumption DEF JobTasksOf, Workers
<1>6. Cardinality(JobTasksOf(s)) = TaskTop(s) - TERMINAL_WORKERS
  <2>1. TERMINAL_WORKERS \in Int /\ TaskTop(s) - 1 \in Int
    BY <1>2, WorkersAssumption
  <2>2. IF TERMINAL_WORKERS > TaskTop(s) - 1 THEN Cardinality(TERMINAL_WORKERS .. TaskTop(s) - 1) = 0
        ELSE Cardinality(TERMINAL_WORKERS .. TaskTop(s) - 1) = (TaskTop(s) - 1) - TERMINAL_WORKERS + 1
    BY <2>1, FS_Interval
  <2> QED BY <1>2, <1>5, <2>1, <2>2
<1>7. IsFiniteSet(Slots) /\ Cardinality(Slots) = JIT_MAX_JOBS
  <2>1. IsFiniteSet(0 .. JIT_MAX_JOBS - 1)
        /\ Cardinality(0 .. JIT_MAX_JOBS - 1) = IF 0 > JIT_MAX_JOBS - 1 THEN 0 ELSE JIT_MAX_JOBS - 1 - 0 + 1
    BY JobsAssumption, FS_Interval
  <2> QED BY <2>1, JobsAssumption DEF Slots
<1>8. Cardinality(JobTasksOf(s)) <= Cardinality(Slots)
  <2>1. g \in Injection(JobTasksOf(s), Slots)
    BY <1>3, <1>4 DEF Injection, IsInjective
  <2> HIDE DEF g
  <2> QED BY <1>7, <2>1, FS_Injection
<1> QED
  BY <1>1, <1>2, <1>6, <1>7, <1>8, JobsAssumption, WorkersAssumption DEF OneTaskPerSlot


(* A worker asleep in os_jit_run beside the job it started sleeps beside a   *)
(* live job with a scheduled task: whatever ends the job (main returning,    *)
(* kill, Ctrl-C, the timer trap), the worker is woken in the same step.      *)
THEOREM WaitersAreWoken == Spec => []WaiterOfLiveJob
  BY Invariance, WaiterOfIInv, PTL

(* A task inside jit_entry's call of main runs the code of the job its slot  *)
(* holds now, never the code of a job that has been freed or replaced.       *)
THEOREM JobsRunTheirCode == Spec => []RunsOwnCode
  BY Invariance, RunsOfIInv, PTL

(* A job that is no longer live lists no block, no file and no code, and as  *)
(* long as no job was torn down inside an allocation every block and every   *)
(* descriptor that jit_kmalloc and jit_appfs_open gave out and nobody has    *)
(* freed or closed is listed by a job or about to be listed by one.  What    *)
(* fopen and open give out, and what a failed close keeps, is in s.loose and *)
(* s.streams and outside this.                                               *)
THEOREM TrackedIsNotLost == Spec => []TrackedNotLost
  BY Invariance, LostOfIInv, PTL

(* Slots keep their task: however many jobs are started, the task table      *)
(* holds at most one task per slot besides the terminal workers.             *)
THEOREM TasksAreBounded == Spec => []OneTaskPerSlot
  BY Invariance, TasksOfIInv, PTL

=============================================================================
