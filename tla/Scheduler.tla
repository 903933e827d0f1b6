----------------------------- MODULE Scheduler -----------------------------
(***************************************************************************)
(* The cooperative task scheduler of vibeos (task.c) driven by the main    *)
(* loop of os.c: per-level round-robin lists, a pick quota for the level   *)
(* being served, and task_create / task_reset / task_run / task_sleep /    *)
(* task_wake / task_os called by the task that holds the CPU.              *)
(*                                                                         *)
(* Build profile: FPGA_MINIMAL, "cooperative polling and does not enable   *)
(* machine IRQs", so a call of task.c runs to its end before another one   *)
(* starts and only the current task makes calls.                           *)
(*                                                                         *)
(* Left out: task priorities (stored, never read), the register contexts   *)
(* (ra and sp of a created task are never 0) and the range checks on       *)
(* `level' and `running' that only corrupted memory could fail.  The cells *)
(* of task_level.tasks at and above `running' are never read before they   *)
(* are written, so a list is a function on 0..running-1.                   *)
(***************************************************************************)
EXTENDS Integers, FiniteSets, Sequences

CONSTANTS
    MAX_TASKS,          \* size of the task table
    MAX_TASKLEVELS,     \* number of levels; 0 is the most urgent
    LEVEL0_QUOTA,       \* picks level 0 gets before another level is tried
    BootLevels,         \* levels of the tasks user_init creates, in order
    CallLevels          \* levels passed to task_create, task_reset, task_run

ASSUME TasksAssumption  == MAX_TASKS \in Nat \ {0}
ASSUME LevelsAssumption == MAX_TASKLEVELS \in Nat \ {0}
ASSUME QuotaAssumption  == LEVEL0_QUOTA \in Nat \ {0}
ASSUME BootAssumption   == BootLevels \in Seq(Int) /\ Len(BootLevels) <= MAX_TASKS
ASSUME CallAssumption   == CallLevels \subseteq Int

VARIABLES
    q,                    \* the run queues: task_levels[] and task_meta[]
    taskTop,              \* tasks created so far
    current_task_id,      \* the task that holds the CPU, -1: the OS loop
    current_level,        \* the level task_next serves
    current_level_quota,  \* picks left for it
    pc,                   \* where the OS loop is
    picked,               \* task_next's result, while pc = "go"
    panic                 \* the message of panic(), which never returns

vars == <<q, taskTop, current_task_id, current_level, current_level_quota,
          pc, picked, panic>>

Tasks  == 0 .. MAX_TASKS - 1
Levels == 0 .. MAX_TASKLEVELS - 1

UNUSED   == "unused"
SLEEPING == "sleeping"
RUNNING  == "running"

Created == 0 .. taskTop - 1

-----------------------------------------------------------------------------
(* The run queues as a value.  q.tasks[l] is the list of level l, q.now[l]  *)
(* the index task_next serves next; q.flags[t] and q.level[t] are the       *)
(* task_meta entry of t.                                                    *)

EmptyQueues ==
    [tasks   |-> [l \in Levels |-> [i \in 0 .. -1 |-> 0]],
     running |-> [l \in Levels |-> 0],
     now     |-> [l \in Levels |-> 0],
     flags   |-> [t \in Tasks |-> UNUSED],
     level   |-> [t \in Tasks |-> 0]]

Lists == UNION {[0 .. n - 1 -> Tasks] : n \in 0 .. MAX_TASKS}

QueueType ==
    [tasks   : [Levels -> Lists],
     running : [Levels -> 0 .. MAX_TASKS],
     now     : [Levels -> Nat],
     flags   : [Tasks -> {UNUSED, SLEEPING, RUNNING}],
     level   : [Tasks -> Levels]]

\* task_add has no room: panic("too many runnable tasks")
Overflows(s, t) == s.running[s.level[t]] >= MAX_TASKS

TaskAdd(s, t) ==
    LET l == s.level[t]
        n == s.running[l]
    IN [s EXCEPT !.tasks[l]   = [i \in 0 .. n |-> IF i = n THEN t ELSE s.tasks[l][i]],
                 !.running[l] = n + 1,
                 !.flags[t]   = RUNNING]

\* Seeded fault: the cursor is not wrapped when the list gets shorter.
BadCursorNoWrap(now, i, n) == IF i < now THEN now - 1 ELSE now

\* Seeded fault: the cursor does not follow the entries that move down.
BadCursorNoShift(now, i, n) == IF now >= n THEN 0 ELSE now

\* The cursor after the entry at index i leaves a list that then has n entries.
CursorAfterRemoval(now, i, n) ==
    LET c == IF i < now THEN now - 1 ELSE now
    IN IF c >= n THEN 0 ELSE c

\* Seeded fault: the flag is cleared but the entry stays in the list.
BadTaskRemove(s, t) == [s EXCEPT !.flags[t] = SLEEPING]

TaskRemove(s, t) ==
    LET l     == s.level[t]
        n     == s.running[l]
        found == {i \in 0 .. n - 1 : s.tasks[l][i] = t}
        i     == CHOOSE k \in found : \A j \in found : k <= j
    IN IF found = {} THEN s
       ELSE [s EXCEPT !.tasks[l]   = [k \in 0 .. n - 2 |->
                                        IF k < i THEN s.tasks[l][k] ELSE s.tasks[l][k + 1]],
                      !.running[l] = n - 1,
                      !.now[l]     = CursorAfterRemoval(s.now[l], i, n - 1),
                      !.flags[t]   = SLEEPING]

\* task_run's clamping of its level argument
ClampLevel(s, t, level) ==
    IF level < 0 THEN s.level[t]
    ELSE IF level >= MAX_TASKLEVELS THEN MAX_TASKLEVELS - 1 ELSE level

\* Seeded fault: the level changes under a task that is in a list.
BadRelevel(s, t, level) == [s EXCEPT !.level[t] = ClampLevel(s, t, level)]

\* task_run up to its task_add: the task leaves the list of its old level
Relevel(s, t, level) ==
    LET l == ClampLevel(s, t, level)
        r == IF s.flags[t] = RUNNING /\ s.level[t] # l THEN TaskRemove(s, t) ELSE s
    IN [r EXCEPT !.level[t] = l]

\* a fresh task_meta entry, as task_create and task_reset write it
FreshMeta(s, t) ==
    LET r == IF s.flags[t] = RUNNING THEN TaskRemove(s, t) ELSE s
    IN [r EXCEPT !.flags[t] = SLEEPING, !.level[t] = 0]

NonEmpty(s) == {l \in Levels : s.running[l] > 0}

LowestLevel(s) ==
    IF NonEmpty(s) = {} THEN 0
    ELSE CHOOSE l \in NonEmpty(s) : \A k \in NonEmpty(s) : l <= k

SwitchQuota(s) == IF LowestLevel(s) = 0 THEN LEVEL0_QUOTA ELSE 1

\* task_switchsub: serve the most urgent non-empty level, with a full quota
TaskSwitchsub(s) ==
    /\ current_level' = LowestLevel(s)
    /\ current_level_quota' = SwitchQuota(s)

-----------------------------------------------------------------------------
Init ==
    /\ q = EmptyQueues
    /\ taskTop = 0
    /\ current_task_id = -1
    /\ current_level = 0
    /\ current_level_quota = LEVEL0_QUOTA
    /\ pc = "boot"
    /\ picked = -1
    /\ panic = "none"

Panic(msg) ==
    /\ panic' = msg
    /\ UNCHANGED <<q, taskTop, current_task_id, current_level,
                   current_level_quota, pc, picked>>

\* The tail of task_run: task_add unless already in the list, task_switchsub.
AddAndSwitch(s, t) ==
    IF s.flags[t] # RUNNING /\ Overflows(s, t)
    THEN panic' = "too many runnable tasks"
         /\ UNCHANGED <<q, current_level, current_level_quota>>
    ELSE LET r == IF s.flags[t] # RUNNING THEN TaskAdd(s, t) ELSE s
         IN /\ q' = r
            /\ TaskSwitchsub(r)
            /\ UNCHANGED panic

TaskRun(s, t, level) == AddAndSwitch(Relevel(s, t, level), t)

TaskCreate(level) ==
    /\ taskTop' = taskTop + 1
    /\ TaskRun(FreshMeta(q, taskTop), taskTop, level)

\* The calls below come from the task that holds the CPU.
InTask == pc = "run" /\ panic = "none"

\* Seeded fault: the OS loop resumes with the old current_task_id.
BadGiveUp == pc' = "next" /\ UNCHANGED current_task_id

\* task_os: the current task gives the CPU back to the OS loop
GiveUp ==
    /\ current_task_id' = -1
    /\ pc' = "next"

\* user_init creates the boot tasks one after the other
BootCreate ==
    /\ pc = "boot" /\ panic = "none"
    /\ taskTop < Len(BootLevels)
    /\ TaskCreate(BootLevels[taskTop + 1])
    /\ UNCHANGED <<current_task_id, pc, picked>>

\* os_start enters its loop once user_init has returned
EnterLoop ==
    /\ pc = "boot" /\ panic = "none"
    /\ taskTop = Len(BootLevels)
    /\ pc' = "next"
    /\ UNCHANGED <<q, taskTop, current_task_id, current_level,
                   current_level_quota, picked, panic>>

Create(level) ==
    /\ InTask
    /\ IF taskTop >= MAX_TASKS
       THEN Panic("too many tasks")
       ELSE TaskCreate(level) /\ UNCHANGED <<current_task_id, pc, picked>>

Reset(t, level) ==
    /\ InTask
    /\ t \in Created
    /\ TaskRun(FreshMeta(q, t), t, level)
    /\ UNCHANGED <<taskTop, current_task_id, pc, picked>>

Run(t, level) ==
    /\ InTask
    /\ t \in Created
    /\ TaskRun(q, t, level)
    /\ UNCHANGED <<taskTop, current_task_id, pc, picked>>

Sleep(t) ==
    /\ InTask
    /\ t \in Created
    /\ q.flags[t] = RUNNING
    /\ q' = TaskRemove(q, t)
    /\ TaskSwitchsub(TaskRemove(q, t))
    /\ IF t = current_task_id THEN GiveUp ELSE UNCHANGED <<current_task_id, pc>>
    /\ UNCHANGED <<taskTop, picked, panic>>

Wake(t) ==
    /\ InTask
    /\ t \in Created
    /\ q.flags[t] # RUNNING
    /\ AddAndSwitch(q, t)
    /\ UNCHANGED <<taskTop, current_task_id, pc, picked>>

Yield ==
    /\ InTask
    /\ current_task_id \in Created
    /\ GiveUp
    /\ UNCHANGED <<q, taskTop, current_level, current_level_quota, picked, panic>>

\* Seeded fault: the search always starts again at level 0.
BadSearchLevel == LowestLevel(q)

\* The level task_next serves when the current one is empty or out of quota:
\* the first non-empty one of the MAX_TASKLEVELS that follow it cyclically.
SearchLevel ==
    LET Level(step) == (current_level + step) % MAX_TASKLEVELS
        steps == {k \in 1 .. MAX_TASKLEVELS : q.running[Level(k)] > 0}
    IN Level(CHOOSE k \in steps : \A j \in steps : k <= j)

StayOnLevel == q.running[current_level] > 0 /\ current_level_quota > 0

\* the list entry at the cursor, and the cursor after it has been served
Served(s, l)  == s.tasks[l][s.now[l]]
Advance(s, l) == IF s.now[l] + 1 >= s.running[l] THEN 0 ELSE s.now[l] + 1

\* task_next: choose the level, then the next task of its list
TaskNext ==
    /\ pc = "next" /\ panic = "none"
    /\ NonEmpty(q) # {}
    /\ LET l == IF StayOnLevel THEN current_level ELSE SearchLevel
           t == Served(q, l)
       IN /\ current_level' = l
          /\ current_level_quota' =
                IF StayOnLevel THEN current_level_quota - 1
                ELSE IF l = 0 THEN LEVEL0_QUOTA - 1 ELSE 0
          /\ q' = [q EXCEPT !.now[l] = Advance(q, l)]
          /\ IF t \in Created /\ q.flags[t] = RUNNING
             THEN picked' = t /\ pc' = "go"
             ELSE UNCHANGED <<picked, pc>>
    /\ UNCHANGED <<taskTop, current_task_id, panic>>

\* task_next finds every list empty and the loop tries again
Idle ==
    /\ pc = "next" /\ panic = "none"
    /\ NonEmpty(q) = {}
    /\ UNCHANGED vars

\* task_go: the picked task gets the CPU, if it may still run
TaskGo ==
    /\ pc = "go" /\ panic = "none"
    /\ IF picked \in Created /\ q.flags[picked] = RUNNING
       THEN current_task_id' = picked /\ pc' = "run"
       ELSE UNCHANGED current_task_id /\ pc' = "next"
    /\ picked' = -1
    /\ UNCHANGED <<q, taskTop, current_level, current_level_quota, panic>>

\* panic() loops for ever
Halted == panic # "none" /\ UNCHANGED vars

QueueCall ==
    \/ \E level \in CallLevels : Create(level)
    \/ \E t \in Tasks, level \in CallLevels : Reset(t, level) \/ Run(t, level)
    \/ \E t \in Tasks : Sleep(t) \/ Wake(t)

Next ==
    \/ BootCreate
    \/ EnterLoop
    \/ QueueCall
    \/ Yield
    \/ TaskNext
    \/ Idle
    \/ TaskGo
    \/ Halted

Spec == Init /\ [][Next]_vars

(* The OS loop never stops, and every task body of user.c, user_gui.c and   *)
(* user_terminal.c ends each round of its loop with task_os or              *)
(* task_sleep_current.                                                      *)
GivesUpCPU == Yield \/ Sleep(current_task_id)

FairSpec ==
    /\ Spec
    /\ WF_vars(BootCreate) /\ WF_vars(EnterLoop)
    /\ WF_vars(TaskNext) /\ WF_vars(TaskGo)
    /\ WF_vars(GivesUpCPU)

-----------------------------------------------------------------------------
(* Every variable keeps its C type, the cursor of a level stays inside its   *)
(* list and the entries of every list are created tasks.                     *)
TypeOK ==
    /\ q \in QueueType
    /\ \A l \in Levels : /\ q.tasks[l] \in [0 .. q.running[l] - 1 -> Created]
                         /\ q.now[l] < q.running[l] \/ q.now[l] = 0
    /\ taskTop \in 0 .. MAX_TASKS
    /\ current_task_id \in Created \cup {-1}
    /\ current_level \in Levels
    /\ current_level_quota \in 0 .. LEVEL0_QUOTA
    /\ pc \in {"boot", "next", "go", "run"}
    /\ picked \in Created \cup {-1}
    /\ panic \in {"none", "too many tasks", "too many runnable tasks"}

(* The lists agree with task_meta: a task whose flags say RUNNING is in the  *)
(* list of its own level exactly once, and a task that sleeps, was never     *)
(* created or belongs to another level is in no list.  task_remove gives up  *)
(* silently when it does not find its task and task_wake trusts the flag, so *)
(* one disagreement would last for ever.                                     *)
QueuesAgree ==
    /\ \A l \in Levels : \A i \in 0 .. q.running[l] - 1 :
          /\ q.flags[q.tasks[l][i]] = RUNNING
          /\ q.level[q.tasks[l][i]] = l
          /\ \A j \in 0 .. q.running[l] - 1 : q.tasks[l][i] = q.tasks[l][j] => i = j
    /\ \A t \in Tasks : q.flags[t] = RUNNING =>
          \E i \in 0 .. q.running[q.level[t]] - 1 : q.tasks[q.level[t]][i] = t

(* task_add's panic("too many runnable tasks") is unreachable: the lists     *)
(* never hold a task twice, so MAX_TASKS entries are always enough.          *)
NoRunQueueOverflow == panic # "too many runnable tasks"

(* task_switchsub after every change of the lists keeps the served level     *)
(* non-empty as long as any task is runnable: a task that sleeps or changes  *)
(* level as the last one of the served level never leaves task_next behind   *)
(* on an empty level.                                                        *)
ServedLevelLive == NonEmpty(q) # {} => q.running[current_level] > 0

(* Whatever sequence of calls came before, one call of task_next with a      *)
(* runnable task returns a task task_go accepts: no round of the OS loop is  *)
(* lost to a stale entry.                                                    *)
NoLostRound ==
    [][/\ TaskNext => pc' = "go"
       /\ TaskGo   => pc' = "run"]_vars

(* A task that sleeps, is woken, moved or reset does not cost another task   *)
(* its turn: the task next in turn on a level is still next in turn.         *)
TurnKept ==
    [][\A t \in Tasks :
          (Sleep(t) \/ Wake(t) \/ \E level \in CallLevels : Reset(t, level) \/ Run(t, level))
          => \A l \in NonEmpty(q) : Served(q, l) # t => Served(q', l) = Served(q, l)]_vars

(* What task.c promises its callers: the CPU goes to one runnable task at a  *)
(* time, and only that task's calls, or the boot code's, change who may run. *)
Pool == INSTANCE TaskPool WITH
    runnable <- {t \in Tasks : q.flags[t] = RUNNING},
    holder   <- current_task_id,
    None     <- -1

PoolSpec == Pool!Spec

(* Once the tasks stop calling task_create, task_reset, task_run, task_sleep *)
(* and task_wake, every runnable task of every level gets the CPU again and  *)
(* again: the level-0 quota and the round-robin cursors starve nobody.       *)
RunnableServed ==
    (<>[][~QueueCall]_vars) =>
        \A t \in Tasks : (<>[](q.flags[t] = RUNNING /\ panic = "none")) => []<>(current_task_id = t)

=============================================================================
