------------------------------ MODULE JitJobs ------------------------------
(***************************************************************************)
(* The JIT job table of runtime/jit/tcc_glue.c: programs compiled in       *)
(* memory by a terminal worker and run by a task of their own, in the      *)
(* foreground (the worker sleeps until the program ends) or in the         *)
(* background, and the ways a job ends: main returns, an invalid entry,    *)
(* `jit kill', Ctrl-C from the GUI or from the terminal, a debug run that  *)
(* replaces it, and on QEMU Ctrl-C seen by the timer trap while the        *)
(* program itself is on the CPU.                                           *)
(*                                                                         *)
(* The scheduler is the pool of TaskPool: a set of runnable tasks, one of  *)
(* which may hold the CPU.  A step is the code between two scheduling      *)
(* points of one task, except that the program's kernel calls are cut      *)
(* where the timer trap can fall.                                          *)
(*                                                                         *)
(* A job task that ended sleeps inside jit_job_execute and would sleep     *)
(* once more in the loop of jit_task_entry_idx; it is always reset before  *)
(* it is woken, so both places are the one "entry".  os_jit_cancel_task    *)
(* has no caller.  A program reaches the files of appfs in two ways: through *)
(* appfs_open and appfs_close, which list the descriptor in the job, and   *)
(* through open, close, fopen and fclose, which do not.  A descriptor opened *)
(* for writing is committed when it is closed; when the commit fails it    *)
(* stays open, whoever has forgotten it.                                   *)
(* Left out: the symbol table, the repair of main's prologue, the user     *)
(* heap inside the job, the text of the messages, and a trap that cuts     *)
(* jit_kfree or jit_appfs_close between its two halves (it leaves what a   *)
(* trap inside jit_kmalloc or jit_appfs_open leaves).                      *)
(***************************************************************************)
EXTENDS Integers, FiniteSets, FiniteSetsExt

CONSTANTS
    MAX_WINDOWS,        \* windows; window w is served by worker w % workers
    TERMINAL_WORKERS,   \* tasks 0 .. TERMINAL_WORKERS-1
    JIT_MAX_JOBS,       \* slots of jit_jobs
    JIT_MAX_KPTRS,      \* kernel blocks a job may hold
    JIT_MAX_FDS,        \* files a job may hold
    APPFS_FDS,          \* size of the shared descriptor table of appfs
    Ptrs,               \* the kernel blocks malloc may hand out
    TimerIrq,           \* TRUE: machine timer interrupts (QEMU profile)
    MaxId               \* bound: jobs started

ASSUME WorkersAssumption == TERMINAL_WORKERS \in Nat \ {0} /\ MAX_WINDOWS \in Nat
ASSUME JobsAssumption == JIT_MAX_JOBS \in Nat /\ MaxId \in Nat
ASSUME TableAssumption ==
    JIT_MAX_KPTRS \in Nat /\ JIT_MAX_FDS \in Nat /\ APPFS_FDS \in Nat
ASSUME IrqAssumption == TimerIrq \in BOOLEAN

VARIABLES
    s,              \* the job table, the run pool and what jobs allocated
    jit_next_id,    \* the id the next job gets
    cpu,            \* the task that holds the CPU, -1: none
    torn            \* a timer trap cut a kernel call of a job short

vars == <<s, jit_next_id, cpu, torn>>

Windows == 0 .. MAX_WINDOWS - 1
Slots   == 0 .. JIT_MAX_JOBS - 1
Workers == 0 .. TERMINAL_WORKERS - 1
WorkerOf(win) == win % TERMINAL_WORKERS

EMPTY   == "empty"
READY   == "ready"
RUNNING == "running"
DONE    == "done"
FAILED  == "failed"

-----------------------------------------------------------------------------
(* s.jobs[i] is slot i; code stands for its TCCState (the compiled text).   *)
(* s.at[t] is where task t is: a worker in its "shell" or in the wait loop  *)
(* of os_jit_run ("wait", for job `id' of slot `slot'); a job task at its   *)
(* "entry", inside "main", between malloc and jit_track_kptr ("kmalloc"),   *)
(* or between appfs_open and jit_track_fd ("open").                         *)
(* The used entries of appfs' table are s.files, opened by jit_appfs_open,  *)
(* and s.loose, which no job has to close: opened by open or fopen, or kept *)
(* by a close that failed after the job had forgotten the descriptor.       *)
(* s.heap are the blocks of jit_kmalloc, s.streams the FILE blocks of fopen. *)

Shell == [at |-> "shell", slot |-> -1, id |-> 0, got |-> -1]
Entry(i) == [at |-> "entry", slot |-> i, id |-> 0, got |-> -1]

EmptyJob ==
    [id |-> 0, state |-> EMPTY, bg |-> FALSE, owner |-> 0, task |-> -1,
     waiter |-> -1, cancel |-> FALSE, exit |-> 0, code |-> FALSE,
     kptrs |-> {}, fds |-> {}]

TaskTop(st) == Cardinality(DOMAIN st.at)

Wake(st, t) == [st EXCEPT !.runnable = @ \cup {t}]
Block(st, t) == [st EXCEPT !.runnable = @ \ {t}]

Used(st) == st.files \cup st.loose
FreeFds(st) == (0 .. APPFS_FDS - 1) \ Used(st)
FreePtrs(st) == Ptrs \ (st.heap \cup { f.block : f \in st.streams })

\* appfs_close of the descriptors of D, which their job has just forgotten: those
\* of `kept' stay open, since their commit fails
CloseForgotten(st, D, kept) ==
    [st EXCEPT !.files = @ \ D,
               !.loose = (@ \ (D \ kept)) \cup (st.files \cap D \cap kept)]

\* jit_job_cleanup of every slot of C: close the files, free the blocks, delete
\* the code.  The loops over slots end jobs one by one; since a task belongs to
\* one slot and a waiter is no job's task, all at once is the same.
Cleanup(st, C, kept) ==
    CloseForgotten(
        [st EXCEPT !.jobs = [i \in Slots |-> IF i \in C
                                THEN [@[i] EXCEPT !.fds = {}, !.kptrs = {}, !.code = FALSE]
                                ELSE @[i]],
                   !.heap = @ \ UNION { st.jobs[i].kptrs : i \in C }],
        UNION { st.jobs[i].fds : i \in C }, kept)

-----------------------------------------------------------------------------
(* Starting a job.                                                          *)

FreeSlots(st) == { i \in Slots : st.jobs[i].state \in {EMPTY, DONE, FAILED} }

AllocForgetsTask(st, bg, win) ==
    LET i == Min(FreeSlots(st))
    IN  [st EXCEPT !.jobs[i] = [EmptyJob EXCEPT
            !.id = jit_next_id, !.state = "compiling", !.bg = bg, !.owner = win]]

\* the task of the slot's last job is kept, everything else is cleared
AllocJob(st, bg, win) ==
    LET i == Min(FreeSlots(st))
    IN  [st EXCEPT !.jobs[i] = [EmptyJob EXCEPT
            !.id = jit_next_id, !.state = "compiling", !.bg = bg, !.owner = win,
            !.task = st.jobs[i].task]]

\* a failed compilation leaves the slot FAILED and runs jit_job_cleanup
CompileFailed(st, i) == Cleanup([st EXCEPT !.jobs[i].state = FAILED], {i}, {})
Compiled(st, i) == [st EXCEPT !.jobs[i].state = READY, !.jobs[i].code = TRUE]

\* task_create for a slot that never ran, task_reset otherwise; task_wake
StartTask(st, i, waiter) ==
    LET new == st.jobs[i].task < 0 \/ st.jobs[i].task = waiter
        t   == IF new THEN TaskTop(st) ELSE st.jobs[i].task
    IN  Wake([st EXCEPT !.jobs[i].task = t, !.jobs[i].waiter = waiter,
                        !.at = [u \in DOMAIN @ \cup {t} |->
                                    IF u = t THEN Entry(i) ELSE @[u]]], t)

-----------------------------------------------------------------------------
(* Ending a job from outside.                                               *)

LeaveTasks(st, C) == st

\* task_reset and task_sleep of the jobs' tasks
StopTasks(st, C) ==
    LET stopped == { st.jobs[i].task : i \in C } \ {-1}
        slot(t) == CHOOSE i \in C : st.jobs[i].task = t
    IN  [st EXCEPT !.at = [t \in DOMAIN @ |-> IF t \in stopped THEN Entry(slot(t)) ELSE @[t]],
                   !.runnable = @ \ stopped]

Fail(st, C, rc) ==
    [st EXCEPT !.jobs = [i \in Slots |-> IF i \in C
                            THEN [@[i] EXCEPT !.cancel = TRUE, !.state = FAILED, !.exit = rc]
                            ELSE @[i]]]

WakeForegroundWaiter(st, i) ==
    IF ~st.jobs[i].bg /\ st.jobs[i].waiter >= 0 THEN Wake(st, st.jobs[i].waiter) ELSE st

\* the cancel paths compare the waiter with the caller instead
WakeOtherWaiters(st, C, caller) ==
    [st EXCEPT !.runnable = @ \cup ({ st.jobs[i].waiter : i \in C } \ {-1, caller})]

KillSlotSilently(st, i, kept) == Cleanup(Fail(StopTasks(st, {i}), {i}, -1), {i}, kept)

KillSlot(st, i, kept) ==
    WakeForegroundWaiter(Cleanup(Fail(StopTasks(st, {i}), {i}, -1), {i}, kept), i)

Cancellable(st, win) ==
    { i \in Slots : /\ st.jobs[i].owner = win
                    /\ st.jobs[i].state \in {"compiling", READY, RUNNING} }

CancelSlots(st, C, caller, kept) ==
    WakeOtherWaiters(Cleanup(Fail(StopTasks(st, C), C, -2), C, kept), C, caller)

CancelByOwner(st, win, caller, kept) == CancelSlots(st, Cancellable(st, win), caller, kept)

-----------------------------------------------------------------------------
Init ==
    /\ s = [jobs     |-> [i \in Slots |-> EmptyJob],
            runnable |-> {},
            at       |-> [t \in Workers |-> Shell],
            heap     |-> {},
            files    |-> {},
            loose    |-> {},
            streams  |-> {}]
    /\ jit_next_id = 1
    /\ cpu = -1
    /\ torn = FALSE

\* task_go: the CPU goes to some runnable task
Dispatch ==
    /\ cpu = -1
    /\ cpu' \in s.runnable
    /\ UNCHANGED <<s, jit_next_id, torn>>

\* A key or a mouse event for window win wakes its worker, whatever it does.
Poke(win) ==
    /\ cpu = -1
    /\ WorkerOf(win) \notin s.runnable
    /\ s' = Wake(s, WorkerOf(win))
    /\ UNCHANGED <<jit_next_id, cpu, torn>>

\* gui_task sees Ctrl-C in the active window: broadcast_ctrl_c.  It wakes the
\* worker of the window only when something was cancelled.
GuiCtrlC(win) ==
    /\ cpu = -1
    /\ Cancellable(s, win) # {}
    /\ \E kept \in SUBSET Used(s) :
          s' = Wake(CancelByOwner(s, win, -1, kept), WorkerOf(win))
    /\ UNCHANGED <<jit_next_id, cpu, torn>>

-----------------------------------------------------------------------------
(* A terminal worker, in its shell, runs one command for a window.          *)

InShell(win) == /\ cpu = WorkerOf(win) /\ s.at[cpu].at = "shell"

SleepAs(st, t) == /\ s' = Block(st, t) /\ cpu' = -1

Rest == /\ \E win \in Windows : InShell(win)
        /\ SleepAs(s, cpu)
        /\ UNCHANGED <<jit_next_id, torn>>

TakeId == jit_next_id <= MaxId /\ jit_next_id' = jit_next_id + 1

CompileError(win, bg) ==
    /\ InShell(win)
    /\ FreeSlots(s) # {}
    /\ TakeId
    /\ s' = CompileFailed(AllocJob(s, bg, win), Min(FreeSlots(s)))
    /\ UNCHANGED <<cpu, torn>>

\* os_jit_run: the worker becomes the waiter and sleeps, since the job is READY
RunForeground(win) ==
    /\ InShell(win)
    /\ FreeSlots(s) # {}
    /\ TakeId
    /\ LET i == Min(FreeSlots(s))
           a == StartTask(Compiled(AllocJob(s, FALSE, win), i), i, cpu)
       IN  SleepAs([a EXCEPT !.at[cpu] = [at |-> "wait", slot |-> i,
                                          id |-> jit_next_id, got |-> -1]], cpu)
    /\ UNCHANGED torn

StartBackground(st, win) ==
    LET i == Min(FreeSlots(st))
    IN  StartTask(Compiled(AllocJob(st, TRUE, win), i), i, -1)

RunBackground(win) ==
    /\ InShell(win)
    /\ FreeSlots(s) # {}
    /\ TakeId
    /\ s' = StartBackground(s, win)
    /\ UNCHANGED <<cpu, torn>>

\* os_jit_run_bg_debug_file: the window's jobs are cancelled first
RunDebug(win) ==
    \E kept \in SUBSET Used(s) :
        LET st == CancelByOwner(s, win, cpu, kept)
        IN  /\ InShell(win)
            /\ Cancellable(s, win) # {}
            /\ FreeSlots(st) # {}
            /\ TakeId
            /\ s' = StartBackground(st, win)
            /\ UNCHANGED <<cpu, torn>>

\* os_jit_kill: any job that has the id, ended ones too
Kill(win, i) ==
    /\ InShell(win)
    /\ s.jobs[i].state # EMPTY
    /\ \E kept \in SUBSET Used(s) : s' = KillSlot(s, i, kept)
    /\ UNCHANGED <<jit_next_id, cpu, torn>>

\* Ctrl-C read from the window's mailbox by its worker
ShellCtrlC(win) ==
    /\ InShell(win)
    /\ Cancellable(s, win) # {}
    /\ \E kept \in SUBSET Used(s) : s' = CancelByOwner(s, win, cpu, kept)
    /\ UNCHANGED <<jit_next_id, cpu, torn>>

\* The loop of os_jit_run looks at the slot, whichever job is in it by then.
WaitLoop(t) ==
    /\ cpu = t /\ s.at[t].at = "wait"
    /\ IF s.jobs[s.at[t].slot].state \in {READY, RUNNING}
       THEN SleepAs(s, t)
       ELSE /\ s' = [s EXCEPT !.at[t] = Shell]
            /\ UNCHANGED cpu
    /\ UNCHANGED <<jit_next_id, torn>>

-----------------------------------------------------------------------------
(* The job's task.                                                          *)

JobTasks == DOMAIN s.at \ Workers
At(t, where) == cpu = t /\ s.at[t].at = where
SlotOf(t) == s.at[t].slot

\* jit_task_entry_idx, jit_job_execute up to the call of main
Execute(t) ==
    LET i == SlotOf(t) IN
    /\ At(t, "entry")
    /\ s.jobs[i].state = READY
    /\ s' = [s EXCEPT !.jobs[i] = [@ EXCEPT !.task = t, !.state = RUNNING, !.cancel = FALSE],
                      !.at[t] = [@ EXCEPT !.at = "main", !.id = s.jobs[i].id]]
    /\ UNCHANGED <<jit_next_id, cpu, torn>>

\* the end of jit_job_execute, and the sleep that follows it
Finish(t, st) ==
    LET i == SlotOf(t)
    IN  \E kept \in SUBSET Used(st) :
            SleepAs(WakeForegroundWaiter(
                        Cleanup([st EXCEPT !.at[t] = Entry(i)], {i}, kept), i), t)

InvalidMain(t) ==
    LET i == SlotOf(t) IN
    /\ At(t, "entry")
    /\ s.jobs[i].state = READY
    /\ Finish(t, [s EXCEPT !.jobs[i] = [@ EXCEPT !.task = t, !.cancel = FALSE,
                                                 !.state = FAILED, !.exit = -3]])
    /\ UNCHANGED <<jit_next_id, torn>>

MainReturns(t) ==
    LET i == SlotOf(t)
        j == s.jobs[i]
    IN  /\ At(t, "main")
        /\ Finish(t, IF j.cancel \/ j.state = FAILED
                     THEN [s EXCEPT !.jobs[i] = [@ EXCEPT !.exit = -2, !.state = FAILED]]
                     ELSE [s EXCEPT !.jobs[i] = [@ EXCEPT !.exit = 0, !.state = DONE]])
        /\ UNCHANGED <<jit_next_id, torn>>

\* jit_yield: the cancelled branch is the FAILED one of MainReturns' test
JitYield(t) ==
    LET i == SlotOf(t) IN
    /\ At(t, "main")
    /\ IF s.jobs[i].cancel
       THEN /\ s' = LET f == [s EXCEPT !.jobs[i].exit = -2, !.jobs[i].state = FAILED]
                    IN  IF s.jobs[i].bg THEN Block(f, t) ELSE f
            /\ cpu' = IF s.jobs[i].bg THEN -1 ELSE cpu
       ELSE UNCHANGED s /\ cpu' = -1
    /\ UNCHANGED <<jit_next_id, torn>>

Kmalloc(t) ==
    /\ At(t, "main")
    /\ ~s.jobs[SlotOf(t)].cancel
    /\ \E p \in FreePtrs(s) :
          s' = [s EXCEPT !.heap = @ \cup {p}, !.at[t] = [@ EXCEPT !.at = "kmalloc", !.got = p]]
    /\ UNCHANGED <<jit_next_id, cpu, torn>>

TrackKptrKeeps(t) ==
    LET i == SlotOf(t)
        p == s.at[t].got
    IN  /\ At(t, "kmalloc")
        /\ s' = [s EXCEPT !.at[t] = [@ EXCEPT !.at = "main", !.got = -1],
                          !.jobs[i].kptrs = IF Cardinality(@) < JIT_MAX_KPTRS
                                            THEN @ \cup {p} ELSE @]
        /\ UNCHANGED <<jit_next_id, cpu, torn>>

\* jit_track_kptr, and free when its table is full
TrackKptr(t) ==
    LET i    == SlotOf(t)
        p    == s.at[t].got
        room == Cardinality(s.jobs[i].kptrs) < JIT_MAX_KPTRS
    IN  /\ At(t, "kmalloc")
        /\ s' = [s EXCEPT !.at[t] = [@ EXCEPT !.at = "main", !.got = -1],
                          !.jobs[i].kptrs = IF room THEN @ \cup {p} ELSE @,
                          !.heap = IF room THEN @ ELSE @ \ {p}]
        /\ UNCHANGED <<jit_next_id, cpu, torn>>

\* a block the job does not track is left alone
Kfree(t) ==
    /\ At(t, "main")
    /\ \E p \in s.jobs[SlotOf(t)].kptrs :
          s' = [s EXCEPT !.heap = @ \ {p}, !.jobs[SlotOf(t)].kptrs = @ \ {p}]
    /\ UNCHANGED <<jit_next_id, cpu, torn>>

\* jit_appfs_open: appfs_open takes the first free descriptor
Open(t) ==
    /\ At(t, "main")
    /\ ~s.jobs[SlotOf(t)].cancel
    /\ FreeFds(s) # {}
    /\ s' = [s EXCEPT !.files = @ \cup {Min(FreeFds(s))},
                      !.at[t] = [@ EXCEPT !.at = "open", !.got = Min(FreeFds(s))]]
    /\ UNCHANGED <<jit_next_id, cpu, torn>>

\* jit_track_fd, and appfs_close when its table is full
TrackFd(t) ==
    LET i    == SlotOf(t)
        fd   == s.at[t].got
        back == [s EXCEPT !.at[t] = [@ EXCEPT !.at = "main", !.got = -1]]
        room == Cardinality(s.jobs[i].fds) < JIT_MAX_FDS
    IN  /\ At(t, "open")
        /\ \/ /\ room
              /\ s' = [back EXCEPT !.jobs[i].fds = @ \cup {fd}]
           \/ /\ ~room
              /\ \E kept \in SUBSET {fd} : s' = CloseForgotten(back, {fd}, kept)
        /\ UNCHANGED <<jit_next_id, cpu, torn>>

\* jit_appfs_close forgets and closes any descriptor, the job's own or not
Close(t) ==
    /\ At(t, "main")
    /\ \E fd \in Used(s) : \E kept \in SUBSET {fd} :
          s' = CloseForgotten([s EXCEPT !.jobs[SlotOf(t)].fds = @ \ {fd}], {fd}, kept)
    /\ UNCHANGED <<jit_next_id, cpu, torn>>

\* open, and fopen when it gets a block for its FILE; an fopen without one closes
\* the descriptor again, which when that fails is an open.  Neither is listed in
\* the job or looks at its cancel flag.
LibcOpen(t) ==
    LET fd == Min(FreeFds(s)) IN
    /\ At(t, "main")
    /\ FreeFds(s) # {}
    /\ \E file \in {{}} \cup { {[block |-> p, fd |-> fd]} : p \in FreePtrs(s) } :
          s' = [s EXCEPT !.loose = @ \cup {fd}, !.streams = @ \cup file]
    /\ UNCHANGED <<jit_next_id, cpu, torn>>

\* close of any descriptor and fclose of any FILE; a close that fails keeps the
\* descriptor where it is, fclose frees its block all the same
LibcClose(t) ==
    /\ At(t, "main")
    /\ \/ \E fd \in Used(s) : s' = CloseForgotten(s, {fd}, {})
       \/ \E f \in s.streams : \E D \in SUBSET {f.fd} :
             s' = CloseForgotten([s EXCEPT !.streams = @ \ {f}], D, {})
    /\ UNCHANGED <<jit_next_id, cpu, torn>>

\* Timer trap with Ctrl-C pending while the job of the active window is on the
\* CPU: the job fails, the trap returns to os_jit_cancel_trampoline, which sleeps.
TrapCancel(win) ==
    \E i \in Slots :
        LET j == s.jobs[i] IN
        /\ TimerIrq
        /\ cpu \in JobTasks
        /\ j.state = RUNNING /\ j.owner = win /\ j.task = cpu
        /\ torn' = (torn \/ s.at[cpu].at \in {"kmalloc", "open"})
        /\ \E kept \in SUBSET Used(s) :
              SleepAs([Wake(WakeOtherWaiters(Cleanup(Fail(s, {i}, -2), {i}, kept), {i}, cpu),
                            WorkerOf(win))
                         EXCEPT !.at[cpu] = [Entry(i) EXCEPT !.at = "trampoline"]], cpu)
        /\ UNCHANGED jit_next_id

JobStep(t) ==
    \/ Execute(t) \/ InvalidMain(t) \/ MainReturns(t) \/ JitYield(t)
    \/ Kmalloc(t) \/ TrackKptr(t) \/ Kfree(t)
    \/ Open(t) \/ TrackFd(t) \/ Close(t) \/ LibcOpen(t) \/ LibcClose(t)

Command(win) ==
    \/ \E bg \in BOOLEAN : CompileError(win, bg)
    \/ RunForeground(win) \/ RunBackground(win) \/ RunDebug(win)
    \/ \E i \in Slots : Kill(win, i)
    \/ ShellCtrlC(win)

Next ==
    \/ Dispatch
    \/ Rest
    \/ \E win \in Windows : Poke(win) \/ GuiCtrlC(win) \/ Command(win) \/ TrapCancel(win)
    \/ \E t \in Workers : WaitLoop(t)
    \/ \E t \in JobTasks : JobStep(t)

Spec == Init /\ [][Next]_vars

-----------------------------------------------------------------------------
(* Properties.                                                              *)

Live == {READY, RUNNING}

\* A worker asleep in os_jit_run for a job that is still in its slot sleeps
\* beside a live job whose task is scheduled: no way of ending a job (main
\* returning, kill, Ctrl-C, the timer trap) forgets to wake the waiter.  Once
\* the slot has been given to another job the wait loop looks at that one.
WaiterOfLiveJob ==
    \A t \in Workers :
        LET a == s.at[t]
            j == s.jobs[a.slot]
        IN  a.at = "wait" /\ t \notin s.runnable /\ j.id = a.id
               => j.state \in Live /\ j.task \in s.runnable /\ j.waiter = t

\* A scheduled task inside main runs the code of the job it was started for:
\* the job is RUNNING in its slot, under the same id, and its text has not
\* been deleted by a kill, a cancel, or a reuse of the slot.
RunsOwnCode ==
    \A t \in JobTasks \cap s.runnable :
        s.at[t].at \in {"main", "kmalloc", "open"} =>
            LET j == s.jobs[SlotOf(t)]
            IN  j.state = RUNNING /\ j.code /\ j.id = s.at[t].id /\ j.task = t

\* Whatever a program got from jit_kmalloc or jit_appfs_open is listed by its live
\* job, or in the hands of the kernel call that is about to list it, until it is
\* freed or its close has been tried; a job that has ended lists nothing.  Only a
\* timer trap that cut such a call short leaves something behind.  (What goes past
\* the job's tables, and a descriptor whose close failed, are s.loose and
\* s.streams: nothing gives those back when the job ends.)
TrackedNotLost ==
    LET held  == UNION { s.jobs[i].kptrs : i \in Slots }
        open  == UNION { s.jobs[i].fds : i \in Slots }
        inHand(where) == { s.at[t].got : t \in { u \in JobTasks : s.at[u].at = where } }
    IN  /\ \A i \in Slots : s.jobs[i].state \notin Live =>
               s.jobs[i].kptrs = {} /\ s.jobs[i].fds = {} /\ ~s.jobs[i].code
        /\ torn \/ (s.heap = held \cup inHand("kmalloc") /\ s.files \subseteq open \cup inHand("open"))

\* A slot has one task for as long as the system runs, and no two slots share
\* one: task_create, which panics when the table is full, is called at most
\* once per slot however many jobs are started, fail or are killed.
OneTaskPerSlot ==
    /\ TaskTop(s) <= TERMINAL_WORKERS + JIT_MAX_JOBS
    /\ \A i, k \in Slots : i # k /\ s.jobs[i].task >= 0 => s.jobs[i].task # s.jobs[k].task

=============================================================================
