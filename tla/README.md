# vibeos: specifications, model checking and proofs

This directory is the verification project of vibeos, the small RISC-V operating
system under `src/vibeos/`. It holds TLA+ modules translated from the C source,
TLC configurations that check them on small instances, and proofs checked by
TLAPS for every value of the constants. `PROJECT.json` maps every definition to
the lines it stands for and lists runs, seeded faults, hazards and theorems.

## 1. The system

vibeos is built in two profiles. The QEMU profile enables machine interrupts:
the timer trap sets `need_resched`, the PLIC handlers acknowledge devices and may
wake tasks, and the file system lives in a disk image that survives a reboot. The
FPGA profile (`FPGA_MINIMAL`) runs on a RISC-V core in a Zynq: it uses
"cooperative polling and does not enable machine IRQs" (`os.c:202`) and keeps
the file system in a RAM disk. In both, a task gives up the CPU only by calling
`task_os` or `task_sleep`.

| Component (files) | State | Operations | What makes it correct |
|---|---|---|---|
| Task scheduler (`task.c`, loop in `os.c`) | run list and cursor per level, flags and level per task, served level and quota, current task | create, reset, run, sleep, wake, yield, next, go | lists and task table agree; no turn and no round lost; one runnable task on the CPU; no starvation |
| Kernel heap (`alloc.c`) | page bitmap, block headers | malloc, free, page_init | blocks never overlap; first fit; no 32-bit wrap; DMA pages untouched |
| File system (`fs.c`, mkdir/rm/mv/format in `user_cmd.c`, `user_fs_shell.c`) | directory blocks and data chains on disk; block map and hint in RAM | store, load, remove, mkdir, move, format, rebuild | a file is old or new, never torn; a live block is never reused; the rebuild finds exactly the live blocks |
| JIT jobs (`runtime/jit/tcc_glue.c`) | job slots, job tasks, waiters, tracked blocks and descriptors | run, run in the background, kill, Ctrl-C, kernel calls of a program | the waiter wakes when the job is over; no task runs freed code; what is listed is given back |
| JIT debugger (`jit_debugger.c`, ebreak half of `trap.c`) | one session, two temporary breakpoints, breakpoint lines | debug, c, ni, si, break, trap, pause | si is one instruction; nothing is skipped; a paused program can go on |
| JIT build (`tcc_glue.c`, line map of `trap.c`) | include stack, text, scanner state, line table | expand, number, instrument, run the line program | every line once and under its number; loops can be cancelled; no wrong line shown |
| wget, network task (`apps/net/wget`, `user.c`) | one job record, one save record, connections | queue, kick, DNS and TCP callbacks, timeouts, save steps | bodies are not mixed; "Downloaded." means saved; waits with a limit end |
| Browser (`apps/netsurf/netsurf.c`) | document, image, map id, queue of actions | navigate, act, feed, complete | an action goes to the page the user saw |
| SSH and SFTP (`apps/ssh/ssh_client.c`, cp and mv in `user_cmd.c`) | transport buffer, session and handles, mount root | probe, exec, ls, get, cat, put, cp, mv | stream in order; everything released that libssh2 can free; no file lost; timed waits end |
| Keyboard and mouse (`virtio_input.c`) | port, device, endpoint, event ring, modifiers, key queue | poll, enumerate, decode, submit, pull | keys in order; nothing held without a finger; a plugged device works |
| Terminals and windows (`user_terminal.c`, `user_gui.c`, `user.c`) | window table, stacking order, mailbox and command state per window, worker tasks | key, click, shortcut, worker round, command, application start and exit | the active window is on top; keys are handled; a terminal is released |
| Application files (`appfs_*` in `fs.c`) | 16 descriptors with buffer, position, saved directory | open, read, write, close, unlink | commit on close; a descriptor is free again after it |
| Traps, PLIC, timer (`trap.c`, `plic.c`, `timer.c`, `sys.s`) | pending flags, `need_resched`, millisecond counter | interrupt handlers, Ctrl-C cancel | no lost or duplicated wake-up |
| Network, disk, audio, SD drivers | descriptor rings or one request at a time | register sequences | a descriptor has one owner |
| Application loader and system calls (`app_runtime.c`, `trap.c`) | one running application | start, exit, kill | resources returned |
| FPGA design (`src/project_2`, `src/top.v`) | RTL registers | - | outside C |

Interactions: every component runs inside a task and calls the scheduler; the
commands and the network task call the file system directly (no file-system call
yields, so calls do not interleave, but `fs_tmp_window` is shared between calls
that belong together); everything dynamic comes from the heap; in the QEMU
profile interrupt handlers call `task_wake`.

The poll task and `gui_task` drive the input code; `gui_task` hands keys to the
terminal workers through the mailboxes; a worker runs a command and may start a
JIT job, a download, an SSH session or an application; `network_task` and the SSH
pump poll the network card, and the callbacks of lwIP run inside that poll.

What is hard here: state cached between calls (the served level, the block hint,
`fs_tmp_window`), removal from a list under a cursor, 32-bit arithmetic at the top
of its range, a reboot between two writes of one call; tasks that are reset while
they are anywhere inside their code; callbacks that belong to an earlier request;
servers that close, reset or stay silent at any point; devices that are unplugged
between two polls; two tasks that take keys from the same mailbox. `PROJECT.json`
lists each hazard at its line with the properties that cover it, or the reason
none does.

## 2. Modules

| Module | Role |
|---|---|
| `Scheduler` | `task.c` and the OS loop, FPGA profile |
| `TaskPool` | what the scheduler promises: one runnable task holds the CPU |
| `PageAlloc` | `alloc.c` |
| `FileSystem` | `fs.c` with mkdir, mv, rm, format; reboots |
| `JitJobs` | job table of `tcc_glue.c` on a pool of tasks |
| `JitDebug` | breakpoints, stepping and pausing |
| `JitSource`, `LoopPolls`, `LineTable`, composed by `JitBuild` | from a file to a program that can be cancelled and debugged |
| `Wget`, extended by `Browser`, composed by `Fetch` | the one download job, the browser's fetch control, and network_task with terminals |
| `SshTransport`, extended by `SshClient` | the receive buffer; commands, sessions, transfers |
| `KeyQueue`, extended by `UsbHid` and by `Desktop` | keys on their way to gui_task; the USB side; the window side |
| `MC*` | constants for TLC, one per run |
| `SchedulerProofs`, `PageAllocProofs`, `FileSystemProofs`, `JitJobsProofs`, `JitToolsProofs`, `SshClientProofs`, `InputProofs`, `FetchProofs` | the proofs: `JitToolsProofs` is about `JitDebug` and `JitBuild`, `InputProofs` about `UsbHid` and `Desktop` |

Some definitions are seeded faults (`Bad...`, `TrackKptrKeeps`, `SubmitJumps` and
so on, listed under "mutants" in `PROJECT.json`): each is a plausible mistake in
the function it stands next to, and replacing that function by it makes TLC
report the property named there.

### Scheduler

`q` is `task_levels[]` with `task_meta[]` as one record: `q.tasks[l]` (a function
on `0..running-1`), `q.running`, `q.now`, `q.flags`, `q.level`. The other
variables have the names of `task.c`; `pc`, `picked` are the position and the
local of the OS loop, `panic` the message of a panic. The static helpers
`task_add`, `task_remove`, `task_switchsub` are operators on the record, and each
exported function is one action: `Create`, `Reset`, `Run`, `Sleep`, `Wake`,
`Yield` by the current task; `TaskNext`, `Idle`, `TaskGo` by the loop;
`BootCreate` and `EnterLoop` at boot. Each is atomic because machine interrupts
are off in this profile. Left out: priorities (stored, never read), saved
registers (a created task always has a program counter and a stack, so the tests
of `ra` and `sp` never fail), and range checks that only corrupted memory fails.

### PageAlloc

`used` is the bitmap, `hdr` the header at each page start (a header without the
magic word is `npages = 0`), `live` a history variable: the block a caller
really owns. `Malloc`, `MallocRejected`, then one step per iteration of the search
(`SearchSkip`, `SearchFound`, `SearchFail`); `Free`, `FreeIgnored` for every
page, so that double frees and frees of pages in the middle of a block happen.
Arithmetic on sizes is modulo `WORD`. Assumed: a caller's data does not imitate
the magic word at a page start, and `free` gets pointers a header distance
after a page start (`alloc.c:332` rejects the others).

### FileSystem

`disk` is an array of blocks (zeroed, directory or data), `used`,
`next_free_block` and `fs_alloc_ready` the RAM state, `op` the call in progress
with its locals, `scan` the pending recursive calls of the rebuild. One action is
what a call does up to one disk write; `Crash` may come after each of them and
clears the RAM. `store_file_bytes` is `StoreBegin`, then `StoreAlloc`,
`StoreWrite`, `StoreLink` per block, `StoreCommit` and `FreeStep`; `mkdir` is
`MkdirBegin` (both variants: the command ignores balloc's failure,
`local_mkdir_path` does not), `MkdirEntry`, `MkdirBlock`; `mv` is `Move`,
`MoveDst`, `MoveParent`; `rm` and `unlink` are `Remove`. A call that fails before
it writes changes nothing and is not shown. A leaf name of 20 and more characters is a
member of `LongNames`: the path parsers refuse it (`fs.c:125`), so only a store that is
given a bare name sees one, searches for it in full and writes what `copy_name20` keeps
(`Short`). An entry carries, besides the
fields on disk, the content `val` that was stored, to compare with.

Outside what the properties promise:
- a working directory (window, application, descriptor) that has been removed or
  formatted away: paths are resolved inside the tree;
- a reboot between the two writes of `mkdir`: modelled, but the entry then names
  a block that the rebuild does not mark, so TreeMarked, FileIntact, OneOwner and
  RebuildExact are stated for behaviours without it (`torn`). RebuildExact too: once a
  block has two owners, a chain may run through a directory, and `fs_scan_dir` returns
  at a directory that a chain has marked (this takes more calls than the run allows);
- the names `copy_name20` cuts (`Cut`): a store of a longer name does not find the entry
  it made before and makes another one of the same name, so OneOwner excepts
  these names from being distinct, and from nothing else;
- directories deeper than 32 (`fs_scan_dir`'s limit; nothing stops `mkdir` there). No
  tree of the runs is that deep; the theorems have the hypothesis `Shallow`: without a
  torn mkdir, no path of `SCAN_DEPTH + 1` names leads to a directory.

### JitJobs

`s` is `jit_jobs[]` (state, id, owner, task, waiter, whether the text exists, tracked
blocks and descriptors) with the run pool of `TaskPool`, the place of every task, the
heap blocks and the open files. `loose` holds the descriptors in use that no job lists:
those a program got from `open` or `fopen`, which the compiler is given unwrapped
(`tcc_glue.c:1808`), and those whose commit failed in `appfs_close_fd` (`fs.c:781`),
which keeps the descriptor while the caller forgets it. `streams` are the blocks `fopen`
allocates with their descriptor. `Cleanup`, `Close` and `LibcClose` choose which commits
fail. A step is the code between two scheduling points of one task; the program's kernel
calls are cut where a timer trap can fall (between `malloc` and `jit_track_kptr`,
`appfs_open` and `jit_track_fd`). `TimerIrq` switches the QEMU profile's timer trap on.
`Kill`, `ShellCtrlC`, `GuiCtrlC`, `RunDebug` (a debug run cancels the window's own job)
and `TrapCancel` are the ways a job is ended from outside; `torn` records a trap that
cut a kernel call short (in an allocation or an open; a trap inside the two halves of
`jit_kfree` or of a close is not told apart). Once a slot has been given to another job,
a waiter that has not run yet looks at the new one, as the loop of `tcc_glue.c:2704`
does.

### JitDebug

One program of instructions that the debugger tells apart (plain, jump, branch,
call inside and outside the text, return, exit, probe, its own ebreak), the text's
patched words, `temp` (`jit_debug_temp_breaks`), `last` (`jit_debug_last`) and the
breakpoint lines. `Execute` runs what is really in memory, `TrapEbreak` and
`ProbeHit` are the traps, the commands are `StartDebug`, `Continue`, `StepLine`,
`StepInstruction` or `StepRefused`, `AddBreakpoint`. `dropped` and `displaced`
record that a debug run of another window reset the session (`trap.c:1442`), which
the properties excuse because `jit_debug_begin` does forget its breaks.

### JitSource, LoopPolls, LineTable, JitBuild

The recursion of `jit_expand_source_recursive` is a stack of frames; lines are the
kinds the scanner tells apart, and the compiler's own line counter is kept so that
a `#line` in the wrong place shows. `LoopPolls` is the scanner of
`jit_instrument_loops` on tokens. `LineTable` runs the rows of a line program into
the bounded table and looks addresses up in it. `PollsInLoops` and `LineNeverWrong`
compare with references (`LoopBody`, `LineOf`) that say what should be computed
without the scanner's state.

### Wget, Browser, Fetch

The state of the client is a record `n` (job, save, connections, lookups under
way, browser) and the functions of `user_wget.c` and `netsurf.c` are operators on
it; `Fetch` holds the record in variables. An action is one round of
`network_task` with its early decisions in order (cancel, kick, timeout, receive,
save, report), one command, or one input event. A body is a sequence of the
connections its units came from, so mixing shows. A save step may find the disk full:
`balloc`'s 0 is then taken for a block, as in the code, and `full` records it. `Navigate` is
`ns_start_document_navigation`, which drops the queued actions; `SubmitOrRefresh` is
`ns_follow_submit` and `netsurf_refresh_current_view`, which keep them; `Render` is the
pump in `netsurf_render_frame`. Connections of an older job stay
open with their callbacks, DNS answers arrive late and for the wrong job. History
fields excuse what the code does not protect against: `orphans` (a connection or a
lookup of an earlier job was alive when this one was queued), `clash` (a request
queued during a save), `disturbed` (another task resolved a path through
`fs_tmp_window` during a save), `upset` (a page was overtaken or failed, or
brought no map while actions waited), `full` (the disk had no room for a block of the save).

### SshTransport, SshClient

`t` is `struct ssh_transport`; bytes are numbered in the order the server sends
them. A command is a script: which call follows which on success and on failure,
what it acquires and releases (`SftpLs`, `SftpGet`, ... are the functions of
`ssh_client.c`). libssh2 is external: a call that has a message may succeed or
fail, one that has none answers EAGAIN. `libssh2_channel_free` and `libssh2_session_free` close
the channel first and free nothing as long as that answers EAGAIN (`channel.c:2837`,
`session.c:1026`); the failure exits call them once and ignore the answer, so on a silent
server the channel and its session stay allocated behind the transport that is
destroyed. `tries` of a script are these frees, `Left` what they leave, `lost` what has
been left behind so far. A session without a channel is always freed, and the result of the
disconnect does not matter to it. The server may send, stay silent, close
or reset at any time; `late` says that the time limit of the loop has passed.

### KeyQueue, UsbHid

`dev` is the device and the port (external: it answers on the address it was last
given, reports changes only, forgets everything when unplugged, and while it is
"flaky" a transfer may fail); `hid` is `usb_mouse`, `port` the counters of the poll,
`rep` the repeat, `point` the number pad pointer and the mouse button, `ring` the
event ring, `inp` the decoder's flags, `gui` the `KeyQueue`. `cut` records keys
whose release was lost to a full ring or with the device, `missed` a device that was
swapped before the driver noticed.

### Desktop

`desk` is `wins[]` with `z_order` and `active_win_idx`; a window has kind, mailbox,
typed line and the flags `executing_cmd`, `submit_locked`, `cancel_requested`.
`GuiTask` is one round of `gui_task` (keys, shortcuts, clicks, the fast path for
edit keys), `Worker(i)` one round of `terminal_worker_task`. A command may yield
and may take for ever; applications and JIT jobs are their effect on the
terminals.

## 3. Runs

| Run | Instance | Distinct states | Shows |
|---|---|---|---|
| `scheduler` | 4 tasks, 3 levels, quota 3, 3 boot tasks | 28 708 | queues, turns, refinement of `TaskPool`, service under fairness |
| `page_alloc` | 9 pages of 4 bytes, 6-bit word, every size | 408 515 | bitmap, first fit, wrap-around, DMA range |
| `file_system` | 6 blocks, 2 entries per directory, 4 calls (stores of a name too long for an entry included), 2 reboots | 724 374 | files, ownership, block map, rebuild |
| `file_system_move` | the same disk, 3 calls, no reboot | stops at the violation | finding 1 |
| `jit_jobs` | 2 windows, 2 workers, 2 slots, 3 jobs, 2 blocks, 1 descriptor, timer trap on | 2.3 million | waiters, tasks, memory, descriptors |
| `jit_debug` | 2 windows, one program of 13 instructions, 1 breakpoint | 1 249 411 | stepping, patches, pauses |
| `jit_build` | 3 881 file trees, 3 153 token programs, 4 rows, table of 3 | 125 thousand | text, polls, line table |
| `fetch` | 1 terminal, 1 browser window with a queue of 2, 2 requests after the page shown, 1 connection at a time | 618 thousand | bodies, saves, gate, end of a request |
| `ssh` | each of 11 commands, buffer of 2 bytes, server 3 ahead | 458 thousand | stream, clean-up, files, time limits |
| `usb` | keyboard or mouse, 3 key changes, 2 cable changes, rings of 2 and 3 | 306 433 | order of keys, held keys, enumeration |
| `desktop` | 3 windows, 2 workers, mailbox of 3, 2 keys and 1 event after lines typed at boot | 158 thousand | stacking, keys served, terminals released |
| `desktop_worker` | 2 windows, letters and Enter | stops at the violation | finding 2 |

- `scheduler`: `TypeOK`; `QueuesAgree` (flag, level and lists agree, nobody is listed
  twice); `NoLostRound` (every task_next with a runnable task ends with it on the CPU);
  `TurnKept` (removing or moving a task costs no other task its turn); `PoolSpec`;
  `RunnableServed`.
- `page_alloc`: `TypeOK`, `BitmapExact`, `BlockUsable` (a block holds the bytes asked
  for and none of the DMA pages), `FirstFit`.
- `file_system`: `TypeOK`, `TreeMarked` (no live block can be handed out), `FileIntact`
  (every file reads back what one store wrote), `OneOwner`, `HintExact`, `RebuildExact`
  (the scan of an untorn disk marks exactly the tree).
- `jit_jobs`: `WaiterOfLiveJob` (nobody sleeps behind a job that is over), `RunsOwnCode`
  (a scheduled task inside main runs a live text, its own), `TrackedNotLost`
  (what `jit_kmalloc` and `jit_appfs_open` gave out is listed or in hand until it is
  freed or its close was tried; a job that is over lists nothing), `OneTaskPerSlot`
  (task_create is called once per slot).
- `jit_debug`: `NothingSkipped` (no ebreak in the text is taken for a probe),
  `OneInstruction` (with one instruction executed the program stands on a break,
  whichever way a branch or a call went), `PausedJobReachable` (c, ni and si find the
  paused program).
- `jit_build`: `TextComplete`, `PollsInLoops`, `LineNeverWrong`.
- `fetch`: `BodyWhole`, `DownloadedMeansSaved` (if the disk had room),
  `ActionsGated` (queued actions wait for the page), `AddressRequestEnds` (a request with
  an address ends or has reached a server).
- `ssh`: `StreamInOrder`, `NothingHeld`, `FileNeverLost`, `TimedCallsEnd`.
- `usb`: `KeysInOrder`, `HeldIsReal`, `PluggedWorks`.
- `desktop`: `ActiveOnTop`, `KeysServed`, `TerminalReleased`.

Bounds. Four tasks on three levels give removals before, at and after the cursor,
an emptied served level, and a full table. Levels -1 and `MAX_TASKLEVELS` exercise
both clamps of `task_run`. The heap has one bitmap page, a reserved range that
starts and ends inside a page, and room for several blocks; a 6-bit word makes
header and rounding wrap. Four allocatable blocks hold a two-block file together
with its replacement, and become full; four calls are enough to build, move,
remove and rebuild; two reboots allow one during a call and one during or
after the rebuild. Sizes 0 and 2 are the empty file and a chain with a link.
`SCAN_DEPTH` and `CLIMB_GUARD` exceed the depth of any tree that fits.

Two slots and three jobs let a slot be used again while the other one is busy; two
blocks, one per job, fill both tables; the one descriptor may be a tracked one, one from
`open` or `fopen`, or one whose commit failed. The debugged program has every kind of
instruction, a loop, a call and a branch to itself. The file trees hold every main file
of two lines and every header of up to two, so an include can be repeated, cyclic,
inside a comment and automatic; the size limit is reached. Two requests after the first
page make a job meet the connection and the lookup of the one before it. A receive
buffer of 2 with a server 3 bytes ahead overflows. Rings of 2 and 3 overflow with 3 key
changes; 2 cable changes unplug and replug, or bounce. Three windows on two workers make
one worker serve two windows; every window may start with a typed line, so that two key
presses are enough to start two commands.

Fairness. `scheduler`: weak fairness of the boot steps and the loop, which never stop,
and of the current task giving up the CPU: the task bodies of `user.c`, `user_gui.c`,
`user_terminal.c` and `virtio_input.c` end every round with `task_os` or
`task_sleep_current`. `RunnableServed` is stated for behaviours in which the
queue-changing calls stop, because each of them resets the quota to the lowest level:
level-0 tasks that keep waking each other can starve level 1. `fetch`: weak fairness of
what `network_task` does of its own accord (`OwnRound`) and of time, strong fairness of
its kick, as the task is woken again and again. A round serves the card before it saves,
so this assumes that frames do not come without end. No server, resolver or lwIP timer
is relied on: `Receive` and `Timers` have no fairness. `ssh`: weak fairness of the
worker and of time; none of the server. `usb`: weak fairness of the poll, the decoder,
`gui_task` and time; none of the user. `desktop`: strong fairness of `gui_task` and of
each worker, which is what `RunnableServed` of the scheduler gives a runnable task that
shares the CPU; no command, job or application need end.

Deadlock is checked in every run but these: in `fetch` and `ssh` the bounded supply of
requests or commands ends, in `jit_build` the build is over.

### Findings

1. `file_system_move`: `mv a a/b`, with `a` a directory, is answered with
   ">> Moved." (`user_cmd.c:1513`) and loses `a` with everything in it.
   `move_entry_named` tests for a destination below the source only if the
   destination is an existing directory (`fs.c:361-363`).
2. `desktop_worker`: `project_2/USB_MOUSE_HDMI_SOP.md:528` says that Enter and command
   execution "still use the worker". `gui_task` decides by the key it has just
   pushed (`user_gui.c:1152`), but `handle_window_mailbox` takes the oldest key of the
   mailbox: with an Enter in front, a letter makes `gui_task` run the command.

Other behaviours met while modelling; the properties are stated around them:
- A file written under a bare name of 20 or more characters is reported as written
  (`user_cmd.c:1542`), but its entry holds 19 of them (`fs.c:510`) while every search
  compares all (`fs.c:436`): it is not found under that name, and a second write makes a
  second entry instead of an update. `OneOwner` excepts the names that are cut.
- `wget_save_step` takes `balloc`'s 0 for a block (`user_wget.c:618`, `646`; `fs.c:204`). On
  a full disk the data go to block 0, the file's chain ends in front of it, and
  ">> Downloaded." (`user.c:860`) is printed. `DownloadedMeansSaved` excepts such a save.
- A request by host name is kicked in every round of `network_task` until the DNS answer
  is there, and such a round neither polls the card nor looks at the timeout
  (`user.c:794-799`): the "DNS TIMEOUT" after 5 s (`user_wget.c:517-521`) never happens. The
  answer is read when another task polls; otherwise lwIP's own timer gives up. Ctrl-C
  reports INTERRUPTED but leaves `request_pending`, so the kicks go on.
  `AddressRequestEnds` is about known addresses and about requests that are over.
- Once a connection stands, `wget_timeout_step` has no limit (`user_wget.c:526` is for
  CONNECT only): a server that stays silent keeps the request in RECV until Ctrl-C, and
  `AddressRequestEnds` ends there.
- A submit or a refresh of the view keeps the queued actions and the wait for a map
  (`netsurf.c:1030-1083`), so they go to the new page; when no request can be queued for
  it, or it brings no map, `ActionsGated` excuses what follows (`upset`).
- A program's own `open` and `fopen`, and a close whose commit fails, use up entries of
  the 16 descriptors that nothing gives back when the job is over.
- A failed or timed-out SSH operation on a server that does not answer the close leaves a
  libssh2 channel and its session allocated (`ssh_client.c:1121`, `1218`, `1230`, `1248`).
- A download with an empty body gets no directory entry (`user_wget.c:657`); the
  property speaks of bodies that are not empty.
- Some SSH loops have no time limit (`ssh_client.c:1151`, `1238`, `1586`).
- `mv` of a file on the SFTP mount to itself, and a mount changed by another window
  during a command, can lose a file (`upset`).
- A device swapped before `USB_NO_CONNECT_STABLE_POLLS` polls have passed is not
  enumerated again (`missed`).

## 4. Proofs

All for every value of the constants that satisfies the named `ASSUME`s, which
TLC evaluates in the runs above.

*SchedulerProofs.* The inductive invariant `IInv` is the type invariant, the four
facts about the queues (`QueueOK`: entries are owned by their level, distinct,
every running task is listed, cursors in range), `ServedLevelLive`, the absence
of the overflow panic, and what the loop's position says about the current
task and the picked one. `QueueOK` is a predicate on a queue record, so each
helper of `task.c` gets one lemma (`AddOK`, `RemoveOK`, `RelevelOK`,
`FreshMetaOK`, `ServeOK`). `RoomForSleeper` is the counting argument behind the
unreachable panic: a list of distinct tasks none of which is `t` is shorter than
`MAX_TASKS`. Results: `TypeCorrect`, `QueuesAlwaysAgree`,
`RunQueueNeverOverflows`, `ServedLevelAlwaysLive`, `EveryRoundServes`,
`TurnsAreKept`, `ImplementsPool`.

`TurnKept` (theorem `TurnsAreKept`) is about a step. `SameTurn` compares two queue
records: on every level the task under the cursor is the same, unless it is the one the
call is about. Each helper of `task.c` has the property, and it is transitive, so the
calls made of several helpers have it too.

*PageAllocProofs.* `IInv` adds to `TypeOK` and `BitmapExact` that headers are
exact (a page has a magic word exactly when it starts a live block of that
length, which is why a second free is harmless) and that no page below malloc's
loop variable starts a long enough free run (which makes the skip sound).
`BlocksAreUsable` needs one more fact, `Roomy`: the page count computed modulo
`WORD` is large enough for the request and its header whenever the request was
not refused (division with remainder, and the assumption that the whole heap
fits in a word). Results: `TypeCorrect`, `BitmapAlwaysExact`, `BlocksAreUsable`,
`MallocIsFirstFit`.

*FileSystemProofs.* `Inv` is `TypeOK` with `HintExact`; they need each other, as
the type of the hint depends on the type of the block taken. One lemma per
action. Results: `TypeCorrect`, `HintNeverHides`.

*FileSystemProofs, the tree.* What a path reaches is a recursion over the depth of the
tree and the length of chains, and no step of a call says anything about it directly.
The invariant `TreeInv` therefore speaks of a set `T` of directories and two functions
on blocks that exist in every state: `h`, who holds a block (an entry `<<d, i>>`, the
call in progress, or nobody), and `p`, its place in a chain. `Layout` is local: every
entry in `T` names a block it holds, a held data block has the content of its place and
points to the block with the next place (the last one to 0), names differ within a
directory unless cut. `CallOk` says what the call in progress has in hand: the chain
`store_file_bytes` builds, the old chain `fs_free_chain` walks, the block `mkdir` has
not written yet, the entry `mv` carries. `Marked` says that the map in use marks every
held block. `Scanning` says of the rebuild that whatever an entry of a marked directory
or the link of a marked file block leads to is marked or waits in the pending calls, so
nothing is missing when none is left. Then each disk write is one of few changes of the
layout (`EntryOut`, `EntryIn`, `Renamed`, `NewDir`, `Remarked`, `DiskFrame`, `Fewer`),
each proved once, and each action is a chain of them. The recursive functions (`DirsAt`,
`Dirs`, `ChainWithin`, `LoadFileBytes`, `NamedEntries`) are shown to satisfy their
equations and connected with `T`, `h` and `p` by a least-counterexample argument.
`RebuildIsExact` needs in addition `OnlyTree`: a running scan marks and awaits nothing
outside the tree. Hypotheses: `[]Shallow` (see section 2), and `NamesAssumption`: the
empty name is not a leaf, since the callers refuse it (`user_cmd.c:1364`,
`user_fs_shell.c:379`, `fs.c:309`, `fs.c:821`) and an empty name marks a free slot. TLC
finds `Shallow` true in every state of the `file_system` run. Results: `TreeInductive`,
`TreeAlwaysMarked`, `FilesStayIntact`, `BlocksHaveOneOwner`, `RebuildIsExact`.

*JitJobsProofs.* The code is a composition of functions on the job table, so the
invariant `Good` is a predicate on a table, the next id, the task on the CPU and
`torn`: tasks and slots point at each other, only a worker waits and only for a
slot whose waiter it is, a task inside main belongs to a running job with text,
tracked, loose and streamed blocks and descriptors are disjoint and in use. Each operator
(`AllocJob`, `StartTask`, `StopTasks`, `KillSlot`, `Cleanup`, ...) gets a lemma, an action is
the chain of its operators. Results: `WaitersAreWoken`, `JobsRunTheirCode`,
`TrackedIsNotLost`, `TasksAreBounded`, with and without the timer trap.

*JitToolsProofs, the debugger.* `OnRecord` (every ebreak the debugger wrote has a record
or had one that `jit_debug_begin` forgot), `Displacement` (records are forgotten only by
a debug run of another window), `SessionTrue` (the session holds the registers of the
paused program) and `StepAimed` (between si and its trap, the breaks are where the step
leads). `CodeAssumption` says that branches, jumps and calls inside the text lead into
the text. Results: `PausedIsReachable`, `StepsOneInstruction`, `NeverSkips`, for every
program.

*JitToolsProofs, the build.* Each stage's working state is given a meaning. `PollInv`: the
scanner's state is what stands before the next token (after a loop word, inside a
header at this depth, after a header, after do), and the polls so far are those of
the loop bodies so far. `LineInv`: every entry of the table is the span of a row or
a probe inside one, and the open row is behind all of them. `SourceInv`: the stack of
files divides the lines of the files seen into those that are in the text, in order,
and those that are still to come, and the compiler's line counter is right at
every point where a line can follow. Results: `PollsAreInLoops`, `LinesAreRight`,
`TextIsComplete`. The assumptions only give the inputs their types
(`ProgramsAssumption`, `LineAssumption`, `SourceAssumption`).

*SshClientProofs.* `HoldInv`: what is held is a function of the call the worker is in
(`HeldIn`), but for a channel that could not be closed, which may stay beside it on the
way to the end and then keeps its session (`Holding`). It rests on `ScriptOk`: in every
script, every way out of a call, on success and on failure, acquires and gives back
exactly the difference, and the transport is dropped exactly on the way to the end.
`StreamInv`: without an error the buffer behind `rx_start` is exactly what the server
has sent and libssh2 has not got. `FileInv` lists, for each operation, what it knows of
the copies: a result of 0 means that the copy it was to make is whole; put and write
truncate their target while the source is whole; unlink runs only while the other copy
is. It is stated for behaviours that are not `upset`. `CommandsAssumption` says that the
commands given are among those of the model. Results: `NothingStaysHeld`,
`BytesAreInOrder`, `FileIsNeverLost`.

*InputProofs, the keyboard.* `HidInv` is `HidShapes` (the shapes of the records),
`MousePolled`, `Queued` (the key ring is within its size) and the two properties. The
decoder's belief about the keys lags behind the last report by what still stands in the
event ring, so the property speaks of the belief after the rest of the ring.
`MousePolled` is needed because a mouse's reports go into the same ring: they hold no
key of the keyboard. Statements about a whole ring are proved by a least counterexample
(`LeastNat`), as induction over the data is out of the prover's reach. Results:
`KeysArriveInOrder`, `HeldKeysAreReal`.

*InputProofs, the windows.* `DeskInv` is `Laid` (shapes, and `z_order` holds every window
once), `Foremost` (the window that gets the keys is shown, and nothing shown lies above
it) and `Placed` (where the tasks, the application and the next click are). Each function
of the window manager gets a lemma; in the middle of a click the active window may be
closed already, which is `InFront`. Result: `KeysGoToTheTop`.

*FetchProofs.* The record `n` is shared by the client, the browser and the network task,
so the invariant `NetInv` is a predicate on a record and each operator has one lemma.
`Numbered`: connections get increasing numbers, and the number of one that has delivered
nothing is unknown to the browser, so a map it brings is new to every action. `Gate`:
unless the browser is `upset`, a request of the browser under way keeps the gate for
actions shut. `Whole`: for a job without `orphans` the job's own connection is the only
one, and the body is the units it has sent, in order; between counting a unit and
storing it the record is in a state of its own (`Half`). `Stored` follows the save: what
has been written is the beginning of the body, and a block stays back until its
successor is known, as long as the disk had room (`full`). The relation `Keeps` says
that an operator leaves a finished body alone or queues another job, of which a save
under way then knows (`clash`). The only assumption is that the browser is not a
terminal. Results: `BodiesAreWhole`, `ActionsWaitForTheirPage`, `DownloadsAreSaved`.

The properties themselves are checked by TLC on the instance of each component's run.
Of the strengthenings, TLC evaluated those of the SSH client (`HoldInv`, `StreamInv`'s
shape, `FileInv`), of the source copy (`SourceInv`), of the keyboard and the windows
(`HidInv`, `DeskInv`) and of the fetch (every part of `Inv`) before they were proved; the
others rest on their proofs, some of them quantifying over sets TLC cannot enumerate.

Every invariant and every safety property of the passing runs is thus a theorem. Only
model-checked are the liveness properties, which need fairness and `ENABLED`, out of the
prover's reach: `RunnableServed`, `AddressRequestEnds`, `TimedCallsEnd`, `PluggedWorks`,
`KeysServed`, `TerminalReleased`.

## 5. Plan

An abstract name space (a map from paths to contents) that `FileSystem` implements
between reboots.

## 6. Not modelled

- The QEMU profile's interrupts between two instructions of `task.c` (the code masks
  nothing there and claims no protection), and the virtio rings behind them.
- The contents of the application descriptors (`appfs_*`): buffers and positions.
- The loader's ELF handling and the system call table; NTP; timer arithmetic.
- `waiting_wget` of a browser window and closing that window; the UART keys of a round of
  `gui_task` beyond the first (up to 128 are taken); a source file without a newline at its
  end; a mouse whose reports are long enough to be parsed as a keyboard's (the device's
  kind decides in `UsbHid`).
- Drawing, fonts, text layout, line editing, parsing of commands, the applications'
  rendering and emulation: no state that another component depends on.
- The register sequences of the drivers (disk, audio, SD, Ethernet, USB host
  controller), assembly, RTL, build scripts and vendored libraries.
