------------------------------ MODULE JitDebug ------------------------------
(***************************************************************************)
(* The JIT debugger: the breakpoint half of trap.c, the probes and the     *)
(* pause trampoline of tcc_glue.c, and the commands of jit_debugger.c.     *)
(* Profile FPGA_MINIMAL: one job slot, so one debugged program, but any    *)
(* window may start a debug run and every window shares jit_debug_last and *)
(* the two temporary breakpoints.                                          *)
(*                                                                         *)
(* The program is a list of instructions at addresses 1..Len(Code), each a *)
(* record [op, to].  What the debugger tells apart:                        *)
(*   plain   no transfer of control     probe  a call of debug_probe(line) *)
(*   jump    to `to'                    call   jal/jalr rd#0 inside text   *)
(*   branch  to `to' or next            ext    jal/jalr rd#0 outside text  *)
(*   ret     to ra                      exit   jr out of main              *)
(*   ebreak  an ebreak of the program's own                                *)
(* A stub that only jumps to the kernel counts as `ext' (single_step_pc    *)
(* resolves it), a compressed instruction as its 32-bit form.  A register  *)
(* that branches test is `flag', any instruction may change it.            *)
(*                                                                         *)
(* Left out: disassembly and snapshot text, watch ranges, the line table,  *)
(* the fault path (panic).  A text is freed when its job ends; the next    *)
(* one is taken to lie at the same addresses, the case in which stale      *)
(* addresses do harm.                                                      *)
(***************************************************************************)
EXTENDS Integers, Sequences, FiniteSets

CONSTANTS
    Windows,        \* debugger windows
    Code,           \* the debugged program
    MaxBreaks       \* bound: breakpoints set (the table has 64)

Ops == {"plain", "probe", "jump", "branch", "call", "ext", "ret", "exit", "ebreak"}

ASSUME CodeAssumption ==
    /\ Code \in Seq([op : Ops, to : Nat])
    /\ \A a \in 1 .. Len(Code) :
          Code[a].op \in {"jump", "branch", "call"} => Code[a].to \in 1 .. Len(Code)

VARIABLES
    job,        \* the slot: its state, owner window and registers
    patched,    \* addresses of the live text that hold an ebreak put there
    temp,       \* jit_debug_temp_breaks: active records [addr, orig]
    last,       \* jit_debug_last: valid, paused, task, epc, registers, step_once
    resume,     \* jit_debug_resume_pc
    bps,        \* jit_debug_breakpoints: lines (probe addresses stand for lines)
    dropped,    \* history: patches whose record jit_debug_begin threw away
    displaced,  \* history: a debug run of another window reset the session
    skipped,    \* history: an instruction of the program was jumped over
    si          \* history: "no", "armed" by si, "stopped"; instructions run since

debugVars == <<job, patched, temp, last, resume, bps, dropped, displaced, skipped, si>>

Addrs == 1 .. Len(Code)
Out   == 0                          \* an address outside the JIT text
Stepable(a) == a \in Addrs          \* jit_debug_addr_stepable

NoJob  == [st |-> "none", win |-> 0, debug |-> FALSE, pc |-> 0, ra |-> Out, flag |-> FALSE]
NoLast == [valid |-> FALSE, paused |-> FALSE, task |-> FALSE, epc |-> 0,
           ra |-> Out, flag |-> FALSE, step_once |-> FALSE]
NoStep == [st |-> "no", ran |-> 0]

LiveJob == job.st # "none"
BreakAddrs(tb) == { b.addr : b \in tb }

DebugInit ==
    /\ job = NoJob /\ patched = {} /\ temp = {} /\ last = NoLast
    /\ resume = 0 /\ bps = {} /\ dropped = {}
    /\ displaced = FALSE /\ skipped = FALSE /\ si = NoStep

-----------------------------------------------------------------------------
(* Temporary breakpoints.                                                   *)

\* what memory holds: the original instruction unless an ebreak covers it
Fetch(p, a) == IF a \in p THEN "ebreak" ELSE Code[a].op

\* jit_debug_restore_temp_breaks: every active record is written back.  A
\* record made over an ebreak writes an ebreak.
RestoreTempBreaks(p, tb) == p \ { b.addr : b \in { c \in tb : c.orig # "ebreak" } }

\* jit_debug_add_temp_break at each address of a set of at most two: the word
\* there is kept in the record
TempBreaksAt(p, as) == { [addr |-> a, orig |-> Fetch(p, a)] : a \in as \cap Addrs }

InstallOnlyNext(p, pc, r) ==
    LET op == Fetch(p, pc)
        to == Code[pc].to
    IN  CASE op \in {"jump", "call"} -> {to} \ {pc}
          [] op = "branch" -> IF to = pc /\ r.flag THEN {} ELSE {pc + 1} \cap Addrs
          [] op = "ret"    -> ({r.ra} \cap Addrs) \ {pc}
          [] op = "exit"   -> {}
          [] OTHER         -> {pc + 1} \cap Addrs

\* jit_debug_single_step_pc: a call out of the text, or to a stub that leads out
\* of it, is stepped over
SingleStepPc(pc) == IF Code[pc].op = "ext" THEN pc + 1 ELSE Code[pc].to

\* jit_debug_install_single_step_breaks: where si stops next, {} to refuse
\* (a self-loop, or a jump out of the text)
InstallSingleStep(p, pc, r) ==
    LET op == Fetch(p, pc)
        to == Code[pc].to
    IN  CASE op = "jump" -> {to} \ {pc}
          [] op \in {"call", "ext"} -> ({SingleStepPc(pc)} \cap Addrs) \ {pc}
          [] op = "branch" -> IF to = pc /\ r.flag THEN {} ELSE {to, pc + 1} \cap Addrs
          [] op = "ret"    -> ({r.ra} \cap Addrs) \ {pc}
          [] op = "exit"   -> {}
          [] OTHER         -> {pc + 1} \cap Addrs

-----------------------------------------------------------------------------
(* Starting and ending a job (see JitJobs for the job table).               *)

NewJob(win, debug) ==
    [st |-> "run", win |-> win, debug |-> debug, pc |-> 1, ra |-> Out, flag |-> FALSE]

\* jit_job_cleanup: patches are written back, then the text is freed
EndJob ==
    /\ job' = NoJob
    /\ patched' = {} /\ temp' = {} /\ dropped' = {}
    /\ displaced' = FALSE /\ si' = NoStep
    /\ UNCHANGED <<last, resume, bps, skipped>>

\* kill, Ctrl-C
Kill == LiveJob /\ EndJob

\* os_jit_run_bg_debug_file: cancel the window's own job, jit_debug_begin, and
\* a new job if the slot is free.  jit_debug_begin forgets the temporary breaks
\* without writing them back.
StartDebug(win) ==
    LET own  == LiveJob /\ job.win = win
        busy == LiveJob /\ ~own
    IN  /\ job' = IF busy THEN job ELSE NewJob(win, TRUE)
        /\ patched' = IF busy THEN patched ELSE {}
        /\ dropped' = IF busy THEN dropped \cup (patched \cap BreakAddrs(temp)) ELSE {}
        /\ displaced' = busy
        /\ si' = IF busy THEN si ELSE NoStep
        /\ temp' = {}
        /\ last' = [NoLast EXCEPT !.step_once = TRUE]
        /\ UNCHANGED <<resume, bps, skipped>>

\* os_jit_run, os_jit_run_bg: no probes in the text, the session is not reset
StartPlain(win) ==
    /\ ~LiveJob
    /\ job' = NewJob(win, FALSE)
    /\ UNCHANGED <<patched, temp, last, resume, bps, dropped, displaced, skipped, si>>

-----------------------------------------------------------------------------
(* The program runs.                                                        *)

\* a program resumed beyond the end of its text faults and does nothing more
Running == job.st = "run" /\ Stepable(job.pc)

Advance == si' = IF si.st = "armed" THEN [si EXCEPT !.ran = 1] ELSE si

\* one instruction that does not trap
GoTo(a) ==
    /\ \E f \in BOOLEAN :
          job' = [job EXCEPT !.pc = a, !.flag = f,
                             !.ra = IF Code[job.pc].op = "call" THEN job.pc + 1 ELSE @]
    /\ Advance
    /\ UNCHANGED <<patched, temp, last, resume, bps, dropped, displaced, skipped>>

\* jit_debug_probe: after ni at every probe, otherwise at a breakpoint
ProbeStops(a) == last.step_once \/ a \in bps

Execute ==
    /\ Running /\ Fetch(patched, job.pc) \notin {"ebreak", "exit"}
    /\ LET c == Code[job.pc] IN
       \/ c.op \in {"plain", "ext"} /\ GoTo(job.pc + 1)
       \/ c.op \in {"jump", "call"} /\ GoTo(c.to)
       \/ c.op = "branch" /\ GoTo(IF job.flag THEN c.to ELSE job.pc + 1)
       \/ c.op = "ret" /\ job.ra # Out /\ GoTo(job.ra)
       \/ c.op = "probe" /\ (~job.debug \/ ~ProbeStops(job.pc))
                         /\ GoTo(job.pc + 1)

MainReturns == Running /\ Fetch(patched, job.pc) = "exit" /\ EndJob

\* jit_debug_capture_break at pc and the pause trampoline; the registers are
\* those of the trap frame
Pause(pc, resumeAt, frame) ==
    /\ job' = [job EXCEPT !.st = "paused"]
    /\ last' = [last EXCEPT !.valid = TRUE, !.paused = TRUE, !.task = TRUE, !.epc = pc,
                            !.ra = frame.ra, !.flag = frame.flag]
    /\ resume' = resumeAt
    /\ si' = IF si.st = "armed" THEN [si EXCEPT !.st = "stopped"] ELSE si
    /\ UNCHANGED <<bps, dropped, displaced>>

\* debug_probe hits: step_once, or a breakpoint on its line.  The ebreak is in
\* debug_break, so the frame is the kernel's; the address shown is the probe's
\* return address.
ProbeHit ==
    /\ Running /\ job.debug /\ Fetch(patched, job.pc) = "probe"
    /\ ProbeStops(job.pc)
    /\ \E f \in BOOLEAN :
          /\ job' = [job EXCEPT !.st = "paused", !.flag = f]
          /\ last' = [last EXCEPT !.valid = TRUE, !.paused = TRUE, !.task = TRUE,
                                  !.epc = job.pc + 1, !.ra = Out, !.flag = f,
                                  !.step_once = FALSE]
    /\ resume' = job.pc + 1
    /\ si' = IF si.st = "armed" THEN [st |-> "stopped", ran |-> 1] ELSE si
    /\ UNCHANGED <<patched, temp, bps, dropped, displaced, skipped>>

TrapAlwaysSkips ==
    /\ Running /\ Fetch(patched, job.pc) = "ebreak"
    /\ patched' = RestoreTempBreaks(patched, temp) /\ temp' = {}
    /\ Pause(job.pc + 1, job.pc + 1, job)
    /\ skipped' = (skipped \/ Code[job.pc].op # "ebreak")

\* trap_handler, cause 3.  A temporary break: write all back, resume at the
\* instruction itself unless it is an ebreak too.  Any other ebreak counts as a
\* probe and is stepped over.
TrapEbreak ==
    LET hit  == { b \in temp : b.addr = job.pc }
        here == hit # {} /\ \A b \in hit : b.orig # "ebreak"
        at   == IF here THEN job.pc ELSE job.pc + 1
    IN  /\ Running /\ Fetch(patched, job.pc) = "ebreak"
        /\ patched' = IF hit # {} THEN RestoreTempBreaks(patched, temp) ELSE patched
        /\ temp' = IF hit # {} THEN {} ELSE temp
        /\ Pause(at, at, job)
        /\ skipped' = (skipped \/ (~here /\ Code[job.pc].op # "ebreak"))

-----------------------------------------------------------------------------
(* The debugger's commands.                                                 *)

Paused == last.valid /\ last.paused

\* the task leaves the trampoline at jit_debug_resume_pc
WakeJob == job' = IF last.task /\ job.st = "paused"
                  THEN [job EXCEPT !.st = "run", !.pc = resume] ELSE job

Continue ==
    /\ Paused
    /\ patched' = RestoreTempBreaks(patched, temp) /\ temp' = {}
    /\ last' = [last EXCEPT !.paused = FALSE, !.step_once = FALSE]
    /\ WakeJob
    /\ si' = NoStep
    /\ UNCHANGED <<resume, bps, dropped, displaced, skipped>>

\* ni: to the next probe; temporary breaks stay
StepLine ==
    /\ Paused
    /\ last' = [last EXCEPT !.paused = FALSE, !.step_once = TRUE]
    /\ WakeJob
    /\ si' = NoStep
    /\ UNCHANGED <<patched, temp, resume, bps, dropped, displaced, skipped>>

StepForgetsPause ==
    /\ Paused
    /\ last' = [last EXCEPT !.paused = FALSE]
    /\ UNCHANGED <<job, patched, temp, resume, bps, dropped, displaced, skipped, si>>

\* si cannot step here: earlier breaks are written back, nothing else happens
StepRefused ==
    LET p == RestoreTempBreaks(patched, temp) IN
    /\ Paused
    /\ Stepable(last.epc) => InstallSingleStep(p, last.epc, last) = {}
    /\ patched' = p /\ temp' = {}
    /\ si' = NoStep
    /\ UNCHANGED <<job, last, resume, bps, dropped, displaced, skipped>>

\* si; with the job gone it writes into freed text
StepInstruction ==
    LET p     == RestoreTempBreaks(patched, temp)
        stops == InstallSingleStep(p, last.epc, last)
    IN  /\ Paused /\ Stepable(last.epc) /\ stops # {}
        /\ temp' = TempBreaksAt(p, stops)
        /\ patched' = IF LiveJob THEN p \cup { a \in stops : Code[a].op # "ebreak" } ELSE p
        /\ last' = [last EXCEPT !.paused = FALSE, !.step_once = FALSE]
        /\ WakeJob
        /\ si' = IF job.st = "paused" THEN [st |-> "armed", ran |-> 0] ELSE NoStep
        /\ UNCHANGED <<resume, bps, dropped, displaced, skipped>>

AddBreakpoint(a) ==
    /\ Code[a].op = "probe" /\ a \notin bps /\ Cardinality(bps) < MaxBreaks
    /\ bps' = bps \cup {a}
    /\ UNCHANGED <<job, patched, temp, last, resume, dropped, displaced, skipped, si>>

DebugNext ==
    \/ \E win \in Windows : StartDebug(win) \/ StartPlain(win)
    \/ Kill
    \/ Execute \/ MainReturns \/ ProbeHit \/ TrapEbreak
    \/ Continue \/ StepLine \/ StepRefused \/ StepInstruction
    \/ \E a \in Addrs : AddBreakpoint(a)

DebugSpec == DebugInit /\ [][DebugNext]_debugVars

-----------------------------------------------------------------------------
(* Properties.                                                              *)

\* The program is never resumed past an instruction it did not execute: an
\* ebreak without a record is taken for a probe, so every one written into the
\* text stays on record until the original is written back.  The exception is a
\* debug run started from another window: jit_debug_begin forgets the records.
NothingSkipped == [][skipped' /\ ~skipped => job.pc \in dropped]_debugVars

\* si executes one instruction of the text: with one executed, the program
\* stands on a break, whichever way a branch or a call went.  When it stops
\* without having executed any, it stands on a branch to itself or has been
\* taken over an ebreak of its own.
OneInstruction ==
    /\ si.st = "armed" /\ si.ran = 1 /\ Running =>
           Fetch(patched, job.pc) = "ebreak" \/ displaced
    /\ si.st = "stopped" /\ si.ran = 0 /\ ~displaced =>
           \/ /\ last.epc \in Addrs
              /\ Code[last.epc].op = "branch" /\ Code[last.epc].to = last.epc
           \/ last.epc - 1 \in Addrs /\ Code[last.epc - 1].op = "ebreak"

\* A program asleep in the pause trampoline is the one the session describes,
\* so c, ni and si wake it; a refused si does not lose it.  Only a debug run
\* started from another window does.
PausedJobReachable ==
    job.st = "paused" => (Paused /\ last.task) \/ displaced

=============================================================================
