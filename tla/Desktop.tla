------------------------------ MODULE Desktop -------------------------------
(***************************************************************************)
(* The windows and their terminals (user_gui.c, user_terminal.c, user.c)   *)
(* on the FPGA board.  gui_task takes the keys of KeyQueue, shortcuts and  *)
(* clicks; a key for a terminal goes into the mailbox of its window        *)
(* and the window's worker (its number modulo TERMINAL_WORKERS) is woken,  *)
(* except for a key that only edits the line, which gui_task handles by    *)
(* itself.  No interrupt is enabled on the board: tasks run until they     *)
(* yield, and a command may yield at any point between its start and end.  *)
(***************************************************************************)
EXTENDS KeyQueue, FiniteSets, FiniteSetsExt

CONSTANTS
    MAX_WINDOWS,
    TERMINAL_WORKERS,
    INPUT_MAILBOX_SIZE,   \* slots of a mailbox; one stays empty
    KEY_BATCH,            \* keys gui_task takes in one round
    Keys,                 \* keys that are typed: "a" for a printable one, "bs", "tab",
                          \* "enter", "^B" (minimise) and CtrlC
    Commands,             \* "work", "app", "jit", "jitbg" (in the background), "editor",
                          \* "auth" and "clear"
    MaxTyped,             \* bound: keys typed
    MaxEvents             \* bound: shortcuts, clicks, pastes and serial input

ASSUME DesktopAssumption ==
    /\ MAX_WINDOWS \in Nat \ {0} /\ TERMINAL_WORKERS \in Nat \ {0}
    /\ INPUT_MAILBOX_SIZE \in Nat \ {0, 1} /\ KEY_BATCH \in Nat \ {0}
    /\ Keys \subseteq {"a", "bs", "tab", "enter", "^B", CtrlC}
    /\ Commands \subseteq {"work", "app", "jit", "jitbg", "editor", "auth", "clear"}
    /\ MaxTyped \in Nat /\ MaxEvents \in Nat

Windows == 0 .. MAX_WINDOWS - 1
Workers == 0 .. TERMINAL_WORKERS - 1
Gui == TERMINAL_WORKERS     \* gui_task
Tasks == {Gui} \cup Workers
NoWindow == MAX_WINDOWS     \* -1 in the code

VARIABLES
    desk,   \* wins (win), active_win_idx (active) and z_order (z, a sequence, top last)
    pend,   \* what else gui_task has yet to see: shortcut flags, a click, a right
            \* click with the key it pastes, a key on the serial line
    app,    \* app_running and app_owner_win_id
    jit,    \* windows that own a JIT job (os_jit_owner_active)
    task,   \* where each task is
    asleep, \* workers that sleep
    typed,  \* keys typed so far
    events  \* shortcuts, clicks, pastes and serial input so far

vars == <<desk, gui, pend, app, jit, task, asleep, typed, events>>

\* the tasks that are on the CPU or have yielded; a task in a command has yielded
Resting == [st |-> "idle", win |-> 0, cmd |-> "none", did |-> FALSE, batch |-> 0]
CpuFree == \A t \in Tasks : task[t].st \in {"idle", "command"}

(***************************************************************************)
(* A window: the flags of its terminal and its mailbox.                    *)
(***************************************************************************)
\* reset_window; kind "none" is a window that is not active
EmptyWindow ==
    [kind |-> "none", queue |-> <<>>, text |-> FALSE, executing |-> FALSE,
     locked |-> FALSE, cancel |-> FALSE, auth |-> FALSE, min |-> FALSE]

\* window_input_push: a full mailbox loses its oldest key
Push(w, k) ==
    [w EXCEPT !.queue =
        Append(IF Len(@) = INPUT_MAILBOX_SIZE - 1 THEN Tail(@) ELSE @, k)]

\* window_input_pop
Popped(w) == [w EXCEPT !.queue = Tail(@)]

\* clear_window_input_queue and clear_prompt_input
Cleared(w) == [w EXCEPT !.queue = <<>>, !.text = FALSE]

\* terminal_unlock_after_cancel
Unlocked(w) == [Cleared(w) EXCEPT !.executing = FALSE, !.cancel = FALSE, !.locked = FALSE]

\* what makes Ctrl-C cancel instead of clearing the line
Busy(i, w, jobs) == w.locked \/ w.executing \/ i \in jobs

\* broadcast_ctrl_c, and Ctrl-C from the mailbox: a killed job unlocks the window
CtrlCMark(i, w, jobs) ==
    IF i \in jobs THEN Unlocked(w) ELSE [w EXCEPT !.cancel = TRUE]

\* Ctrl-C at a terminal that is not busy
CtrlCClears(w) == [Cleared(w) EXCEPT !.locked = FALSE, !.cancel = FALSE]

(***************************************************************************)
(* The stack of windows.                                                   *)
(***************************************************************************)
Valid(d, i) == i \in Windows /\ d.win[i].kind # "none" /\ ~d.win[i].min

\* where window i lies; the windows above it, or below it, move by one place
Place(z, i) == CHOOSE p \in DOMAIN z : z[p] = i

ToTop(z, i) ==
    [k \in DOMAIN z |->
        IF k < Place(z, i) THEN z[k] ELSE IF k < MAX_WINDOWS THEN z[k + 1] ELSE i]

ToBottom(z, i) ==
    [k \in DOMAIN z |-> IF k > Place(z, i) THEN z[k] ELSE IF k > 1 THEN z[k - 1] ELSE i]

\* the highest window in z_order that is active and not minimised
TopWindow(d) ==
    LET shown == {k \in DOMAIN d.z : Valid(d, d.z[k])}
    IN  IF shown = {} THEN NoWindow ELSE d.z[Max(shown)]

\* bring_to_front
BringToFront(d, i) ==
    [d EXCEPT !.z = ToTop(@, i), !.win[i].min = FALSE, !.active = i]

\* cycle_active_window: the active window goes to the bottom, the top one is active
CycleActive(d) ==
    LET e == IF d.active = NoWindow THEN d ELSE [d EXCEPT !.z = ToBottom(@, d.active)]
    IN  [e EXCEPT !.active = TopWindow(e)]

\* close_window
CloseWindow(d, i) ==
    LET e == [d EXCEPT !.z = ToTop(@, i), !.win[i] = EmptyWindow,
                       !.active = IF @ = i THEN NoWindow ELSE @]
    IN  IF e.active = NoWindow THEN CycleActive(e) ELSE e

\* minimize_window
Minimize(d, i) ==
    [d EXCEPT !.win[i].min = TRUE, !.active = IF @ = i THEN NoWindow ELSE @]

FreeSlots(d) == {i \in Windows : d.win[i].kind = "none"}

\* mutant: the new window gets the keys but stays where it was in the stack
OpenWindowBehind(d, kind) ==
    IF FreeSlots(d) = {} THEN d
    ELSE LET i == Min(FreeSlots(d))
         IN  [d EXCEPT !.win[i] = [EmptyWindow EXCEPT !.kind = kind], !.active = i]

\* create_new_task and open_text_editor: the first free slot, on top
OpenWindow(d, kind) ==
    IF FreeSlots(d) = {} THEN d
    ELSE LET i == Min(FreeSlots(d))
         IN  BringToFront([d EXCEPT !.win[i] = [EmptyWindow EXCEPT !.kind = kind]], i)

\* mutant: only the window of the application is released
ReleasedOwnerOnly(ws) ==
    [i \in Windows |->
        IF i = app.owner /\ ~app.running /\ ws[i].kind = "term" /\ ws[i].executing
        THEN [ws[i] EXCEPT !.executing = FALSE, !.cancel = FALSE] ELSE ws[i]]

\* release_finished_app_commands: without an application no terminal is executing,
\* not even one whose command is still running
Released(ws) ==
    [i \in Windows |->
        IF ~app.running /\ ws[i].kind = "term" /\ ws[i].executing
        THEN [ws[i] EXCEPT !.executing = FALSE, !.cancel = FALSE] ELSE ws[i]]

(***************************************************************************)
(* handle_window_mailbox for key k, already popped from window w.  Each    *)
(* outcome has the window, whether its jobs are killed, whether the window *)
(* is closed and the command that starts ("none": no command).             *)
(***************************************************************************)
Outcome(w) == [win |-> w, kill |-> FALSE, close |-> FALSE, cmd |-> "none"]

\* editor_handle_key: a command line of the editor may close it
EditorKey(w) == {Outcome(w), [Outcome(w) EXCEPT !.close = TRUE]}

\* the password prompt of ssh auth and ssh boot seal
AuthKey(w, k) ==
    {IF k \in {CtrlC, "enter"}
     THEN Outcome([w EXCEPT !.auth = FALSE, !.locked = FALSE, !.text = FALSE])
     ELSE Outcome([w EXCEPT !.text = TRUE])}

CtrlCKey(i, w) ==
    {IF Busy(i, w, jit)
     THEN [Outcome(CtrlCMark(i, w, jit)) EXCEPT !.kill = i \in jit]
     ELSE Outcome(CtrlCClears(w))}

\* Enter with command c on the line: "ssh auth" asks for the password; the
\* others lock the line and run (run_command).  "clear" ends at once, and so
\* does a command whose cancel_requested is already set.
Submitted(w, c) ==
    IF c = "auth" THEN Outcome([w EXCEPT !.auth = TRUE, !.locked = FALSE, !.text = TRUE])
    ELSE IF c = "clear" THEN Outcome([w EXCEPT !.executing = FALSE, !.locked = FALSE, !.text = FALSE])
    ELSE IF w.cancel THEN Outcome(Unlocked(w))
    ELSE [Outcome([w EXCEPT !.executing = TRUE, !.locked = TRUE]) EXCEPT !.cmd = c]

EnterKey(w) ==
    IF w.locked THEN {Outcome(w)}
    ELSE IF ~w.text THEN {Outcome(w)}
    ELSE {Submitted(w, c) : c \in Commands}

\* a printable key, Backspace (the line may become empty), Tab
EditKey(w, k) ==
    IF k = "a" THEN {Outcome([w EXCEPT !.text = TRUE])}
    ELSE IF k = "bs" THEN {Outcome(w), Outcome([w EXCEPT !.text = FALSE])}
    ELSE {Outcome(w)}

\* executing_cmd without an application is a leftover: the flag is dropped, and
\* with it an Enter; a printable key unlocks the line
MailboxKey(i, w, k) ==
    LET stale == w.executing /\ ~app.running
        u == [w EXCEPT !.executing = @ /\ ~stale, !.cancel = @ /\ ~stale,
                       !.locked = @ /\ k # "a"]
    IN  CASE w.kind = "editor" -> EditorKey(w)
          [] w.kind = "term" /\ w.auth -> AuthKey(w, k)
          [] w.kind = "term" /\ ~w.auth /\ k = CtrlC -> CtrlCKey(i, w)
          [] OTHER -> IF stale /\ k = "enter" THEN {Outcome(u)}
                      ELSE IF u.executing THEN {Outcome(u)}
                      ELSE IF k = "enter" THEN EnterKey(u)
                      ELSE EditKey(u, k)

\* task t takes a key from the mailbox of window i, the windows being d;
\* "next" is where t goes on when no command starts
HandleMailbox(t, d, i, next) ==
    \E o \in MailboxKey(i, Popped(d.win[i]), Head(d.win[i].queue)) :
        LET e == [d EXCEPT !.win[i] = o.win]
        IN  /\ desk' = IF o.close THEN CloseWindow(e, i) ELSE e
            /\ jit' = IF o.kill THEN jit \ {i}
                      ELSE IF o.cmd \in {"jit", "jitbg"} THEN jit \cup {i} ELSE jit
            /\ task' = [task EXCEPT ![t] =
                 IF o.cmd = "none" THEN next
                 ELSE [next EXCEPT !.st = "command", !.win = i, !.cmd = o.cmd]]

(***************************************************************************)
(* Commands and applications.                                              *)
(***************************************************************************)
\* What a command changes before it returns: launch_app_file starts the
\* application and empties the mailbox, unless one is running; vim opens a window.
Launches(c) == c = "app" /\ ~app.running

CommandEffect(d, c, i) ==
    IF Launches(c) THEN [d EXCEPT !.win[i].queue = <<>>]
    ELSE IF c = "editor" THEN OpenWindow(d, "editor")
    ELSE d

\* the end of run_command and of handle_window_mailbox: with an application
\* running, whosever it is, the flags stay set
CommandReturns(w, running) ==
    IF running THEN [w EXCEPT !.text = FALSE]
    ELSE [w EXCEPT !.executing = FALSE, !.locked = FALSE, !.cancel = FALSE, !.text = FALSE]

\* the command of task t ends; one that runs a JIT job waits for the job
CommandEnds(t) ==
    /\ task[t].st = "command" /\ CpuFree
    /\ ~(task[t].cmd = "jit" /\ task[t].win \in jit)
    /\ LET i == task[t].win
           e == CommandEffect(desk, task[t].cmd, i)
       IN  /\ app' = IF Launches(task[t].cmd) THEN [running |-> TRUE, owner |-> i] ELSE app
           /\ desk' = [e EXCEPT !.win[i] = CommandReturns(@, app'.running)]
    /\ task' = [task EXCEPT ![t].st = IF t = Gui THEN "keys" ELSE "scan",
                            ![t].cmd = "none"]
    /\ UNCHANGED <<gui, pend, jit, asleep, typed, events>>

\* main of a JIT job returns
JitEnds(i) ==
    /\ i \in jit /\ CpuFree
    /\ jit' = jit \ {i}
    /\ UNCHANGED <<desk, gui, pend, app, task, asleep, typed, events>>

\* app_exit_trampoline: the window in the owner's slot is unlocked
AppExits ==
    /\ app.running /\ CpuFree
    /\ desk' = [desk EXCEPT !.win[app.owner] =
                  IF @.kind = "term" THEN Unlocked(@) ELSE @]
    /\ app' = [running |-> FALSE, owner |-> NoWindow]
    /\ UNCHANGED <<gui, pend, jit, task, asleep, typed, events>>

(***************************************************************************)
(* terminal_worker_task.                                                   *)
(***************************************************************************)
WorkerTop(t) ==
    /\ task[t].st = "idle" /\ t \notin asleep /\ CpuFree
    /\ desk' = [desk EXCEPT !.win = Released(@)]
    /\ task' = [task EXCEPT ![t] = [Resting EXCEPT !.st = "scan"]]
    /\ UNCHANGED <<gui, pend, app, jit, asleep, typed, events>>

\* windows of worker t with keys that its scan has not passed yet
Waiting(t) == {i \in Windows : /\ i % TERMINAL_WORKERS = t /\ i >= task[t].win
                               /\ desk.win[i].queue # <<>>}

WorkerHandles(t) ==
    /\ task[t].st = "scan" /\ Waiting(t) # {}
    /\ LET i == Min(Waiting(t))
       IN  HandleMailbox(t, desk, i, [task[t] EXCEPT !.win = i, !.did = TRUE])
    /\ UNCHANGED <<gui, pend, app, asleep, typed, events>>

WorkerEnds(t) ==
    /\ task[t].st = "scan" /\ Waiting(t) = {}
    /\ asleep' = IF task[t].did THEN asleep ELSE asleep \cup {t}
    /\ task' = [task EXCEPT ![t] = Resting]
    /\ UNCHANGED <<desk, gui, pend, app, jit, typed, events>>

Worker(t) == WorkerTop(t) \/ WorkerHandles(t) \/ WorkerEnds(t)

\* mutant: a window is taken for the number of its worker
WakeWorkerOf(i) == asleep \ {i}

\* wake_terminal_worker_for_window
WakeWorker(i) == asleep \ {i % TERMINAL_WORKERS}

(***************************************************************************)
(* gui_task.                                                               *)
(***************************************************************************)
Shortcuts == {"new", "close", "switch"}

\* a click on window i (the screen may still show one that is closed): inside, on
\* its close or its minimise button, or on its button in the task bar;
\* or on the task bar's button for a new window, or on the empty desktop
Clicks ==
    {[at |-> a, win |-> i] : a \in {"inside", "shut", "min", "bar"}, i \in Windows}
    \cup {[at |-> a, win |-> NoWindow] : a \in {"new", "desktop"}}

NoClick == [at |-> "none", win |-> NoWindow]
Quiet == [flags |-> {}, click |-> NoClick, paste |-> NoKey, serial |-> NoKey]

Shortcut(d, S) ==
    LET opened == IF "new" \in S THEN OpenWindow(d, "term") ELSE d
        closed == IF "close" \in S /\ opened.active # NoWindow
                  THEN CloseWindow(opened, opened.active) ELSE opened
    IN  IF "switch" \in S THEN CycleActive(closed) ELSE closed

Clicked(d, c) ==
    CASE c.at = "none" -> d
      [] c.at = "new" -> OpenWindow(d, "term")
      [] c.at = "desktop" -> [d EXCEPT !.active = NoWindow]
      [] c.at = "bar" -> IF d.win[c.win].kind = "none" THEN d ELSE BringToFront(d, c.win)
      [] c.at = "inside" -> BringToFront(d, c.win)
      [] c.at = "shut" -> CloseWindow(BringToFront(d, c.win), c.win)
      [] c.at = "min" -> IF d.win[c.win].kind = "none" THEN d
                         ELSE Minimize(BringToFront(d, c.win), c.win)

\* an active window that is closed or minimised is no longer active
Checked(d) == IF Valid(d, d.active) THEN d ELSE [d EXCEPT !.active = NoWindow]

Takes(kinds, d) == Valid(d, d.active) /\ d.win[d.active].kind \in kinds
Pushed(d, k) == [d EXCEPT !.win[d.active] = Push(@, k)]

\* a round begins: release, then serial input for a terminal
GuiRound ==
    /\ task[Gui].st = "idle" /\ CpuFree
    /\ task' = [task EXCEPT ![Gui] = [Resting EXCEPT !.st = "events"]]
    /\ LET d == [desk EXCEPT !.win = Released(@)]
       IN  IF pend.serial # NoKey /\ Takes({"term"}, d)
           THEN /\ desk' = Pushed(d, pend.serial) /\ asleep' = WakeWorker(d.active)
                /\ pend' = [pend EXCEPT !.serial = NoKey]
           ELSE desk' = d /\ UNCHANGED <<asleep, pend>>
    /\ UNCHANGED <<gui, app, jit, typed, events>>

\* and goes on with the shortcuts, a click and a paste
GuiEvents ==
    /\ task[Gui].st = "events"
    /\ task' = [task EXCEPT ![Gui].st = "keys"]
    /\ pend' = [Quiet EXCEPT !.serial = pend.serial]
    /\ \E d \in {Clicked(Shortcut(desk, pend.flags), pend.click)} :
          IF pend.paste # NoKey /\ Takes({"term", "editor"}, d)
          THEN desk' = Checked(Pushed(d, pend.paste)) /\ asleep' = WakeWorker(d.active)
          ELSE desk' = Checked(d) /\ UNCHANGED asleep
    /\ UNCHANGED <<gui, app, jit, typed, events>>

\* gui_terminal_fast_edit_key
FastEdit(w, k) ==
    w.kind = "term" /\ ~w.executing /\ ~w.locked /\ k \in {"a", "bs"}

\* the key gui_task takes next, and where it goes
KeyDue ==
    /\ task[Gui].st = "keys" /\ Valid(desk, desk.active)
    /\ task[Gui].batch < KEY_BATCH /\ KeysWaiting(gui)

CounterUp == [task[Gui] EXCEPT !.batch = @ + 1]

\* gui_task minimises the window, or gives the key to an editor
GuiKeyWindow(k, i) ==
    /\ \/ k = "^B" /\ desk' = Minimize(desk, i)
       \/ /\ k \notin {"^B", CtrlC} /\ desk.win[i].kind = "editor"
          /\ \E o \in EditorKey(desk.win[i]) :
                desk' = IF o.close THEN CloseWindow(desk, i) ELSE desk
    /\ gui' = [Pull(gui) EXCEPT !.key = NoKey]
    /\ task' = [task EXCEPT ![Gui] = CounterUp]
    /\ UNCHANGED <<jit, asleep>>

\* Ctrl-C: cancel what runs, or copy the selection, or clear the line; for a
\* window that is not a terminal the key is not taken
GuiKeyCtrlC(k, i) ==
    /\ k = CtrlC
    /\ LET w == desk.win[i]
           busy == w.kind = "term" /\ Busy(i, w, jit)
       IN  /\ \/ busy /\ desk' = [desk EXCEPT !.win[i] = CtrlCMark(i, w, jit)]
              \/ w.kind = "term" /\ ~busy /\ desk' = [desk EXCEPT !.win[i] = CtrlCClears(w)]
              \/ (w.kind = "term" => ~busy /\ ~w.text) /\ desk' = desk
           /\ jit' = IF busy THEN jit \ {i} ELSE jit
           /\ gui' = IF w.kind = "term" THEN [Pull(gui) EXCEPT !.key = NoKey] ELSE Pull(gui)
    /\ task' = [task EXCEPT ![Gui] = CounterUp]
    /\ UNCHANGED asleep

\* A key for a terminal: gui_task handles the mailbox itself when the key only
\* edits the line, and the key it pops is the oldest one.
GuiKeyTerminal(k, i) ==
    /\ k \notin {"^B", CtrlC} /\ desk.win[i].kind = "term"
    /\ IF FastEdit(desk.win[i], k)
       THEN HandleMailbox(Gui, Pushed(desk, k), i, CounterUp) /\ UNCHANGED asleep
       ELSE /\ desk' = Pushed(desk, k) /\ asleep' = WakeWorker(i)
            /\ task' = [task EXCEPT ![Gui] = CounterUp]
            /\ UNCHANGED jit
    /\ gui' = [Pull(gui) EXCEPT !.key = NoKey]

GuiKey ==
    /\ KeyDue
    /\ LET k == Pull(gui).key
           i == desk.active
       IN  GuiKeyWindow(k, i) \/ GuiKeyCtrlC(k, i) \/ GuiKeyTerminal(k, i)
    /\ UNCHANGED <<pend, app, typed, events>>

\* no key, or enough of them: draw and yield; without a window gui_key is dropped
GuiEnds ==
    /\ task[Gui].st = "keys" /\ ~KeyDue
    /\ gui' = IF Valid(desk, desk.active) THEN gui ELSE [gui EXCEPT !.key = NoKey]
    /\ task' = [task EXCEPT ![Gui] = Resting]
    /\ UNCHANGED <<desk, pend, app, jit, asleep, typed, events>>

GuiTask == GuiRound \/ GuiEvents \/ GuiKey \/ GuiEnds

\* A shortcut is decoded, a mouse button goes down, a character is received.
\* Only gui_task looks, at the start of a round.
Raised ==
    {[pend EXCEPT !.flags = @ \cup {f}] : f \in Shortcuts \ pend.flags}
    \cup {[pend EXCEPT !.click = c] : c \in Clicks}
    \cup {[pend EXCEPT !.paste = k] : k \in {"a", "enter"}}
    \cup {[pend EXCEPT !.serial = k] : k \in IF pend.serial = NoKey THEN {"a", "enter"} ELSE {}}

Event ==
    /\ task[Gui].st = "idle" /\ CpuFree
    /\ events < MaxEvents /\ events' = events + 1
    /\ pend' \in Raised
    /\ UNCHANGED <<desk, gui, app, jit, task, asleep, typed>>

\* the poll task decodes a key
Typed(k) ==
    /\ CpuFree
    /\ typed < MaxTyped /\ typed' = typed + 1
    /\ gui' = Submit(gui, k)
    /\ UNCHANGED <<desk, pend, app, jit, task, asleep, events>>

-----------------------------------------------------------------------------

\* gui_task has opened the first terminal
Booted ==
    OpenWindow([win |-> [i \in Windows |-> EmptyWindow], active |-> NoWindow,
                z |-> [k \in 1 .. MAX_WINDOWS |-> k - 1]], "term")

\* each terminal with a line of text
Written(d) ==
    [d EXCEPT !.win = [i \in Windows |-> [d.win[i] EXCEPT !.text = d.win[i].kind = "term"]]]

\* the user opened up to two more and typed a line into each; the workers sleep
Init ==
    /\ \/ desk = Written(Booted)
       \/ desk = Written(OpenWindow(Booted, "term"))
       \/ desk = Written(OpenWindow(OpenWindow(Booted, "term"), "term"))
    /\ gui = NoKeys
    /\ pend = Quiet
    /\ app = [running |-> FALSE, owner |-> NoWindow]
    /\ jit = {}
    /\ task = [t \in Tasks |-> Resting]
    /\ asleep = Workers
    /\ typed = 0 /\ events = 0

Next ==
    \/ \E k \in Keys : Typed(k)
    \/ Event
    \/ GuiTask
    \/ \E t \in Workers : Worker(t)
    \/ \E t \in Tasks : CommandEnds(t)
    \/ \E i \in Windows : JitEnds(i)
    \/ AppExits

\* A task that can run gets the processor again and again (the scheduler's
\* RunnableServed).  Neither a command, nor a job, nor an application need end.
Spec ==
    /\ Init /\ [][Next]_vars
    /\ SF_vars(GuiTask) /\ \A t \in Workers : SF_vars(Worker(t))

-----------------------------------------------------------------------------

\* The window that gets the keys is the one the user sees on top
\* (bring_to_front, close_window, cycle_active_window): while gui_task takes
\* keys, no active window that is not minimised lies above it in z_order,
\* whatever was opened, closed, clicked or minimised by whichever task.
ActiveOnTop ==
    desk.active = NoWindow \/ ~Valid(desk, desk.active) \/ desk.active = TopWindow(desk)

\* A key in a mailbox is handled: as long as the window's worker is not inside
\* a command, the worker gets to it, or the keys are taken or dropped by another
\* path; no wake-up is lost between the scan and the sleep (user_terminal.c:1464).
KeysServed ==
    \A i \in Windows :
        (desk.win[i].queue # <<>> /\ task[i % TERMINAL_WORKERS].st # "command")
            ~> (desk.win[i].queue = <<>> \/ task[i % TERMINAL_WORKERS].st = "command")

\* A terminal does not stay marked as executing once no application runs, even
\* when its command returned while another window's application was running
\* (user_terminal.c:1232, user.c:94); gui_task itself must not sit in a command.
TerminalReleased ==
    \A i \in Windows :
        (desk.win[i].executing /\ ~app.running /\ task[Gui].st # "command")
            ~> (~desk.win[i].executing \/ app.running \/ task[Gui].st = "command")

\* Commands run on the workers: "Enter, Tab, Ctrl+C, paste, and command execution
\* still use the worker path" (project_2/USB_MOUSE_HDMI_SOP.md).
CommandsOnWorkers == task[Gui].st # "command"

=============================================================================
