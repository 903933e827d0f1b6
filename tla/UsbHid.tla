------------------------------- MODULE UsbHid -------------------------------
(***************************************************************************)
(* Keyboard and mouse of the FPGA board (drivers/virtio/virtio_input.c):   *)
(* the poll task enumerates the device on the one USB port, polls its      *)
(* interrupt endpoint and turns reports into press and release events; the *)
(* event ring is decoded into the Ctrl state, the game buttons, the        *)
(* shortcut flags and the keys of KeyQueue.                                *)
(*                                                                         *)
(* The device and the port are external.  The device answers on the        *)
(* address it was last given, reports only a change of its keys (SET_IDLE  *)
(* 0) and forgets everything when it is unplugged; while it is "flaky" any *)
(* transfer may fail and a port reset may leave the port disabled.         *)
(***************************************************************************)
EXTENDS KeyQueue, FiniteSets

CONSTANTS
    USB_NO_CONNECT_STABLE_POLLS,
    USB_ENUM_STABLE_POLLS,
    USB_ENUM_START_DELAY_POLLS,
    USB_ENUM_RETRY_POLLS,
    HaltLimit,               \* halted transfers before the endpoint is set up again
    INPUT_EVENT_QUEUE_SIZE,  \* slots of the event ring; one stays empty
    EventBudget,             \* events decoded by one call of virtio_input_poll
    MaxKeys,                 \* bound: keys pressed or let go
    MaxCable,                \* bound: changes of the plug and of its contact
    Kinds                    \* devices that may be plugged: "kbd", "mouse", "combo"

ASSUME UsbHidAssumption ==
    /\ USB_NO_CONNECT_STABLE_POLLS \in Nat \ {0} /\ USB_ENUM_STABLE_POLLS \in Nat
    /\ USB_ENUM_START_DELAY_POLLS \in Nat \ {0} /\ USB_ENUM_RETRY_POLLS \in Nat \ {0}
    /\ HaltLimit \in Nat \ {0} /\ EventBudget \in Nat \ {0}
    /\ INPUT_EVENT_QUEUE_SIZE \in Nat \ {0, 1}
    /\ Kinds \subseteq {"kbd", "mouse", "combo"}

\* "c" is Ctrl-C with Ctrl; "tab" the window switch with Ctrl and a game button
\* in any case; "kp5" of the number pad is the left button of the pointer.
Letters == {"c", "tab"}
Pointers == {"kp5"}
Usages == Letters \cup Pointers \cup {"ctrl"}
NoUsage == "none"

VARIABLES
    dev,    \* device and port: plugged, kind, flaky, pe, addr, cfg, down, told
    hid,    \* usb_mouse: ready, kbd, mouse, fail, pending, halts, prev
    port,   \* usb_last_port_connected and the counters and timers of the poll
    rep,    \* current_repeat_key and whether next_repeat_ms has come
    point,  \* the number pad pointer and the mouse button: held, fading, clicked, pending
    ring,   \* input_events
    inp,    \* the decoder's state: ctrl, buttons, shortcut
    owed,   \* history: keys submitted and not taken, without the ones an overflow dropped
    keyed,  \* keys pressed or let go so far
    cabled, \* changes of the plug so far
    missed, \* history: the device was replugged before the driver saw it gone
    cut     \* history: keys held when the driver forgot the last report, or whose
            \* events the ring dropped

hidVars == <<dev, hid, port, rep, point, ring, inp, gui, owed, keyed, cabled, missed, cut>>

(***************************************************************************)
(* The device.                                                             *)
(***************************************************************************)
Unplugged ==
    [plugged |-> FALSE, kind |-> "none", flaky |-> FALSE, pe |-> FALSE, addr |-> 0,
     cfg |-> FALSE, down |-> {}, told |-> {}]

Fresh(kind) == [Unplugged EXCEPT !.plugged = TRUE, !.kind = kind]

\* what a transfer to address a may answer
Transfer(d, a) ==
    IF d.plugged /\ d.pe /\ d.addr = a
    THEN IF d.flaky THEN BOOLEAN ELSE {TRUE}
    ELSE {FALSE}

(***************************************************************************)
(* usb_mouse_init_hw: one enumeration.  A step takes [dev, reset, fail] to *)
(* the records it may become; fail is last_fail, 0 while all is well.      *)
(***************************************************************************)
\* usb_port_reset: the device is back at address 0; PE tells success
PortReset(d) ==
    LET back == [d EXCEPT !.addr = 0, !.cfg = FALSE, !.told = {}]
    IN {[back EXCEPT !.pe = e] : e \in IF d.flaky THEN BOOLEAN ELSE {TRUE}}

\* usb_host_prepare leaves an enabled port alone, another one is reset
PortUp(d) ==
    IF d.pe THEN {[dev |-> d, reset |-> FALSE, fail |-> 0]}
    ELSE {[dev |-> e, reset |-> TRUE, fail |-> IF e.pe THEN 0 ELSE 2] : e \in PortReset(d)}

\* mutant: no reset when the enabled port does not answer on address 0
DescribedAsFound(s) ==
    IF s.fail # 0 THEN {s}
    ELSE {[s EXCEPT !.fail = IF ok THEN 0 ELSE IF s.dev.pe THEN 2 ELSE 1] :
              ok \in Transfer(s.dev, 0)}

\* usb_try_dev_desc8: as found, then after a reset if there was none; the tries at
\* other speeds are one more transfer
Described(s) ==
    LET again == IF s.reset THEN {s}
                 ELSE {[s EXCEPT !.dev = e, !.reset = e.pe] : e \in PortReset(s.dev)}
    IN IF s.fail # 0 THEN {s}
       ELSE (IF TRUE \in Transfer(s.dev, 0) THEN {s} ELSE {}) \cup
            (IF FALSE \in Transfer(s.dev, 0)
             THEN UNION {{[r EXCEPT !.fail = IF ok THEN 0 ELSE IF r.dev.pe THEN 2 ELSE 1] :
                              ok \in Transfer(r.dev, 0)} : r \in again}
             ELSE {})

\* SET_ADDRESS; a lost status leaves the device at either address
Addressed(s) ==
    IF s.fail # 0 THEN {s}
    ELSE UNION {IF ok THEN {[s EXCEPT !.dev.addr = 1]}
                ELSE {[s EXCEPT !.dev.addr = a, !.fail = 2] : a \in {0, 1}} :
                    ok \in Transfer(s.dev, 0)}

\* the configuration is read and parsed, then SET_CONFIGURATION
Configured(s) ==
    IF s.fail # 0 THEN {s}
    ELSE UNION {IF ok THEN {[s EXCEPT !.dev.cfg = TRUE]}
                ELSE {[s EXCEPT !.dev.cfg = c, !.fail = 2] : c \in BOOLEAN} :
                    ok \in Transfer(s.dev, 1)}

Enumerations(d) ==
    UNION {UNION {UNION {Configured(c) : c \in Addressed(b)} :
                      b \in Described(a)} : a \in PortUp(d)}

\* the usb_mouse structure after a memset
Zeroed(fail) ==
    [ready |-> FALSE, kbd |-> FALSE, mouse |-> FALSE, fail |-> fail, pending |-> FALSE,
     halts |-> 0, prev |-> {}]

\* usb_hid_parse_config: the endpoints of the configuration decide what is polled
Opened(kind, fail) ==
    IF fail # 0 THEN Zeroed(fail)
    ELSE [Zeroed(0) EXCEPT !.ready = TRUE, !.kbd = kind \in {"kbd", "combo"},
                           !.mouse = kind \in {"mouse", "combo"}]

(***************************************************************************)
(* Events.                                                                 *)
(***************************************************************************)
InputEvent(u, down) == [code |-> u, down |-> down]

\* enqueue_input_event for each event of es: a full ring drops its oldest event
EnqueueAll(r, es) ==
    LET all  == r \o es
        over == Len(all) - (INPUT_EVENT_QUEUE_SIZE - 1)
    IN IF over > 0 THEN SubSeq(all, over + 1, Len(all)) ELSE all

\* the order of the key bytes in a report is the device's
Orders(S) == {s \in [1 .. Cardinality(S) -> S] : \A u \in S : \E i \in DOMAIN s : s[i] = u}

\* mutant: keys let go produce no event
ReportEventsPressOnly(prev, now, gone, s) ==
    (IF ("ctrl" \in prev) # ("ctrl" \in now)
     THEN <<InputEvent("ctrl", "ctrl" \in now)>> ELSE <<>>)
    \o [i \in DOMAIN s |-> InputEvent(s[i], TRUE)]

\* the events of usb_keyboard_apply_report: modifiers, keys let go, keys pressed,
\* in the order of the reports; keys of the pointer produce none
ReportEvents(prev, now, gone, s) ==
    LET mods == IF ("ctrl" \in prev) # ("ctrl" \in now)
                THEN <<InputEvent("ctrl", "ctrl" \in now)>> ELSE <<>>
    IN mods \o [i \in DOMAIN gone |-> InputEvent(gone[i], FALSE)]
            \o [i \in DOMAIN s |-> InputEvent(s[i], TRUE)]

\* current_repeat_key: the last new key, forgotten once it is not in the report
RepeatAfter(now, s) ==
    IF s # <<>> THEN [key |-> s[Len(s)], due |-> FALSE]
    ELSE IF rep.key \notin now THEN [key |-> NoUsage, due |-> FALSE]
    ELSE rep

\* usb_keyboard_pointer_update_holds
HoldsAfter(now) ==
    [point EXCEPT !.held = point.held \/ "kp5" \in now,
                  !.fading = "kp5" \notin now /\ point.held]

\* the tail of the keyboard branch: the pointer keys move, click and release; a
\* release counts once its grace has run out
PointerTick(p) ==
    [p EXCEPT !.clicked = p.held, !.pending = p.pending \/ (p.held /\ ~ p.clicked)]

Codes(r) == {r[i].code : i \in DOMAIN r}

\* history: every event of a key was dropped and none came after it
CutBy(es) ==
    LET kept == Codes(EnqueueAll(ring, es))
    IN (cut \ (Codes(es) \cap kept)) \cup (Codes(ring \o es) \ kept)

(***************************************************************************)
(* usb_mouse_poll_inner, one case for each of its returns.                 *)
(***************************************************************************)
User == <<keyed, cabled, missed>>

Rest == UNCHANGED <<inp, gui, owed, User>>

\* usb_hid_note_disconnected, usb_phy_recover_from_os
PollGone ==
    LET n == port.gone + 1
    IN /\ ~ dev.plugged
       /\ point' = IF hid.ready THEN [point EXCEPT !.held = FALSE, !.fading = FALSE] ELSE point
       /\ IF n < USB_NO_CONNECT_STABLE_POLLS \/ port.recover_hold
          THEN /\ port' = [port EXCEPT !.gone = IF n > USB_NO_CONNECT_STABLE_POLLS THEN @ ELSE n]
               /\ UNCHANGED <<hid, cut>>
          ELSE /\ hid' = Zeroed(1)
               /\ cut' = cut \cup hid.prev \cup {"repeat"}
               /\ port' = [connected |-> FALSE, stable |-> 0, gone |-> 0, recover_hold |-> TRUE,
                           left |-> USB_ENUM_START_DELAY_POLLS, hold |-> FALSE]
       /\ UNCHANGED <<dev, rep, ring>> /\ Rest

\* the port has just been found connected
PollConnected ==
    /\ dev.plugged /\ ~ port.connected
    /\ port' = [port EXCEPT !.connected = TRUE, !.stable = 0, !.gone = 0, !.hold = TRUE,
                            !.left = USB_ENUM_START_DELAY_POLLS]
    /\ hid' = [hid EXCEPT !.ready = FALSE, !.kbd = FALSE, !.mouse = FALSE, !.fail = 0]
    /\ UNCHANGED <<dev, rep, point, ring, cut>> /\ Rest

\* not enumerated: the counters run, then usb_mouse_init_hw
PollWaits ==
    /\ dev.plugged /\ port.connected /\ ~ hid.ready
    /\ \/ /\ port.stable < USB_ENUM_STABLE_POLLS
          /\ port' = [port EXCEPT !.stable = @ + 1, !.gone = 0]
       \/ /\ port.stable = USB_ENUM_STABLE_POLLS
          /\ port.left > 1 \/ port.hold
          /\ port' = [port EXCEPT !.left = IF @ = 0 THEN 0 ELSE @ - 1, !.gone = 0]
    /\ UNCHANGED <<dev, hid, rep, point, ring, cut>> /\ Rest

PollEnumerates ==
    /\ dev.plugged /\ port.connected /\ ~ hid.ready
    /\ port.stable = USB_ENUM_STABLE_POLLS /\ port.left <= 1 /\ ~ port.hold
    /\ \E r \in Enumerations(dev) :
           /\ dev' = r.dev
           /\ hid' = Opened(dev.kind, r.fail)
           /\ port' = [port EXCEPT !.gone = 0,
                           !.left = IF r.fail = 0 THEN 0 ELSE USB_ENUM_RETRY_POLLS,
                           !.hold = r.fail # 0]
    /\ point' = [point EXCEPT !.held = FALSE, !.fading = FALSE]
    /\ cut' = cut \cup hid.prev \cup {"repeat"}
    /\ UNCHANGED <<rep, ring>> /\ Rest

\* the interrupt transfer: posted when none is, left alone while it is active, halted
\* where the device does not answer; at the limit usb_intr_endpoint_recover drops it
Answering == dev.plugged /\ dev.pe /\ dev.addr = 1 /\ dev.cfg

Post == hid' = [hid EXCEPT !.pending = TRUE] /\ UNCHANGED dev

Halted ==
    /\ hid.pending /\ (~ Answering \/ dev.flaky)
    /\ hid' = IF hid.halts + 1 = HaltLimit
              THEN [hid EXCEPT !.halts = 0, !.pending = FALSE]
              ELSE [hid EXCEPT !.halts = @ + 1, !.pending = TRUE]
    /\ UNCHANGED dev

StillActive == hid.pending /\ Answering /\ dev.down = dev.told /\ UNCHANGED <<dev, hid>>

Reported ==
    /\ hid.pending /\ Answering /\ dev.down # dev.told
    /\ dev' = [dev EXCEPT !.told = dev.down]
    /\ hid' = [hid EXCEPT !.halts = 0, !.pending = TRUE, !.prev = dev.down]

\* usb_keyboard_poll, then the repeat and the pointer
Repeat(r, es) ==
    IF r.key # NoUsage /\ r.due
    THEN es \o <<InputEvent(r.key, TRUE), InputEvent(r.key, FALSE)>> ELSE es

PollKeyboard ==
    /\ dev.plugged /\ port.connected /\ hid.ready /\ hid.kbd
    /\ port' = [port EXCEPT !.gone = 0]
    /\ \E s \in Orders(Letters \cap (dev.down \ hid.prev)),
          gone \in Orders(Letters \cap (hid.prev \ dev.down)) :
           LET new   == hid.pending /\ hid'.prev # hid.prev
               r     == IF new THEN RepeatAfter(dev.down, s) ELSE rep
               es    == Repeat(r, IF new THEN ReportEvents(hid.prev, dev.down, gone, s) ELSE <<>>)
           IN /\ \/ ~ hid.pending /\ Post
                 \/ Halted
                 \/ StillActive
                 \/ Reported
              /\ rep' = [r EXCEPT !.due = FALSE]
              /\ point' = PointerTick(IF new THEN HoldsAfter(dev.down) ELSE point)
              /\ ring' = EnqueueAll(ring, es)
              /\ cut' = CutBy(es) \ (IF new THEN {"repeat"} ELSE {})
    /\ Rest

\* usb_mouse_apply_report; "kp5" stands for the left button
MouseReport(p, down) ==
    [p EXCEPT !.clicked = "kp5" \in down,
              !.pending = @ \/ ("kp5" \in down /\ ~ p.clicked)]

(* The mouse branch of the poll: one report read and applied. *)
PollMouse ==
    /\ dev.plugged /\ port.connected /\ hid.ready /\ ~ hid.kbd
    /\ port' = [port EXCEPT !.gone = 0]
    /\ \/ ~ hid.pending /\ Post /\ UNCHANGED point
       \/ (Halted \/ StillActive) /\ UNCHANGED point
       \/ /\ Reported
          /\ point' = MouseReport(point, dev.down)
    /\ UNCHANGED <<rep, ring, cut>> /\ Rest

UsbPoll ==
    PollGone \/ PollConnected \/ PollWaits \/ PollEnumerates \/ PollKeyboard \/ PollMouse

(***************************************************************************)
(* virtio_input_poll: the poll task, gui_task and the timer trap call it.  *)
(***************************************************************************)
\* history: the keys gui_task is owed; a full queue costs it the oldest queued one
Owe(g, o, k) ==
    IF k = CtrlC THEN <<k>>
    ELSE IF ~ QueueFull(g) THEN Append(o, k)
    ELSE Append(IF g.key = NoKey THEN Tail(o) ELSE <<Head(o)>> \o Tail(Tail(o)), k)

SubmitTo(st, k) == [st EXCEPT !.gui = Submit(st.gui, k), !.owed = Owe(st.gui, st.owed, k)]

\* one event: modifiers, shortcuts before keys, the game buttons whatever the rest did
Decode(st, e) ==
    LET typed ==
            IF e.code = "ctrl" THEN [st EXCEPT !.inp.ctrl = e.down]
            ELSE IF ~ e.down THEN st
            ELSE IF st.inp.ctrl /\ e.code = "tab" THEN [st EXCEPT !.inp.shortcut = TRUE]
            ELSE SubmitTo(st, IF st.inp.ctrl /\ e.code = "c" THEN CtrlC ELSE e.code)
    IN IF e.code = "tab" THEN [typed EXCEPT !.inp.button = e.down] ELSE typed

\* the first n events of r, one after the other
Decoded(st, r, n) ==
    LET after[i \in 0 .. n] == IF i = 0 THEN st ELSE Decode(after[i - 1], r[i])
    IN after[n]

InputPoll ==
    LET n  == IF Len(ring) < EventBudget THEN Len(ring) ELSE EventBudget
        st == Decoded([inp |-> inp, gui |-> gui, owed |-> owed], ring, n)
    IN /\ ring # <<>>
       /\ ring' = SubSeq(ring, n + 1, Len(ring))
       /\ inp' = st.inp /\ gui' = st.gui /\ owed' = st.owed
       /\ UNCHANGED <<dev, hid, port, rep, point, User, cut>>

(***************************************************************************)
(* gui_task takes a key in two steps, and reads the flags.                 *)
(***************************************************************************)
GuiPull ==
    /\ gui.key = NoKey /\ KeysWaiting(gui)
    /\ gui' = Pull(gui)
    /\ UNCHANGED <<dev, hid, port, rep, point, ring, inp, owed, User, cut>>

GuiHandle ==
    /\ gui.key # NoKey
    /\ gui' = [gui EXCEPT !.key = NoKey]
    /\ owed' = IF owed # <<>> /\ Head(owed) = gui.key THEN Tail(owed) ELSE owed
    /\ UNCHANGED <<dev, hid, port, rep, point, ring, inp, User, cut>>

GuiFlags ==
    /\ inp.shortcut \/ point.pending
    /\ inp' = [inp EXCEPT !.shortcut = FALSE]
    /\ point' = [point EXCEPT !.pending = FALSE]
    /\ UNCHANGED <<dev, hid, port, rep, ring, gui, owed, User, cut>>

(***************************************************************************)
(* The user, the cable and the clock.                                      *)
(***************************************************************************)
Others == UNCHANGED <<hid, rep, point, ring, inp, gui, owed, cut>>

KeyChange ==
    \E u \in IF dev.kind = "mouse" THEN Pointers ELSE Usages :
        /\ dev.plugged /\ keyed < MaxKeys
        /\ keyed' = keyed + 1
        /\ dev' = [dev EXCEPT !.down = IF u \in @ THEN @ \ {u} ELSE @ \cup {u}]
        /\ UNCHANGED <<port, cabled, missed>> /\ Others

Touch == cabled < MaxCable /\ cabled' = cabled + 1 /\ UNCHANGED <<port, keyed>> /\ Others

Unplug == dev.plugged /\ dev' = Unplugged /\ UNCHANGED missed /\ Touch

Plug ==
    /\ ~ dev.plugged
    /\ \E kind \in Kinds : dev' = Fresh(kind)
    /\ missed' = hid.ready
    /\ Touch

Contact ==
    /\ dev.plugged
    /\ dev' = [dev EXCEPT !.flaky = ~ @]
    /\ UNCHANGED missed /\ Touch

\* every timer of the driver runs out: the holds, the repeat, the pointer's grace
TimePasses ==
    /\ \/ port.hold \/ port.recover_hold \/ point.fading
       \/ rep.key # NoUsage /\ ~ rep.due
    /\ port' = [port EXCEPT !.hold = FALSE, !.recover_hold = FALSE]
    /\ rep' = [rep EXCEPT !.due = rep.key # NoUsage]
    /\ point' = IF point.fading THEN [point EXCEPT !.held = FALSE, !.fading = FALSE] ELSE point
    /\ UNCHANGED <<dev, hid, ring, inp, gui, owed, User, cut>>

\* The loader leaves the port enabled and may have given the device its address.
AsLoaded(kind, a) == [Fresh(kind) EXCEPT !.pe = TRUE, !.addr = a, !.cfg = (a = 1)]

HidInit ==
    /\ dev \in {Unplugged} \cup {AsLoaded(kind, a) : kind \in Kinds, a \in {0, 1}}
    /\ hid = Zeroed(0)
    /\ port = [connected |-> FALSE, stable |-> 0, gone |-> 0, recover_hold |-> FALSE,
               left |-> 0, hold |-> FALSE]
    /\ rep = [key |-> NoUsage, due |-> FALSE]
    /\ point = [held |-> FALSE, fading |-> FALSE, clicked |-> FALSE, pending |-> FALSE]
    /\ ring = <<>>
    /\ inp = [ctrl |-> FALSE, button |-> FALSE, shortcut |-> FALSE]
    /\ gui = NoKeys
    /\ owed = <<>> /\ keyed = 0 /\ cabled = 0 /\ missed = FALSE /\ cut = {}

HidNext ==
    \/ UsbPoll \/ InputPoll \/ GuiPull \/ GuiHandle \/ GuiFlags
    \/ KeyChange \/ Unplug \/ Plug \/ Contact \/ TimePasses

\* virtio_mouse_poll_task loops for ever and so does gui_task; the timer runs
HidSpec ==
    /\ HidInit /\ [][HidNext]_hidVars
    /\ WF_hidVars(UsbPoll) /\ WF_hidVars(InputPoll) /\ WF_hidVars(GuiPull) /\ WF_hidVars(GuiHandle)
    /\ WF_hidVars(TimePasses)

-----------------------------------------------------------------------------
\* The keys that wait for gui_task are the keys the decoder submitted, in order:
\* none overtakes another through gui_key, none is lost except the oldest queued
\* one of a full queue and those a Ctrl-C cancels (gui_key_submit,
\* gui_key_pull_next).
KeysInOrder == PendingKeys(gui) = owed

\* what the decoder will believe of u once the ring is drained
Settled(u, now) ==
    LET at == {i \in DOMAIN ring : ring[i].code = u}
    IN IF at = {} THEN now ELSE ring[CHOOSE i \in at : \A j \in at : j <= i].down

\* Ctrl, the game button and the repeated key are held in the decoder only while
\* the last report of the keyboard holds them (and Ctrl then for sure), but for
\* keys whose release was lost to a full ring or to a device that was taken away
\* with the key down (usb_keyboard_apply_report, usb_phy_recover_from_os).
HeldIsReal ==
    /\ "ctrl" \notin cut => (Settled("ctrl", inp.ctrl) <=> "ctrl" \in hid.prev)
    /\ "tab" \notin cut /\ Settled("tab", inp.button) => "tab" \in hid.prev
    /\ rep.key # NoUsage => rep.key \in hid.prev \/ "repeat" \in cut

\* A device that stays plugged with good contact ends up enumerated and answering,
\* whatever address the loader or a broken enumeration left it at, unless it was
\* swapped before the driver noticed that the old one was gone
\* (usb_mouse_init_hw, usb_mouse_poll_inner).
PluggedWorks ==
    <>[](dev.plugged /\ ~ dev.flaky /\ ~ missed) => <>[](hid.ready /\ Answering)

=============================================================================
