------------------------------ MODULE KeyQueue ------------------------------
(***************************************************************************)
(* The keys on their way from the input decoder to gui_task: gui_key, the  *)
(* key gui_task works on, and the ring gui_key_queue behind it             *)
(* (drivers/virtio/virtio_input.c).  The decoder runs in the poll task, in *)
(* gui_task and in the timer trap, so a key may be submitted between any   *)
(* two steps of gui_task.                                                  *)
(***************************************************************************)
EXTENDS Naturals, Sequences

CONSTANT GUI_KEY_QUEUE_SIZE   \* slots of the ring; one stays empty

ASSUME KeyQueueAssumption == GUI_KEY_QUEUE_SIZE \in Nat \ {0, 1}

VARIABLE gui   \* gui_key and gui_key_queue: key, queue

NoKey == "0"
CtrlC == "^C"

NoKeys == [key |-> NoKey, queue |-> <<>>]

\* the ring is full: its oldest key is overwritten
QueueFull(g) == Len(g.queue) = GUI_KEY_QUEUE_SIZE - 1

\* mutant: a free gui_key is taken even while older keys wait in the ring
SubmitJumps(g, k) ==
    IF k = CtrlC THEN [key |-> k, queue |-> <<>>]
    ELSE IF g.key = NoKey THEN [g EXCEPT !.key = k]
    ELSE [g EXCEPT !.queue = Append(IF QueueFull(g) THEN Tail(@) ELSE @, k)]

\* gui_key_submit
Submit(g, k) ==
    IF k = CtrlC THEN [key |-> k, queue |-> <<>>]
    ELSE IF g.key = NoKey /\ g.queue = <<>> THEN [g EXCEPT !.key = k]
    ELSE [g EXCEPT !.queue = Append(IF QueueFull(g) THEN Tail(@) ELSE @, k)]

\* gui_key_pull_next, where it answers 1
Pull(g) ==
    IF g.key = NoKey THEN [key |-> Head(g.queue), queue |-> Tail(g.queue)] ELSE g

\* gui_key_queued, and whether gui_key_pull_next answers 1
KeysWaiting(g) == g.key # NoKey \/ g.queue # <<>>

\* the keys gui_task has yet to see, in the order in which it will
PendingKeys(g) == (IF g.key = NoKey THEN <<>> ELSE <<g.key>>) \o g.queue

=============================================================================
