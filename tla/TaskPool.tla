------------------------------ MODULE TaskPool ------------------------------
(***************************************************************************)
(* What the task scheduler promises: a pool of runnable tasks, at most one *)
(* of which holds the CPU.  The CPU is given to a runnable task, and given *)
(* up by the task that has it; a task that stops being runnable while it   *)
(* holds the CPU loses both in the same step.                              *)
(***************************************************************************)
CONSTANTS Tasks, None

VARIABLES runnable, holder

vars == <<runnable, holder>>

Init == runnable = {} /\ holder = None

Admit(t) ==
    /\ t \notin runnable
    /\ runnable' = runnable \cup {t}
    /\ UNCHANGED holder

Block(t) ==
    /\ holder # None
    /\ t \in runnable
    /\ runnable' = runnable \ {t}
    /\ holder' = IF t = holder THEN None ELSE holder

Dispatch(t) ==
    /\ holder = None
    /\ t \in runnable
    /\ holder' = t
    /\ UNCHANGED runnable

Release ==
    /\ holder # None
    /\ holder' = None
    /\ UNCHANGED runnable

Next == Release \/ \E t \in Tasks : Admit(t) \/ Block(t) \/ Dispatch(t)

Spec == Init /\ [][Next]_vars

=============================================================================
