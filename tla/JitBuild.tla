------------------------------ MODULE JitBuild ------------------------------
(***************************************************************************)
(* From a file to a program that can be debugged: the text is expanded     *)
(* (JitSource), loops get their polls (LoopPolls), the compiler runs, and  *)
(* the debugger's line table is filled (LineTable).  Each stage frees what *)
(* it worked on before the next one starts; the compiler in between is     *)
(* external, so what a later stage reads is any of its inputs.             *)
(***************************************************************************)
EXTENDS JitSource, LoopPolls, LineTable

VARIABLE stage      \* "expand", "polls", "lines"

vars == <<stage, sourceVars, pollVars, lineVars>>

NoSource ==
    /\ world' = [f \in {RootFile} |-> <<>>] /\ debug' = FALSE /\ frames' = <<>> /\ seen' = {}
    /\ out' = <<>> /\ counter' = 1 /\ expanded' = "freed"

NoPolls ==
    /\ program' = <<>> /\ next' = 1 /\ inst' = "none" /\ paren_depth' = 0 /\ polls' = {}

Init ==
    /\ stage = "expand"
    /\ SourceInit
    /\ program = <<>> /\ next = 1 /\ inst = "none" /\ paren_depth = 0 /\ polls = {}
    /\ LineInit

Expand ==
    /\ stage = "expand"
    /\ SourceNext
    /\ UNCHANGED <<stage, pollVars, lineVars>>

\* jit_make_source_with_prelude on the finished text
StartPolls ==
    /\ stage = "expand" /\ expanded = "done"
    /\ stage' = "polls"
    /\ program' \in Programs
    /\ next' = 1 /\ inst' = "none" /\ paren_depth' = 0 /\ polls' = {}
    /\ NoSource
    /\ UNCHANGED lineVars

Instrument ==
    /\ stage = "polls"
    /\ Scan
    /\ UNCHANGED <<stage, sourceVars, lineVars>>

\* tcc_compile_string and tcc_relocate succeed
Compile ==
    /\ stage = "polls" /\ next > Len(program)
    /\ stage' = "lines"
    /\ NoPolls
    /\ UNCHANGED <<sourceVars, lineVars>>

MapLines ==
    /\ stage = "lines"
    /\ LineNext
    /\ UNCHANGED <<stage, sourceVars, pollVars>>

Next == Expand \/ StartPolls \/ Instrument \/ Compile \/ MapLines

Spec == Init /\ [][Next]_vars

=============================================================================
