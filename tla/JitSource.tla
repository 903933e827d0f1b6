----------------------------- MODULE JitSource -----------------------------
(***************************************************************************)
(* How tcc_glue.c turns a file into the one text it compiles: every        *)
(* #include "..." is replaced by the file, followed by the .c file beside  *)
(* a header when there is one; a debug build also puts a #line directive   *)
(* before every line and a debug_probe call before every statement.        *)
(*                                                                         *)
(* A file is a sequence of lines [k, inc].  The kinds are what the scanner *)
(* tells apart: "decl" and "stmt" (outside and inside braces), "include"   *)
(* (of file inc), "open" and "close" (it meets the start, the end of a     *)
(* block comment; the start counts behind a // as well).  Paths are names  *)
(* in one directory, sizes are counted in lines, and the recursion of      *)
(* jit_expand_source_recursive is the stack `frames'.                      *)
(***************************************************************************)
EXTENDS Integers, Sequences, FiniteSets

CONSTANTS
    Worlds,                 \* file systems: functions from names to files
    RootFile,               \* the file given to jit
    AutoSource,             \* function from headers to the source beside them
    JIT_INCLUDE_MAX_DEPTH,  \* nested files
    JIT_SEEN_MAX,           \* files in one text
    JIT_SOURCE_MAX_SIZE     \* lines of the text

\* the lines of a file
SourceLine == [k : {"decl", "stmt", "include", "open", "close"}, inc : STRING]

ASSUME SourceAssumption ==
    /\ JIT_INCLUDE_MAX_DEPTH \in Nat \ {0} /\ JIT_SEEN_MAX \in Nat /\ JIT_SOURCE_MAX_SIZE \in Nat
    /\ \A w \in Worlds : RootFile \in DOMAIN w /\ \A f \in DOMAIN w : w[f] \in Seq(SourceLine)

VARIABLES
    world,      \* the files
    debug,      \* os_jit_run_bg_debug_file
    frames,     \* files being expanded, the innermost last: [file, pos, comment, at]
    seen,       \* files taken so far
    out,        \* the text: [k, file, line, num], num the line the compiler counts
    counter,    \* the compiler's line number for the next line of out
    expanded    \* "run", "done" or "failed"

sourceVars == <<world, debug, frames, seen, out, counter, expanded>>

Frame(f) == [file |-> f, pos |-> 1, comment |-> FALSE, at |-> "line"]

Top == frames[Len(frames)]
TopLine == world[Top.file][Top.pos]
OnStack == { frames[i].file : i \in 1 .. Len(frames) }

SourceInit ==
    /\ world \in Worlds /\ debug \in BOOLEAN
    /\ frames = <<Frame(RootFile)>> /\ seen = {RootFile}
    /\ out = <<>> /\ counter = 1 /\ expanded = "run"

\* once the text is built, the buffers are freed; nothing is left of a failed one
Settle(result) ==
    /\ expanded' = result
    /\ frames' = <<>>
    /\ UNCHANGED <<world, debug, seen, counter>>

Fails == Settle("failed") /\ out' = <<>>

AtTop(change) == [frames EXCEPT ![Len(frames)] = change]

\* the lines a source line becomes, and their compiler line numbers
NumberedLinesFlat(f, n, k) ==
    LET text == [k |-> k, file |-> f, line |-> n, num |-> counter]
    IN  IF debug THEN <<[text EXCEPT !.k = "#line"]>>
                      \o (IF k = "stmt" /\ ~Top.comment
                          THEN <<[text EXCEPT !.k = "probe", !.num = counter + 1],
                                 [text EXCEPT !.num = counter + 2]>>
                          ELSE <<[text EXCEPT !.num = counter + 1]>>)
        ELSE <<text>>

\* #line n gives the next line the number n, so a statement behind its probe
\* is counted as line n + 1
NumberedLines(f, n, k) ==
    LET text == [k |-> k, file |-> f, line |-> n, num |-> counter]
    IN  IF debug THEN <<[text EXCEPT !.k = "#line"]>>
                      \o (IF k = "stmt" /\ ~Top.comment
                          THEN <<[text EXCEPT !.k = "probe", !.num = n],
                                 [text EXCEPT !.num = n + 1]>>
                          ELSE <<[text EXCEPT !.num = n]>>)
        ELSE <<text>>

IsInclude == TopLine.k = "include" /\ ~Top.comment

\* a line that is copied; comment state is scanned after it
CopyLine ==
    LET new == NumberedLines(Top.file, Top.pos, TopLine.k)
        t   == [Top EXCEPT !.pos = @ + 1,
                           !.comment = CASE TopLine.k = "open" -> TRUE
                                         [] TopLine.k = "close" -> FALSE
                                         [] OTHER -> @]
    IN  /\ expanded = "run" /\ Top.pos <= Len(world[Top.file]) /\ ~IsInclude
        /\ IF Len(out) + Len(new) > JIT_SOURCE_MAX_SIZE THEN Fails
           ELSE /\ out' = out \o new
                /\ counter' = new[Len(new)].num + 1
                /\ frames' = AtTop(t)
                /\ UNCHANGED <<world, debug, seen, expanded>>

\* take file f: "include cache full", "include depth exceeded"
Push(f, at) ==
    IF Cardinality(seen) >= JIT_SEEN_MAX \/ Len(frames) + 1 >= JIT_INCLUDE_MAX_DEPTH THEN Fails
    ELSE /\ frames' = Append(AtTop([Top EXCEPT !.at = at]), Frame(f))
         /\ seen' = seen \cup {f}
         /\ UNCHANGED <<world, debug, out, counter, expanded>>

Include ==
    /\ expanded = "run" /\ Top.pos <= Len(world[Top.file]) /\ IsInclude /\ Top.at = "line"
    /\ \/ /\ TopLine.inc \in OnStack            \* recursive include
          /\ Fails
       \/ /\ TopLine.inc \notin OnStack \cup seen
          /\ IF TopLine.inc \notin DOMAIN world THEN Fails ELSE Push(TopLine.inc, "auto")
       \/ /\ TopLine.inc \in seen \ OnStack
          /\ frames' = AtTop([Top EXCEPT !.at = "auto"])
          /\ UNCHANGED <<world, debug, seen, out, counter, expanded>>

\* the .c file beside a header, if it exists and is new
AutoInclude ==
    LET f == IF TopLine.inc \in DOMAIN AutoSource THEN AutoSource[TopLine.inc] ELSE TopLine.inc
    IN  /\ expanded = "run" /\ Top.pos <= Len(world[Top.file]) /\ IsInclude /\ Top.at = "auto"
        /\ IF f # TopLine.inc /\ f \notin seen /\ f \in DOMAIN world THEN Push(f, "newline")
           ELSE /\ frames' = AtTop([Top EXCEPT !.at = "newline"])
                /\ UNCHANGED <<world, debug, seen, out, counter, expanded>>

\* the line break of the include line
AfterInclude ==
    /\ expanded = "run" /\ Top.pos <= Len(world[Top.file]) /\ IsInclude /\ Top.at = "newline"
    /\ IF Len(out) + 1 > JIT_SOURCE_MAX_SIZE THEN Fails
       ELSE /\ out' = Append(out, [k |-> "blank", file |-> Top.file, line |-> Top.pos, num |-> counter])
            /\ counter' = counter + 1
            /\ frames' = AtTop([Top EXCEPT !.pos = @ + 1, !.at = "line"])
            /\ UNCHANGED <<world, debug, seen, expanded>>

Return ==
    /\ expanded = "run" /\ Top.pos > Len(world[Top.file])
    /\ IF Len(frames) = 1 THEN Settle("done") /\ UNCHANGED out
       ELSE /\ frames' = SubSeq(frames, 1, Len(frames) - 1)
            /\ UNCHANGED <<world, debug, seen, out, counter, expanded>>

SourceNext == CopyLine \/ Include \/ AutoInclude \/ AfterInclude \/ Return

-----------------------------------------------------------------------------
(* Properties.                                                              *)

Copied == { i \in 1 .. Len(out) : out[i].k \in {"decl", "stmt", "open", "close", "include"} }

\* A line whose include the scanner sees: not inside a block comment.
SeesInclude(f, n) ==
    /\ world[f][n].k = "include"
    /\ LET marks == { m \in 1 .. n - 1 : world[f][m].k \in {"open", "close"} }
       IN  marks = {} \/ \E m \in marks : world[f][m].k = "close" /\ \A l \in marks : l <= m

\* The finished text holds every line of every file it needs exactly once,
\* however often and from wherever a file is included; an included file stands
\* before the lines behind the include; and in a debug build the compiler
\* counts each line as itself, a statement with a probe as the line after it.
TextComplete ==
    expanded = "done" =>
        /\ \A i, j \in Copied : i # j => <<out[i].file, out[i].line>> # <<out[j].file, out[j].line>>
        /\ \A f \in seen : \A n \in 1 .. Len(world[f]) :
               IF SeesInclude(f, n)
               THEN /\ world[f][n].inc \in seen
                    /\ \A i, j \in Copied :
                          out[i].file = world[f][n].inc /\ out[j].file = f /\ out[j].line > n => i < j
               ELSE \E i \in Copied : out[i].file = f /\ out[i].line = n
        /\ debug => \A i \in Copied :
               out[i].num = out[i].line + (IF i > 1 /\ out[i - 1].k = "probe" THEN 1 ELSE 0)

=============================================================================
