---------------------------- MODULE MCJitBuild ----------------------------
EXTENDS JitBuild

Ln(k) == [k |-> k, inc |-> ""]
Inc(f) == [k |-> "include", inc |-> f]

UpTo(n, S) == UNION { [1 .. m -> S] : m \in 0 .. n }

\* every main file of two lines, every header of up to two lines, and a source
\* beside the header that includes it, something else, or is not there
MCLines == {Ln("stmt"), Ln("open"), Ln("close"), Inc("a.c"), Inc("b.h")}

MCSources == { <<>>, <<Ln("decl")>>, <<Inc("b.h"), Ln("stmt")>>, <<Inc("a.c")>>, <<Inc("z.h")>> }

MCWorlds ==
    { [f \in {"a.c", "b.h", "b.c"} |-> CASE f = "a.c" -> a [] f = "b.h" -> h [] OTHER -> c] :
        a \in [1 .. 2 -> MCLines], h \in UpTo(2, MCLines), c \in MCSources }
    \cup { [f \in {"a.c", "b.h"} |-> IF f = "a.c" THEN <<Inc("b.h"), Ln("stmt"), Ln("decl")>> ELSE h] :
        h \in UpTo(1, MCLines) }

MCAutoSource == [h \in {"b.h"} |-> "b.c"]

\* every program of five tokens after a loop keyword
MCTokens == {"for", "(", ")", "{", "x"}
MCPrograms ==
    { <<"for">> \o p : p \in [1 .. 5 -> MCTokens] }
    \cup { <<"do", "sp">> \o p : p \in [1 .. 2 -> {"{", "sp", "quote", "x", "do"}] }
    \cup { <<"for", "sp", "(", "quote", ")", c, "{">> : c \in {"sp", "quote", "x"} }

=============================================================================
