----------------------------- MODULE LoopPolls -----------------------------
(***************************************************************************)
(* jit_instrument_loops of tcc_glue.c: a call of jit_poll is put at the    *)
(* head of every loop body that is a block.  On the FPGA nothing else      *)
(* takes the CPU from a program that loops, so a loop without the call     *)
(* stops the system.                                                       *)
(*                                                                         *)
(* A program is a sequence of tokens: "for" (or while), "do", "(", ")",    *)
(* "{", "sp" (white space), "x" (anything else) and "quote" (a comment, a  *)
(* string or a character constant, which is copied and looked at no        *)
(* further).                                                               *)
(***************************************************************************)
EXTENDS Integers, Sequences, FiniteSets

CONSTANTS Programs      \* the token sequences considered

Tokens == {"for", "do", "(", ")", "{", "sp", "x", "quote"}

ASSUME ProgramsAssumption == Programs \subseteq Seq(Tokens)

VARIABLES
    program,        \* the source
    next,           \* index of the next token
    inst,           \* the scanner's state
    paren_depth,    \* open parentheses of the loop header
    polls           \* indices of the "{" behind which jit_poll was put

pollVars == <<program, next, inst, paren_depth, polls>>

PollInit ==
    /\ program \in Programs
    /\ next = 1 /\ inst = "none" /\ paren_depth = 0 /\ polls = {}

AfterFirstParen(c) ==
    [inst |-> IF c = ")" THEN "block" ELSE "header", depth |-> paren_depth]

\* state and parentheses inside a loop header after a token that is no keyword and no quote
AfterHeader(c) ==
    CASE c = "(" -> [inst |-> "header", depth |-> paren_depth + 1]
      [] c = ")" -> [inst |-> IF paren_depth = 1 THEN "block" ELSE "header",
                     depth |-> paren_depth - 1]
      [] OTHER   -> [inst |-> "header", depth |-> paren_depth]

Scan ==
    LET c == program[next] IN
    /\ next <= Len(program)
    /\ next' = next + 1
    /\ \/ /\ c = "quote"
          /\ UNCHANGED <<inst, paren_depth, polls>>
       \/ /\ c = "for"
          /\ inst' = "paren" /\ paren_depth' = 0
          /\ UNCHANGED polls
       \/ /\ c = "do"
          /\ inst' = "doblock"
          /\ UNCHANGED <<paren_depth, polls>>
       \/ /\ c \notin {"quote", "for", "do"} /\ inst = "none"
          /\ UNCHANGED <<inst, paren_depth, polls>>
       \/ /\ c \notin {"quote", "for", "do"} /\ inst = "paren"
          /\ inst' = CASE c = "(" -> "header" [] c = "sp" -> "paren" [] OTHER -> "none"
          /\ paren_depth' = IF c = "(" THEN 1 ELSE paren_depth
          /\ UNCHANGED polls
       \/ /\ c \notin {"quote", "for", "do"} /\ inst = "header"
          /\ inst' = AfterHeader(c).inst /\ paren_depth' = AfterHeader(c).depth
          /\ UNCHANGED polls
       \/ /\ c \notin {"quote", "for", "do"} /\ inst \in {"block", "doblock"}
          /\ inst' = IF c = "sp" THEN inst ELSE "none"
          /\ polls' = IF c = "{" THEN polls \cup {next} ELSE polls
          /\ UNCHANGED paren_depth
    /\ UNCHANGED program

-----------------------------------------------------------------------------
(* Reference definition.                                                    *)

Blank(i, j) == \A k \in i + 1 .. j - 1 : program[k] \in {"sp", "quote"}

Depth(a, j) == Cardinality({ k \in a .. j : program[k] = "(" })
               - Cardinality({ k \in a .. j : program[k] = ")" })

\* the parenthesis that opens at a closes at b
Matches(a, b) ==
    program[a] = "(" /\ Depth(a, b) = 0 /\ \A j \in a .. b - 1 : Depth(a, j) > 0

\* the block that opens at k is the body of a loop
LoopBody(k) ==
    /\ program[k] = "{"
    /\ \/ \E d \in 1 .. k - 1 : program[d] = "do" /\ Blank(d, k)
       \/ \E l, a, b \in 1 .. k - 1 :
             /\ l < a /\ a < b
             /\ program[l] = "for" /\ Blank(l, a) /\ Matches(a, b) /\ Blank(b, k)
             /\ \A i \in a .. b : program[i] \notin {"for", "do"}

\* jit_poll stands at the head of every loop body that is a block, and nowhere
\* else: nested headers, comments and strings between header and block, do
\* loops.  A body that is a single statement gets none.
PollsInLoops ==
    next > Len(program) => polls = { k \in 1 .. Len(program) : LoopBody(k) }

=============================================================================
