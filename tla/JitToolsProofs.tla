--------------------------- MODULE JitToolsProofs ---------------------------
(***************************************************************************)
(* Proofs about the way from a file to a program that can be debugged, and *)
(* about the debugger.                                                     *)
(*                                                                         *)
(* Each stage of the build has an inductive invariant that says what its   *)
(* working state stands for: the scanner's state is what precedes the next *)
(* token, an entry of the line table is the span of a row or a probe       *)
(* inside one, and the stack of files divides the lines into those that    *)
(* are in the text and those still to come.  The debugger's says which     *)
(* ebreak in the text is on record; it holds for every program, every set  *)
(* of windows and any number of breakpoints.                               *)
(***************************************************************************)
EXTENDS JitBuild, JitDebug, FiniteSetTheorems, TLAPS

-----------------------------------------------------------------------------
(* jit_instrument_loops: the state of the scanner says what stands before    *)
(* the next token.                                                           *)

AfterFor(n) == \E l \in 1 .. n - 1 : program[l] = "for" /\ Blank(l, n)

AfterDo(n) == \E d \in 1 .. n - 1 : program[d] = "do" /\ Blank(d, n)

\* the parenthesis of a loop that opens at a is still open before n
InHeader(a, n) ==
    /\ a \in 1 .. n - 1 /\ program[a] = "(" /\ AfterFor(a)
    /\ \A j \in a .. n - 1 : Depth(a, j) > 0 /\ program[j] \notin {"for", "do"}

\* a loop header ended before n and only blanks follow it
AfterLoop(n) ==
    \E a, b \in 1 .. n - 1 :
        /\ a < b /\ AfterFor(a) /\ Matches(a, b) /\ Blank(b, n)
        /\ \A i \in a .. b : program[i] \notin {"for", "do"}

PollInv ==
    /\ program \in Seq(Tokens)
    /\ next \in 1 .. Len(program) + 1
    /\ inst \in {"none", "paren", "header", "block", "doblock"}
    /\ inst = "paren" <=> AfterFor(next)
    /\ inst = "doblock" <=> AfterDo(next)
    /\ inst = "header" <=> \E a \in 1 .. next - 1 : InHeader(a, next)
    /\ inst = "block" <=> AfterLoop(next)
    /\ \A a \in 1 .. next - 1 : InHeader(a, next) => paren_depth = Depth(a, next - 1)
    /\ polls = {k \in 1 .. next - 1 : LoopBody(k)}

\* how often token x occurs from a to m
Count(a, m, x) == Cardinality({k \in a .. m : program[k] = x})

(* One more token changes a count by one if it is counted.                   *)
LEMMA CountStep ==
    ASSUME NEW a \in Nat, NEW n \in Nat, a <= n, NEW x
    PROVE  Count(a, n, x) \in Nat /\ Count(a, n, x) = Count(a, n - 1, x) + (IF program[n] = x THEN 1 ELSE 0)
<1> DEFINE S == {k \in a .. n - 1 : program[k] = x}
           T == {k \in a .. n : program[k] = x}
<1>1. IsFiniteSet(S)
  <2>1. IsFiniteSet(a .. n - 1) /\ S \in SUBSET (a .. n - 1)
    BY FS_Interval
  <2> HIDE DEF S
  <2> QED BY <2>1, FS_Subset
<1>2. Cardinality(S) \in Nat /\ n \notin S
  <2>1. n \notin S
    OBVIOUS
  <2> HIDE DEF S
  <2> QED BY <1>1, <2>1, FS_CardinalityType
<1>3. T = IF program[n] = x THEN S \cup {n} ELSE S
  OBVIOUS
<1> HIDE DEF S, T
<1>4. Cardinality(T) = Cardinality(S) + (IF program[n] = x THEN 1 ELSE 0)
  BY <1>1, <1>2, <1>3, FS_AddElement
<1>5. Cardinality(T) \in Nat
  BY <1>2, <1>4
<1> QED BY <1>4, <1>5 DEF S, T, Count

LEMMA CountNone ==
    ASSUME NEW a \in Nat, NEW x
    PROVE  Count(a, a - 1, x) = 0
<1>1. {k \in a .. a - 1 : program[k] = x} = {}
  OBVIOUS
<1> QED BY <1>1, FS_EmptySet DEF Count

LEMMA DepthStep ==
    ASSUME NEW a \in Nat, NEW n \in Nat, a < n
    PROVE  /\ Depth(a, n - 1) \in Int
           /\ Depth(a, n) = Depth(a, n - 1) + (IF program[n] = "(" THEN 1
                                               ELSE IF program[n] = ")" THEN -1 ELSE 0)
<1> DEFINE m == n - 1
<1>1. \A x : Count(a, n, x) = Count(a, m, x) + (IF program[n] = x THEN 1 ELSE 0)
  BY CountStep
<1>2. \A x : Count(a, m, x) \in Nat
  <2>1. m \in Nat /\ a <= m
    OBVIOUS
  <2> HIDE DEF m
  <2> QED BY <2>1, CountStep
<1>3. Depth(a, n) = Count(a, n, "(") - Count(a, n, ")") /\ Depth(a, m) = Count(a, m, "(") - Count(a, m, ")")
  BY DEF Depth, Count
<1> HIDE DEF m
<1>4. /\ Depth(a, m) \in Int
      /\ Depth(a, n) = Depth(a, m) + (IF program[n] = "(" THEN 1 ELSE IF program[n] = ")" THEN -1 ELSE 0)
  BY <1>1, <1>2, <1>3
<1> QED BY <1>4 DEF m

LEMMA DepthFirst ==
    ASSUME NEW a \in Nat, program[a] = "("
    PROVE  Depth(a, a) = 1
<1>1. \A x : Count(a, a, x) = Count(a, a - 1, x) + (IF program[a] = x THEN 1 ELSE 0)
  BY CountStep
<1>2. \A x : Count(a, a - 1, x) = 0
  BY CountNone
<1>3. Depth(a, a) = Count(a, a, "(") - Count(a, a, ")")
  BY DEF Depth, Count
<1> QED BY <1>1, <1>2, <1>3

(* What one more token does to each of the four situations.                  *)
LEMMA BlankStep ==
    ASSUME NEW n \in Nat, NEW i \in 1 .. n
    PROVE  Blank(i, n + 1) <=> i = n \/ (Blank(i, n) /\ program[n] \in {"sp", "quote"})
  BY DEF Blank

LEMMA AfterForStep ==
    ASSUME NEW n \in Nat \ {0}
    PROVE  AfterFor(n + 1) <=> program[n] = "for" \/ (AfterFor(n) /\ program[n] \in {"sp", "quote"})
<1>1. (n + 1) - 1 = n /\ n \in 1 .. n /\ \A l \in 1 .. n : l = n \/ l \in 1 .. n - 1
  OBVIOUS
<1>2. \A l \in 1 .. n : Blank(l, n + 1) <=> l = n \/ (Blank(l, n) /\ program[n] \in {"sp", "quote"})
  BY BlankStep
<1>3. \A l \in 1 .. n - 1 : l \in 1 .. n /\ l # n
  OBVIOUS
<1> QED BY <1>1, <1>2, <1>3 DEF AfterFor

LEMMA AfterDoStep ==
    ASSUME NEW n \in Nat \ {0}
    PROVE  AfterDo(n + 1) <=> program[n] = "do" \/ (AfterDo(n) /\ program[n] \in {"sp", "quote"})
<1>1. (n + 1) - 1 = n /\ n \in 1 .. n /\ \A l \in 1 .. n : l = n \/ l \in 1 .. n - 1
  OBVIOUS
<1>2. \A l \in 1 .. n : Blank(l, n + 1) <=> l = n \/ (Blank(l, n) /\ program[n] \in {"sp", "quote"})
  BY BlankStep
<1>3. \A l \in 1 .. n - 1 : l \in 1 .. n /\ l # n
  OBVIOUS
<1> QED BY <1>1, <1>2, <1>3 DEF AfterDo

LEMMA InHeaderFirst ==
    ASSUME NEW n \in Nat \ {0}
    PROVE  InHeader(n, n + 1) <=> program[n] = "(" /\ AfterFor(n)
<1>1. n \in 1 .. (n + 1) - 1 /\ \A j \in n .. (n + 1) - 1 : j = n
  OBVIOUS
<1>2. program[n] = "(" => Depth(n, n) > 0
  BY DepthFirst
<1> QED BY <1>1, <1>2 DEF InHeader

LEMMA InHeaderStep ==
    ASSUME NEW n \in Nat \ {0}, NEW a \in 1 .. n - 1
    PROVE  InHeader(a, n + 1) <=>
             InHeader(a, n) /\ Depth(a, n) > 0 /\ program[n] \notin {"for", "do"}
<1>1. /\ a \in 1 .. (n + 1) - 1 /\ (n + 1) - 1 = n /\ n \in a .. n
      /\ \A j \in a .. n : j = n \/ j \in a .. n - 1
      /\ \A j \in a .. n - 1 : j \in a .. n
  OBVIOUS
<1> QED BY <1>1 DEF InHeader

LEMMA AfterLoopStep ==
    ASSUME NEW n \in Nat \ {0}
    PROVE  AfterLoop(n + 1) <=>
             \/ AfterLoop(n) /\ program[n] \in {"sp", "quote"}
             \/ \E a \in 1 .. n - 1 :
                   InHeader(a, n) /\ Depth(a, n) = 0 /\ program[n] \notin {"for", "do"}
<1> DEFINE Ends(a, b) == /\ a < b /\ AfterFor(a) /\ Matches(a, b)
                         /\ \A i \in a .. b : program[i] \notin {"for", "do"}
<1>1. AfterLoop(n) <=> \E a, b \in 1 .. n - 1 : Ends(a, b) /\ Blank(b, n)
  BY DEF AfterLoop
<1>2. AfterLoop(n + 1) <=> \E a, b \in 1 .. n : Ends(a, b) /\ Blank(b, n + 1)
  <2>1. (n + 1) - 1 = n
    OBVIOUS
  <2> QED BY <2>1 DEF AfterLoop
<1>3. ASSUME NEW a \in 1 .. n - 1
      PROVE  Ends(a, n) <=> InHeader(a, n) /\ Depth(a, n) = 0 /\ program[n] \notin {"for", "do"}
  <2>1. /\ a < n /\ n \in a .. n /\ \A j \in a .. n : j = n \/ j \in a .. n - 1
        /\ \A j \in a .. n - 1 : j \in a .. n
    OBVIOUS
  <2> QED BY <2>1 DEF InHeader, Matches
<1>4. ASSUME NEW a, NEW b, Ends(a, b), a \in 1 .. n, b \in 1 .. n PROVE a \in 1 .. n - 1
  BY <1>4
<1> HIDE DEF Ends
<1>5. \A b \in 1 .. n : Blank(b, n + 1) <=> b = n \/ (Blank(b, n) /\ program[n] \in {"sp", "quote"})
  BY BlankStep
<1>6. \A b : b \in 1 .. n <=> b = n \/ b \in 1 .. n - 1
  OBVIOUS
<1> QED BY <1>1, <1>2, <1>3, <1>4, <1>5, <1>6

LEMMA LoopBodyMeans ==
    ASSUME NEW k \in Nat
    PROVE  LoopBody(k) <=> program[k] = "{" /\ (AfterDo(k) \/ AfterLoop(k))
<1>1. \A a \in 1 .. k - 1 : AfterFor(a) <=> \E l \in 1 .. k - 1 : l < a /\ program[l] = "for" /\ Blank(l, a)
  <2>1. \A a \in 1 .. k - 1 : \A l : l \in 1 .. a - 1 <=> l \in 1 .. k - 1 /\ l < a
    OBVIOUS
  <2> QED BY <2>1 DEF AfterFor
<1> QED BY <1>1 DEF LoopBody, AfterDo, AfterLoop

(* One token: every situation before the next token follows from the one     *)
(* before this token, which the state of the scanner tells apart.            *)
LEMMA ScanKeeps ==
    ASSUME PollInv, Scan
    PROVE  PollInv'
<1> DEFINE n == next
           c == program[n]
           blank == c \in {"sp", "quote"}
<1>1. /\ n \in Nat \ {0} /\ n <= Len(program) /\ next' = n + 1 /\ program' = program
      /\ program \in Seq(Tokens) /\ n - 1 \in Nat
  <2>1. program \in Seq(Tokens) /\ next \in 1 .. Len(program) + 1
    BY DEF PollInv
  <2>2. next <= Len(program) /\ next' = next + 1 /\ program' = program
    BY Zenon DEF Scan
  <2> QED BY <2>1, <2>2
<1>2. AfterFor(n + 1) <=> c = "for" \/ (inst = "paren" /\ blank)
  BY <1>1, AfterForStep DEF PollInv
<1>3. AfterDo(n + 1) <=> c = "do" \/ (inst = "doblock" /\ blank)
  BY <1>1, AfterDoStep DEF PollInv
<1>4. InHeader(n, n + 1) <=> c = "(" /\ inst = "paren"
  BY <1>1, InHeaderFirst DEF PollInv
<1>5. \A a \in 1 .. n - 1 : InHeader(a, n) =>
         /\ inst = "header" /\ paren_depth = Depth(a, n - 1) /\ paren_depth \in Int /\ paren_depth > 0
         /\ Depth(a, n) = paren_depth + (IF c = "(" THEN 1 ELSE IF c = ")" THEN -1 ELSE 0)
  <2> SUFFICES ASSUME NEW a \in 1 .. n - 1, InHeader(a, n)
               PROVE  /\ inst = "header" /\ paren_depth = Depth(a, n - 1) /\ paren_depth \in Int /\ paren_depth > 0
                      /\ Depth(a, n) = paren_depth + (IF c = "(" THEN 1 ELSE IF c = ")" THEN -1 ELSE 0)
    OBVIOUS
  <2>1. inst = "header" /\ paren_depth = Depth(a, n - 1)
    BY DEF PollInv
  <2>2. a \in Nat /\ a < n /\ n - 1 \in a .. n - 1
    BY <1>1
  <2>3. Depth(a, n - 1) > 0
    BY <2>2 DEF InHeader
  <2> QED BY <1>1, <2>1, <2>2, <2>3, DepthStep
<1>6. inst = "header" => \E a \in 1 .. n - 1 : InHeader(a, n)
  BY DEF PollInv
<1>7. \A a \in 1 .. n - 1 : InHeader(a, n + 1) <=> InHeader(a, n) /\ Depth(a, n) > 0 /\ c \notin {"for", "do"}
  BY <1>1, InHeaderStep
<1>8. AfterLoop(n + 1) <=>
         \/ inst = "block" /\ blank
         \/ \E a \in 1 .. n - 1 : InHeader(a, n) /\ Depth(a, n) = 0 /\ c \notin {"for", "do"}
  BY <1>1, AfterLoopStep DEF PollInv
<1>9. LoopBody(n) <=> c = "{" /\ inst \in {"block", "doblock"}
  BY <1>1, LoopBodyMeans DEF PollInv
<1>10. /\ inst' \in {"none", "paren", "header", "block", "doblock"}
       /\ inst' = "paren" <=> c = "for" \/ (inst = "paren" /\ blank)
       /\ inst' = "doblock" <=> c = "do" \/ (inst = "doblock" /\ blank)
       /\ inst' = "header" <=> \/ c = "(" /\ inst = "paren"
                               \/ inst = "header" /\ c \notin {"for", "do"} /\ ~ (c = ")" /\ paren_depth = 1)
       /\ inst' = "block" <=> \/ inst = "block" /\ blank
                              \/ inst = "header" /\ c = ")" /\ paren_depth = 1
       /\ inst = "header" /\ c \notin {"for", "do"} =>
             paren_depth' = IF c = "(" THEN paren_depth + 1 ELSE IF c = ")" THEN paren_depth - 1 ELSE paren_depth
       /\ inst = "paren" /\ c = "(" => paren_depth' = 1
       /\ polls' = IF c = "{" /\ inst \in {"block", "doblock"} THEN polls \cup {n} ELSE polls
  <2>1. inst \in {"none", "paren", "header", "block", "doblock"}
    BY DEF PollInv
  <2> QED BY <2>1 DEF Scan, AfterHeader
<1>11. ASSUME NEW a \in 1 .. n, InHeader(a, n + 1)
       PROVE  inst' = "header" /\ paren_depth' = Depth(a, n)
  <2>1. CASE a = n
    BY <1>1, <1>4, <1>10, <1>11, <2>1, DepthFirst
  <2>2. CASE a \in 1 .. n - 1
    <3>1. /\ inst = "header" /\ c \notin {"for", "do"} /\ Depth(a, n) > 0 /\ paren_depth \in Int
          /\ Depth(a, n) = paren_depth + (IF c = "(" THEN 1 ELSE IF c = ")" THEN -1 ELSE 0)
      BY <1>5, <1>7, <1>11, <2>2
    <3> QED BY <1>10, <3>1
  <2> QED BY <1>1, <2>1, <2>2
<1>12. inst' = "header" => \E a \in 1 .. n : InHeader(a, n + 1)
  <2> SUFFICES ASSUME inst' = "header" PROVE \E a \in 1 .. n : InHeader(a, n + 1)
    OBVIOUS
  <2>1. CASE c = "(" /\ inst = "paren"
    BY <1>1, <1>4, <2>1
  <2>2. CASE inst = "header" /\ c \notin {"for", "do"} /\ ~ (c = ")" /\ paren_depth = 1)
    <3>1. PICK a \in 1 .. n - 1 : InHeader(a, n)
      BY <1>6, <2>2
    <3>2. Depth(a, n) > 0
      BY <1>5, <2>2, <3>1
    <3> QED BY <1>1, <1>7, <2>2, <3>1, <3>2
  <2> QED BY <1>10, <2>1, <2>2
<1>13. inst' = "block" <=> AfterLoop(n + 1)
  <2>1. ASSUME inst = "header", c = ")", paren_depth = 1 PROVE AfterLoop(n + 1)
    <3>1. PICK a \in 1 .. n - 1 : InHeader(a, n)
      BY <1>6, <2>1
    <3>2. Depth(a, n) = 0
      BY <1>5, <2>1, <3>1
    <3> QED BY <1>8, <2>1, <3>1, <3>2
  <2>2. ASSUME NEW a \in 1 .. n - 1, InHeader(a, n), Depth(a, n) = 0
        PROVE  inst = "header" /\ c = ")" /\ paren_depth = 1
    BY <1>5, <2>2
  <2> QED BY <1>8, <1>10, <2>1, <2>2
<1>14. polls' = {k \in 1 .. n : LoopBody(k)}
  <2>1. polls = {k \in 1 .. n - 1 : LoopBody(k)}
    BY DEF PollInv
  <2>2. \A k : k \in 1 .. n <=> k = n \/ k \in 1 .. n - 1
    BY <1>1
  <2> QED BY <1>9, <1>10, <2>1, <2>2
<1>15. /\ AfterFor(next)' <=> AfterFor(n + 1)
       /\ AfterDo(next)' <=> AfterDo(n + 1)
       /\ AfterLoop(next)' <=> AfterLoop(n + 1)
       /\ \A a : InHeader(a, next)' <=> InHeader(a, n + 1)
       /\ \A a : Depth(a, next - 1)' = Depth(a, n)
       /\ \A k : LoopBody(k)' <=> LoopBody(k)
       /\ next' - 1 = n
  <2>1. next' = n + 1 /\ program' = program /\ next' - 1 = n
    BY <1>1
  <2>2. /\ \A i, j : Blank(i, j)' <=> Blank(i, j)
        /\ \A a, j : Depth(a, j)' = Depth(a, j)
    BY <2>1 DEF Blank, Depth
  <2> QED BY <2>1
         DEF AfterFor, AfterDo, AfterLoop, InHeader, LoopBody, Matches, Blank, Depth
<1>16. (program \in Seq(Tokens))' /\ (next \in 1 .. Len(program) + 1)'
  BY <1>1
<1>17. /\ (inst = "paren" <=> AfterFor(next))' /\ (inst = "doblock" <=> AfterDo(next))'
       /\ (inst = "block" <=> AfterLoop(next))'
       /\ (inst \in {"none", "paren", "header", "block", "doblock"})'
  BY <1>2, <1>3, <1>10, <1>13, <1>15
<1>18. /\ (inst = "header" <=> \E a \in 1 .. next - 1 : InHeader(a, next))'
       /\ (\A a \in 1 .. next - 1 : InHeader(a, next) => paren_depth = Depth(a, next - 1))'
  BY <1>11, <1>12, <1>15
<1>19. (polls = {k \in 1 .. next - 1 : LoopBody(k)})'
  BY <1>14, <1>15
<1> QED
  BY <1>16, <1>17, <1>18, <1>19 DEF PollInv


(* A scan that starts, and one that has read all.                            *)
Fresh == program \in Seq(Tokens) /\ next = 1 /\ inst = "none" /\ polls = {}

LEMMA PollStart == Fresh => PollInv
<1> SUFFICES ASSUME program \in Seq(Tokens), next = 1, inst = "none", polls = {} PROVE PollInv
  BY DEF Fresh
<1>1. next \in 1 .. Len(program) + 1 /\ next - 1 = 0 /\ \A k : k \notin 1 .. next - 1
  OBVIOUS
<1>2. ~AfterFor(next) /\ ~AfterDo(next) /\ ~AfterLoop(next)
  BY <1>1 DEF AfterFor, AfterDo, AfterLoop
<1> QED BY <1>1, <1>2 DEF PollInv

LEMMA PollEnd == PollInv => PollsInLoops
<1> SUFFICES ASSUME PollInv, next > Len(program)
             PROVE  polls = { k \in 1 .. Len(program) : LoopBody(k) }
  BY DEF PollsInLoops
<1>1. program \in Seq(Tokens) /\ next \in 1 .. Len(program) + 1
  BY DEF PollInv
<1>2. next - 1 = Len(program)
  BY <1>1
<1> QED BY <1>2 DEF PollInv

-----------------------------------------------------------------------------
(* The line table: every entry is the span of a row or a probe inside one.   *)

Row == [pc : Nat, line : Nat, real : BOOLEAN]

Entry == [pc : Nat, end : Nat, line : Nat, quality : {1, 2}]

\* row i gives address pc its line
Covers(rs, i, pc) ==
    i \in 1 .. Len(rs) - 1 /\ rs[i].real /\ rs[i].pc <= pc /\ pc < rs[i + 1].pc

SpanOf(rs, e, i) ==
    Covers(rs, i, e.pc) /\ e.pc = rs[i].pc /\ e.end = rs[i + 1].pc /\ e.line = rs[i].line

ProbeOf(rs, e, i) ==
    Covers(rs, i, e.pc) /\ e.end = 0 /\ e.quality = 2 /\ e.line = rs[i].line

GoodEntry(rs, e) == \E i \in 1 .. Len(rs) - 1 : SpanOf(rs, e, i) \/ ProbeOf(rs, e, i)

RowsInv ==
    /\ addr \in Nat /\ rows \in Seq(Row)
    /\ \A i, j \in 1 .. Len(rows) : i <= j => rows[i].pc <= rows[j].pc
    /\ \A i \in 1 .. Len(rows) : rows[i].pc <= addr

\* until the program ends, the open range belongs to the last row
OpenInv ==
    ~built => pending = IF Len(rows) > 0 /\ rows[Len(rows)].real THEN rows[Len(rows)] ELSE NoRow

TableInv ==
    /\ table \in Seq(Entry) /\ Len(table) <= JIT_DEBUG_LINE_MAP_MAX
    /\ map_next \in 1 .. JIT_DEBUG_LINE_MAP_MAX
    /\ \A k \in 1 .. Len(table) : GoodEntry(rows, table[k])

LineInv == RowsInv /\ OpenInv /\ TableInv

(* jit_debug_record_line_span replaces an entry or adds one.                 *)
LEMMA RecordKeeps ==
    ASSUME NEW t \in Seq(Entry), NEW e \in Entry, Len(t) <= JIT_DEBUG_LINE_MAP_MAX,
           map_next \in 1 .. JIT_DEBUG_LINE_MAP_MAX
    PROVE  /\ Record(t, e) \in Seq(Entry) /\ Len(Record(t, e)) <= JIT_DEBUG_LINE_MAP_MAX
           /\ \A k \in 1 .. Len(Record(t, e)) :
                 Record(t, e)[k] = e \/ \E l \in 1 .. Len(t) : Record(t, e)[k] = t[l]
<1> DEFINE same == { i \in 1 .. Len(t) : t[i].pc = e.pc /\ t[i].end = e.end }
           r == Record(t, e)
<1>0. JIT_DEBUG_LINE_MAP_MAX \in Nat /\ Len(t) \in Nat /\ \A k \in 1 .. Len(t) : t[k] \in Entry
  BY LineAssumption
<1>1. CASE same # {}
  <2>1. r = [i \in 1 .. Len(t) |-> IF i \in same /\ e.quality >= t[i].quality THEN e ELSE t[i]]
    BY <1>1 DEF Record
  <2> HIDE DEF same
  <2>2. \A i \in 1 .. Len(t) : r[i] \in {e, t[i]}
    BY <2>1
  <2>3. r \in [1 .. Len(t) -> Entry]
    BY <1>0, <2>1
  <2>4. r \in Seq(Entry) /\ Len(r) = Len(t)
    BY <1>0, <2>1, <2>3
  <2> QED BY <2>2, <2>4
<1>2. CASE same = {} /\ Len(t) < JIT_DEBUG_LINE_MAP_MAX
  <2>1. r = Append(t, e)
    BY <1>2 DEF Record
  <2>2. r \in Seq(Entry) /\ Len(r) = Len(t) + 1 /\ \A k \in 1 .. Len(t) + 1 : r[k] = IF k = Len(t) + 1 THEN e ELSE t[k]
    BY <2>1
  <2>3. \A k \in 1 .. Len(t) + 1 : k = Len(t) + 1 \/ k \in 1 .. Len(t)
    BY <1>0
  <2> QED BY <1>0, <1>2, <2>2, <2>3
<1>3. CASE same = {} /\ ~(Len(t) < JIT_DEBUG_LINE_MAP_MAX)
  <2>1. r = [t EXCEPT ![map_next] = e]
    BY <1>3 DEF Record
  <2>2. map_next \in 1 .. Len(t)
    BY <1>0, <1>3
  <2> QED BY <1>0, <2>1, <2>2
<1> QED BY <1>1, <1>2, <1>3

(* A good entry stored in a good table leaves a good table.                  *)
LEMMA StoreKeeps ==
    ASSUME TableInv, NEW e \in Entry, Store(e), rows' \in Seq(Row),
           \A x : GoodEntry(rows, x) => GoodEntry(rows', x), GoodEntry(rows', e)
    PROVE  TableInv'
<1>1. /\ table' = Record(table, e) /\ map_next' \in {map_next, (map_next % JIT_DEBUG_LINE_MAP_MAX) + 1}
  BY DEF Store
<1>2. map_next' \in 1 .. JIT_DEBUG_LINE_MAP_MAX
  BY <1>1, LineAssumption DEF TableInv
<1>3. /\ table' \in Seq(Entry) /\ Len(table') <= JIT_DEBUG_LINE_MAP_MAX
      /\ \A k \in 1 .. Len(table') : table'[k] = e \/ \E l \in 1 .. Len(table) : table'[k] = table[l]
  BY <1>1, RecordKeeps DEF TableInv
<1>4. \A l \in 1 .. Len(table) : GoodEntry(rows, table[l])
  BY DEF TableInv
<1>5. \A k \in 1 .. Len(table') : GoodEntry(rows', table'[k])
  BY <1>3, <1>4
<1> QED BY <1>2, <1>3, <1>5 DEF TableInv

LEMMA RowTypes ==
    ASSUME RowsInv
    PROVE  Len(rows) \in Nat /\ \A i \in 1 .. Len(rows) : rows[i] \in Row /\ rows[i].pc \in Nat
<1>1. Len(rows) \in Nat /\ \A i \in 1 .. Len(rows) : rows[i] \in Row
  BY DEF RowsInv
<1>2. \A x \in Row : x.pc \in Nat
  BY DEF Row
<1> QED BY <1>1, <1>2

(* A row at or behind all others takes nothing from the entries before it.   *)
LEMMA RowAdded ==
    ASSUME RowsInv, NEW r \in Row, r.pc >= addr, rows' = Append(rows, r), addr' = r.pc
    PROVE  /\ RowsInv' /\ rows' \in Seq(Row) /\ Len(rows') = Len(rows) + 1
           /\ rows'[Len(rows) + 1] = r /\ \A i \in 1 .. Len(rows) : rows'[i] = rows[i]
           /\ \A e : GoodEntry(rows, e) => GoodEntry(rows', e)
<1>1. /\ rows \in Seq(Row) /\ Len(rows) \in Nat /\ addr \in Nat /\ r.pc \in Nat
      /\ \A i \in 1 .. Len(rows) : rows[i] \in Row /\ rows[i].pc \in Nat
  BY RowTypes DEF RowsInv, Row
<1>2. /\ rows' \in Seq(Row) /\ Len(rows') = Len(rows) + 1
      /\ rows'[Len(rows) + 1] = r /\ \A i \in 1 .. Len(rows) : rows'[i] = rows[i]
  BY <1>1
<1>3. \A i \in 1 .. Len(rows') : i \in 1 .. Len(rows) \/ i = Len(rows) + 1
  BY <1>1, <1>2
<1>4. \A i \in 1 .. Len(rows') : rows'[i].pc \in Nat /\ rows'[i].pc <= r.pc
  BY <1>1, <1>2, <1>3 DEF RowsInv
<1>5. \A i, j \in 1 .. Len(rows') : i <= j => rows'[i].pc <= rows'[j].pc
  BY <1>1, <1>2, <1>3, <1>4 DEF RowsInv
<1>6. RowsInv'
  BY <1>1, <1>2, <1>4, <1>5 DEF RowsInv
<1>7. ASSUME NEW e, NEW i, SpanOf(rows, e, i) \/ ProbeOf(rows, e, i), i \in 1 .. Len(rows) - 1
      PROVE  i \in 1 .. Len(rows') - 1 /\ (SpanOf(rows', e, i) \/ ProbeOf(rows', e, i))
  <2>1. i \in 1 .. Len(rows) /\ i + 1 \in 1 .. Len(rows) /\ i \in 1 .. Len(rows') - 1
    BY <1>1, <1>2, <1>7
  <2>2. rows'[i] = rows[i] /\ rows'[i + 1] = rows[i + 1]
    BY <1>2, <2>1
  <2> QED BY <1>7, <2>1, <2>2 DEF SpanOf, ProbeOf, Covers
<1>8. ASSUME NEW e, GoodEntry(rows, e) PROVE GoodEntry(rows', e)
  <2>1. PICK i \in 1 .. Len(rows) - 1 : SpanOf(rows, e, i) \/ ProbeOf(rows, e, i)
    BY <1>8 DEF GoodEntry
  <2> QED BY <1>7, <2>1 DEF GoodEntry
<1> QED BY <1>2, <1>6, <1>8

(* The row that closes the open range.                                       *)
LEMMA RowCloses ==
    ASSUME LineInv, ~built, NEW r \in Row, r.pc >= addr, rows' = Append(rows, r), addr' = r.pc,
           EmitPending(r.pc)
    PROVE  RowsInv' /\ TableInv'
<1>1. /\ RowsInv' /\ rows' \in Seq(Row) /\ Len(rows') = Len(rows) + 1
      /\ rows'[Len(rows) + 1] = r /\ \A i \in 1 .. Len(rows) : rows'[i] = rows[i]
      /\ \A e : GoodEntry(rows, e) => GoodEntry(rows', e)
  BY RowAdded DEF LineInv
<1>2. CASE pending # NoRow /\ r.pc > pending.pc
  <2> DEFINE n == Len(rows)
             e == PendingSpan(pending, r.pc)
  <2>1. n \in Nat /\ n > 0 /\ pending = rows[n] /\ rows[n].real /\ rows[n] \in Row
    BY <1>2 DEF LineInv, OpenInv, RowsInv
  <2>2. /\ e \in Entry /\ e.pc = rows[n].pc /\ e.end = r.pc /\ e.line = rows[n].line
        /\ e.pc \in Nat /\ e.pc < r.pc
    BY <1>2, <2>1 DEF PendingSpan, Entry, Row
  <2>3. rows'[n] = rows[n] /\ rows'[n + 1] = r /\ n \in 1 .. Len(rows') - 1
    BY <1>1, <2>1
  <2>4. SpanOf(rows', e, n)
    BY <2>1, <2>2, <2>3 DEF SpanOf, Covers, PendingSpan
  <2>5. GoodEntry(rows', e)
    BY <2>3, <2>4 DEF GoodEntry
  <2>6. Store(e)
    BY <1>2 DEF EmitPending
  <2> QED BY <1>1, <2>2, <2>5, <2>6, StoreKeeps DEF LineInv
<1>3. CASE ~(pending # NoRow /\ r.pc > pending.pc)
  <2>1. table' = table /\ map_next' = map_next
    BY <1>3 DEF EmitPending
  <2>2. \A k \in 1 .. Len(table') : GoodEntry(rows', table'[k])
    BY <1>1, <2>1 DEF LineInv, TableInv
  <2> QED BY <1>1, <2>1, <2>2 DEF LineInv, TableInv
<1> QED BY <1>2, <1>3

LEMMA LineKeeps ==
    ASSUME LineInv, LineNext
    PROVE  LineInv'
<1>1. ASSUME NEW pc \in TextAddrs, NEW line \in Lines, NEW real \in BOOLEAN, CommitRow(pc, line, real)
      PROVE  LineInv'
  <2> DEFINE r == [pc |-> pc, line |-> line, real |-> real]
  <2>1. r \in Row /\ r.pc = pc /\ r.real = real
    BY LineAssumption DEF Row
  <2>2. /\ ~built /\ pc >= addr /\ EmitPending(pc) /\ rows' = Append(rows, r) /\ addr' = pc
        /\ pending' = IF real THEN [pc |-> pc, line |-> line, real |-> TRUE] ELSE NoRow
    BY <1>1 DEF CommitRow
  <2>3. RowsInv' /\ TableInv'
    BY <2>1, <2>2, RowCloses
  <2>4. Len(rows') > 0 /\ rows'[Len(rows')] = r
    BY <2>1, <2>2 DEF LineInv, RowsInv
  <2>5. OpenInv'
    BY <2>1, <2>2, <2>4 DEF OpenInv
  <2> QED BY <2>3, <2>5 DEF LineInv
<1>2. ASSUME NEW pc \in TextAddrs, EndSequence(pc)
      PROVE  LineInv'
  <2> DEFINE r == [pc |-> pc, line |-> 0, real |-> FALSE]
  <2>1. r \in Row /\ r.pc = pc
    BY LineAssumption DEF Row
  <2>2. ~built /\ pc >= addr /\ EmitPending(pc) /\ rows' = Append(rows, r) /\ addr' = pc /\ built'
    BY <1>2 DEF EndSequence
  <2>3. RowsInv' /\ TableInv'
    BY <2>1, <2>2, RowCloses
  <2> QED BY <2>2, <2>3 DEF LineInv, OpenInv
<1>3. ASSUME NEW pc \in TextAddrs, NEW line \in Lines, ProbeLine(pc, line)
      PROVE  LineInv'
  <2> DEFINE e == [pc |-> pc, end |-> 0, line |-> line, quality |-> 2]
  <2>1. /\ addr' = addr /\ pending' = pending /\ rows' = rows /\ built' = built /\ built /\ Store(e)
        /\ \E i \in 1 .. Len(rows) - 1 :
              rows[i].real /\ rows[i].line = line /\ rows[i].pc <= pc /\ pc < rows[i + 1].pc
    BY <1>3 DEF ProbeLine
  <2>2. RowsInv' /\ OpenInv' /\ rows' \in Seq(Row)
    BY <2>1 DEF LineInv, RowsInv, OpenInv
  <2>3. e \in Entry
    BY LineAssumption DEF Entry
  <2>4. \A x : GoodEntry(rows', x) <=> GoodEntry(rows, x)
    BY <2>1 DEF GoodEntry, SpanOf, ProbeOf, Covers
  <2>5. GoodEntry(rows, e)
    BY <2>1 DEF GoodEntry, ProbeOf, Covers
  <2>6. TableInv'
    BY <2>1, <2>2, <2>3, <2>4, <2>5, StoreKeeps DEF LineInv
  <2> QED BY <2>2, <2>6 DEF LineInv
<1> QED BY <1>1, <1>2, <1>3 DEF LineNext

(* An address lies in the span of one row, and that row is its line.         *)
LEMMA CoversOnce ==
    ASSUME RowsInv, NEW pc \in Nat, NEW i, NEW j, Covers(rows, i, pc), Covers(rows, j, pc)
    PROVE  i = j
<1>1. /\ Len(rows) \in Nat /\ i \in 1 .. Len(rows) - 1 /\ j \in 1 .. Len(rows) - 1
      /\ \A k \in 1 .. Len(rows) : rows[k].pc \in Nat
  BY RowTypes DEF Covers
<1>2. /\ i \in 1 .. Len(rows) /\ i + 1 \in 1 .. Len(rows)
      /\ j \in 1 .. Len(rows) /\ j + 1 \in 1 .. Len(rows)
      /\ rows[i].pc <= pc /\ pc < rows[i + 1].pc /\ rows[j].pc <= pc /\ pc < rows[j + 1].pc
  BY <1>1 DEF Covers
<1>3. ~(i + 1 <= j) /\ ~(j + 1 <= i)
  <2>1. i + 1 <= j => rows[i + 1].pc <= rows[j].pc
    BY <1>2 DEF RowsInv
  <2>2. j + 1 <= i => rows[j + 1].pc <= rows[i].pc
    BY <1>2 DEF RowsInv
  <2> QED BY <1>1, <1>2, <2>1, <2>2, SMTT(30)
<1> QED BY <1>1, <1>3

LEMMA CoveredLine ==
    ASSUME RowsInv, NEW pc \in Nat, NEW i, Covers(rows, i, pc)
    PROVE  LineOf(pc) = rows[i].line
<1> DEFINE before == { k \in 1 .. Len(rows) : rows[k].pc <= pc }
           c == CHOOSE m \in before : \A k \in before : k <= m
<1>1. /\ Len(rows) \in Nat /\ i \in 1 .. Len(rows) - 1 /\ rows[i].real
      /\ \A k \in 1 .. Len(rows) : rows[k].pc \in Nat
      /\ rows[i].pc <= pc /\ pc < rows[i + 1].pc
  BY RowTypes DEF Covers
<1>2. \A k \in before : k <= i
  <2> SUFFICES ASSUME NEW k \in before, ~(k <= i) PROVE FALSE
    OBVIOUS
  <2>1. k \in 1 .. Len(rows) /\ i + 1 \in 1 .. Len(rows) /\ i + 1 <= k /\ rows[k].pc <= pc
    BY <1>1
  <2>2. rows[i + 1].pc <= rows[k].pc
    BY <2>1 DEF RowsInv
  <2> QED BY <1>1, <2>1, <2>2
<1>3. i \in before /\ \A k \in before : k \in Int
  BY <1>1
<1>4. LineOf(pc) = IF before = {} \/ ~rows[c].real THEN 0 ELSE rows[c].line
  BY DEF LineOf
<1> HIDE DEF before
<1>5. c \in before /\ \A k \in before : k <= c
  BY <1>2, <1>3
<1> HIDE DEF c
<1>6. c = i
  BY <1>2, <1>3, <1>5
<1> QED BY <1>1, <1>3, <1>4, <1>6

(* jit_debug_lookup_line_pc_entry: entries that hold an address have its     *)
(* line, and all spans among them are the same.                              *)
LEMMA LookupRight ==
    ASSUME LineInv, NEW pc \in Nat
    PROVE  Lookup(pc) \in {LineOf(pc), 0}
<1> DEFINE ranges == { i \in 1 .. Len(table) : table[i].pc <= pc /\ pc < table[i].end }
           exact  == { i \in 1 .. Len(table) : table[i].pc = pc /\ i \notin ranges }
           Inner(i, j) == \/ table[i].pc > table[j].pc
                          \/ table[i].pc = table[j].pc /\ table[i].end <= table[j].end
           a == CHOOSE i \in ranges : \A j \in ranges : Inner(i, j)
           b == CHOOSE i \in exact : \A j \in exact : table[i].quality >= table[j].quality
<1>0. RowsInv /\ \A k \in 1 .. Len(table) :
         /\ table[k] \in Entry /\ table[k].pc \in Nat /\ table[k].end \in Nat
         /\ \E i : i \in 1 .. Len(rows) - 1 /\ (SpanOf(rows, table[k], i) \/ ProbeOf(rows, table[k], i))
  <2>1. RowsInv /\ \A k \in 1 .. Len(table) : table[k] \in Entry /\ GoodEntry(rows, table[k])
    BY DEF LineInv, TableInv
  <2> QED BY <2>1 DEF Entry, GoodEntry
<1>1. ASSUME NEW k \in ranges
      PROVE  \E i : /\ Covers(rows, i, pc) /\ table[k].line = rows[i].line
                    /\ table[k].pc = rows[i].pc /\ table[k].end = rows[i + 1].pc
  <2>1. k \in 1 .. Len(table) /\ table[k].pc <= pc /\ pc < table[k].end
    OBVIOUS
  <2>2. PICK i : i \in 1 .. Len(rows) - 1 /\ (SpanOf(rows, table[k], i) \/ ProbeOf(rows, table[k], i))
    BY <1>0, <2>1
  <2>3. table[k].end # 0 /\ SpanOf(rows, table[k], i)
    BY <2>1, <2>2 DEF ProbeOf
  <2> QED BY <2>1, <2>3 DEF SpanOf, Covers
<1>2. ASSUME NEW k \in exact
      PROVE  table[k].quality = 2 /\ \E i : Covers(rows, i, pc) /\ table[k].line = rows[i].line
  <2>1. k \in 1 .. Len(table) /\ table[k].pc = pc /\ ~(table[k].pc <= pc /\ pc < table[k].end)
    OBVIOUS
  <2>2. PICK i : i \in 1 .. Len(rows) - 1 /\ (SpanOf(rows, table[k], i) \/ ProbeOf(rows, table[k], i))
    BY <1>0, <2>1
  <2>3. ~SpanOf(rows, table[k], i)
    BY <2>1 DEF SpanOf, Covers
  <2> QED BY <2>1, <2>2, <2>3 DEF ProbeOf
<1>3. Lookup(pc) = IF ranges # {} THEN table[a].line ELSE IF exact # {} THEN table[b].line ELSE 0
  BY DEF Lookup
<1>4. ASSUME NEW k, k \in ranges \/ k \in exact PROVE table[k].line = LineOf(pc)
  <2>1. PICK i : Covers(rows, i, pc) /\ table[k].line = rows[i].line
    BY <1>1, <1>2, <1>4
  <2> QED BY <1>0, <2>1, CoveredLine
<1>5. ASSUME NEW i \in ranges, NEW j \in ranges PROVE Inner(i, j)
  <2>1. PICK p : /\ Covers(rows, p, pc) /\ table[i].pc = rows[p].pc /\ table[i].end = rows[p + 1].pc
    BY <1>1
  <2>2. PICK q : /\ Covers(rows, q, pc) /\ table[j].pc = rows[q].pc /\ table[j].end = rows[q + 1].pc
    BY <1>1
  <2>3. p = q
    BY <1>0, <2>1, <2>2, CoversOnce
  <2>4. table[i].end \in Nat
    BY <1>0
  <2> QED BY <2>1, <2>2, <2>3, <2>4
<1>6. \A i, j \in exact : table[i].quality >= table[j].quality
  BY <1>2
<1> HIDE DEF ranges, exact, Inner
<1>7. ranges # {} => a \in ranges
  BY <1>5
<1>8. exact # {} => b \in exact
  BY <1>6
<1> HIDE DEF a, b
<1> QED BY <1>3, <1>4, <1>7, <1>8

LEMMA LineStart == LineInit => LineInv
<1> SUFFICES ASSUME LineInit PROVE LineInv
  OBVIOUS
<1>1. /\ addr = 1 /\ pending = NoRow /\ rows = <<>> /\ table = <<>> /\ map_next = 1
      /\ Len(rows) = 0 /\ Len(table) = 0
  BY DEF LineInit
<1>2. RowsInv /\ OpenInv
  BY <1>1 DEF RowsInv, OpenInv
<1>3. TableInv
  BY <1>1, LineAssumption DEF TableInv
<1> QED BY <1>2, <1>3 DEF LineInv

LEMMA LineEnd == LineInv => LineNeverWrong
  BY LookupRight, LineAssumption DEF LineNeverWrong


-----------------------------------------------------------------------------
(* jit_expand_source_recursive: what has been passed is in the text, what is *)
(* on the stack is being read.                                               *)

Marks(f, n) == { m \in 1 .. n - 1 : world[f][m].k \in {"open", "close"} }

\* line n of f lies in a block comment
Commented(f, n) ==
    ~(Marks(f, n) = {} \/ \E m \in Marks(f, n) : world[f][m].k = "close" /\ \A l \in Marks(f, n) : l <= m)

FrameType == [file : DOMAIN world, pos : Nat, comment : BOOLEAN, at : {"line", "auto", "newline"}]

FilesOf(fr) == { fr[i].file : i \in 1 .. Len(fr) }

Copies(o) == { i \in 1 .. Len(o) : o[i].k \in {"decl", "stmt", "open", "close", "include"} }

\* every frame below the top waits at an include the scanner sees; no file is
\* read twice
FrameOk(x, sn) ==
    /\ x \in FrameType /\ x.file \in sn /\ x.pos \in 1 .. Len(world[x.file]) + 1
    /\ x.comment <=> Commented(x.file, x.pos)
    /\ x.at # "line" => x.pos <= Len(world[x.file]) /\ SeesInclude(x.file, x.pos)

Stacked(fr, sn) ==
    /\ fr \in Seq(FrameType) /\ Len(fr) > 0 /\ sn \subseteq DOMAIN world
    /\ \A i \in 1 .. Len(fr) : FrameOk(fr[i], sn) /\ (i # Len(fr) => fr[i].at # "line")
    /\ \A i, j \in 1 .. Len(fr) : fr[i].file = fr[j].file => i = j

IncludeAt(x) == world[x.file][x.pos].inc

\* the file of an include is the frame above, or it is finished
Included(fr, sn) ==
    \A i \in 1 .. Len(fr) :
        /\ fr[i].at = "newline" => IncludeAt(fr[i]) \in sn \ FilesOf(fr)
        /\ fr[i].at = "auto" => /\ IncludeAt(fr[i]) \in sn
                                /\ i = Len(fr) => IncludeAt(fr[i]) \notin FilesOf(fr)
                                /\ i # Len(fr) => IncludeAt(fr[i]) = fr[i + 1].file

\* the expansion is behind line n of file f
Passed(fr, sn, f, n) ==
    /\ f \in sn /\ n \in 1 .. Len(world[f])
    /\ \A i \in 1 .. Len(fr) : fr[i].file = f => n < fr[i].pos

CopyOf(o, f, n) == \E i \in Copies(o) : o[i].file = f /\ o[i].line = n

\* what the text has of line n of file f once it is passed
InText(fr, sn, o, f, n) ==
    IF SeesInclude(f, n)
    THEN /\ world[f][n].inc \in sn \ FilesOf(fr)
         /\ \A i, j \in Copies(o) :
               o[i].file = world[f][n].inc /\ o[j].file = f /\ o[j].line > n => i < j
    ELSE CopyOf(o, f, n)

Text(fr, sn, o) ==
    /\ \A i \in Copies(o) : Passed(fr, sn, o[i].file, o[i].line)
    /\ \A i, j \in Copies(o) : o[i].file = o[j].file /\ o[i].line = o[j].line => i = j
    /\ \A f \in sn : \A n \in 1 .. Len(world[f]) : Passed(fr, sn, f, n) => InText(fr, sn, o, f, n)

OutLine == [k : {"decl", "stmt", "open", "close", "include", "#line", "probe", "blank"},
            file : DOMAIN world, line : Nat, num : Int]

Counted(o) ==
    /\ o \in Seq(OutLine)
    /\ debug => \A i \in Copies(o) : o[i].num = o[i].line + (IF i > 1 /\ o[i - 1].k = "probe" THEN 1 ELSE 0)

Expanding(fr, sn, o) == Stacked(fr, sn) /\ Included(fr, sn) /\ Text(fr, sn, o) /\ Counted(o)

WorldOk == \A f \in DOMAIN world : world[f] \in Seq(SourceLine)

SourceInv ==
    /\ expanded = "run" => WorldOk /\ counter \in Int /\ Expanding(frames, seen, out)
    /\ TextComplete

(* The comment flag after one more line.                                     *)
LEMMA CommentedStep ==
    ASSUME NEW f, NEW n \in Nat \ {0}
    PROVE  Commented(f, n + 1) <=> \/ world[f][n].k = "open"
                                   \/ Commented(f, n) /\ world[f][n].k # "close"
<1> DEFINE M == Marks(f, n)
           N == Marks(f, n + 1)
<1>1. /\ \A m \in M : m \in 1 .. n - 1 /\ m \in N
      /\ \A m \in N : m \in M \/ m = n
      /\ n \in N <=> world[f][n].k \in {"open", "close"}
      /\ n \notin M /\ \A m \in M : m \in Int /\ m < n
  BY DEF Marks
<1> HIDE DEF M, N
<1>2. CASE world[f][n].k \in {"open", "close"}
  <2>1. n \in N /\ \A m \in N : (\A l \in N : l <= m) => m = n
    BY <1>1, <1>2
  <2>2. \A l \in N : l <= n
    BY <1>1
  <2> QED BY <1>2, <2>1, <2>2 DEF Commented, N
<1>3. CASE world[f][n].k \notin {"open", "close"}
  <2>1. M = N
    BY <1>1, <1>3
  <2> QED BY <1>3, <2>1 DEF Commented, M, N
<1> QED BY <1>2, <1>3

LEMMA CommentedFirst ==
    ASSUME NEW f
    PROVE  ~Commented(f, 1)
  BY DEF Commented, Marks

LEMMA SeesMeans ==
    ASSUME NEW f, NEW n
    PROVE  SeesInclude(f, n) <=> world[f][n].k = "include" /\ ~Commented(f, n)
  BY DEF SeesInclude, Commented, Marks

(* The top frame replaced by one of the same file.                           *)
LEMMA TopChanged ==
    ASSUME NEW fr, NEW sn, Stacked(fr, sn), NEW t, FrameOk(t, sn), t.file = fr[Len(fr)].file
    PROVE  LET r == [fr EXCEPT ![Len(fr)] = t] IN
           /\ Stacked(r, sn) /\ FilesOf(r) = FilesOf(fr) /\ Len(r) = Len(fr)
           /\ r[Len(fr)] = t /\ \A i \in 1 .. Len(fr) : i # Len(fr) => r[i] = fr[i]
           /\ \A i \in 1 .. Len(fr) : r[i].file = fr[i].file
<1> DEFINE r == [fr EXCEPT ![Len(fr)] = t]
<1>0. /\ fr \in Seq(FrameType) /\ Len(fr) \in Nat /\ Len(fr) > 0 /\ Len(fr) \in 1 .. Len(fr) /\ t \in FrameType
  BY DEF Stacked, FrameOk
<1>1. r \in Seq(FrameType) /\ Len(r) = Len(fr) /\ r[Len(fr)] = t /\ \A i \in 1 .. Len(fr) : i # Len(fr) => r[i] = fr[i]
  BY <1>0
<1> HIDE DEF r
<1>2. \A i \in 1 .. Len(fr) : r[i].file = fr[i].file
  BY <1>1
<1>3. FilesOf(r) = FilesOf(fr)
  BY <1>1, <1>2 DEF FilesOf
<1>4. Stacked(r, sn)
  BY <1>0, <1>1, <1>2 DEF Stacked
<1> QED BY <1>1, <1>2, <1>3, <1>4 DEF r

(* The text stays as it is and so does what is passed.                       *)
SameCopies(o, o2) == Copies(o2) = Copies(o) /\ \A i \in Copies(o) : o2[i] = o[i]

LEMMA TextSame ==
    ASSUME NEW fr, NEW sn, NEW o, NEW fr2, NEW sn2, NEW o2, Text(fr, sn, o), SameCopies(o, o2),
           \A f, n : Passed(fr2, sn2, f, n) <=> Passed(fr, sn, f, n),
           sn \subseteq sn2, \A f \in sn : f \notin FilesOf(fr) => f \notin FilesOf(fr2)
    PROVE  Text(fr2, sn2, o2)
<1>1. Copies(o2) = Copies(o) /\ \A i \in Copies(o) : o2[i] = o[i]
  BY DEF SameCopies
<1>2. \A i \in Copies(o2) : Passed(fr2, sn2, o2[i].file, o2[i].line)
  BY <1>1 DEF Text
<1>3. \A i, j \in Copies(o2) : o2[i].file = o2[j].file /\ o2[i].line = o2[j].line => i = j
  BY <1>1 DEF Text
<1>4. ASSUME NEW f, NEW n, Passed(fr2, sn2, f, n) PROVE InText(fr2, sn2, o2, f, n)
  <2>1. Passed(fr, sn, f, n) /\ f \in sn /\ n \in 1 .. Len(world[f])
    BY <1>4 DEF Passed
  <2>2. InText(fr, sn, o, f, n)
    BY <2>1 DEF Text
  <2> QED BY <1>1, <2>2 DEF InText, CopyOf
<1> QED BY <1>2, <1>3, <1>4 DEF Text

(* One more line is passed: line P of the file F that is being read.         *)
OneMore(fr, fr2, sn, F, P) ==
    /\ \A f, n : Passed(fr2, sn, f, n) <=> Passed(fr, sn, f, n) \/ (f = F /\ n = P)
    /\ \A n : Passed(fr, sn, F, n) => n < P
    /\ FilesOf(fr2) = FilesOf(fr) /\ F \in FilesOf(fr)

LEMMA TextPastInclude ==
    ASSUME NEW fr, NEW sn, NEW o, NEW fr2, NEW o2, NEW F, NEW P \in Nat, Text(fr, sn, o), SameCopies(o, o2),
           OneMore(fr, fr2, sn, F, P), SeesInclude(F, P), world[F][P].inc \in sn \ FilesOf(fr)
    PROVE  Text(fr2, sn, o2)
<1>1. Copies(o2) = Copies(o) /\ \A i \in Copies(o) : o2[i] = o[i]
  BY DEF SameCopies
<1>2. \A f, n : Passed(fr2, sn, f, n) <=> Passed(fr, sn, f, n) \/ (f = F /\ n = P)
  BY DEF OneMore
<1>3. \A i \in Copies(o2) : Passed(fr2, sn, o2[i].file, o2[i].line)
  BY <1>1, <1>2 DEF Text
<1>4. \A i, j \in Copies(o2) : o2[i].file = o2[j].file /\ o2[i].line = o2[j].line => i = j
  BY <1>1 DEF Text
<1>5. ASSUME NEW f, NEW n, Passed(fr2, sn, f, n) PROVE InText(fr2, sn, o2, f, n)
  <2>1. CASE Passed(fr, sn, f, n)
    <3>1. f \in sn /\ n \in 1 .. Len(world[f])
      BY <2>1 DEF Passed
    <3>2. InText(fr, sn, o, f, n)
      BY <2>1, <3>1 DEF Text
    <3> QED BY <1>1, <3>2 DEF InText, CopyOf, OneMore
  <2>2. CASE f = F /\ n = P
    <3>1. \A j \in Copies(o2) : o2[j].file = F => o2[j].line < P /\ o2[j].line \in Int
      <4>1. \A j \in Copies(o) : Passed(fr, sn, o[j].file, o[j].line)
        BY DEF Text
      <4>2. \A m : Passed(fr, sn, F, m) => m < P /\ m \in Int
        BY DEF OneMore, Passed
      <4> QED BY <1>1, <4>1, <4>2
    <3>2. \A j \in Copies(o2) : o2[j].file = F => ~(o2[j].line > P)
      BY <3>1
    <3> QED BY <2>2, <3>2 DEF InText, OneMore
  <2> QED BY <1>2, <1>5, <2>1, <2>2
<1> QED BY <1>3, <1>4, <1>5 DEF Text

AddsCopy(o, o2, x, f, n) ==
    /\ Copies(o2) = Copies(o) \cup {x} /\ x \in Int
    /\ \A i \in Copies(o) : o2[i] = o[i] /\ i < x /\ i # x
    /\ o2[x].file = f /\ o2[x].line = n

LEMMA TextCopied ==
    ASSUME NEW fr, NEW sn, NEW o, NEW fr2, NEW o2, NEW F, NEW P \in Nat, NEW x, Text(fr, sn, o),
           AddsCopy(o, o2, x, F, P), OneMore(fr, fr2, sn, F, P), ~SeesInclude(F, P)
    PROVE  Text(fr2, sn, o2)
<1>1. /\ Copies(o2) = Copies(o) \cup {x} /\ \A i \in Copies(o) : o2[i] = o[i] /\ i < x /\ i # x
      /\ o2[x].file = F /\ o2[x].line = P
  BY DEF AddsCopy
<1>2. /\ \A f, n : Passed(fr2, sn, f, n) <=> Passed(fr, sn, f, n) \/ (f = F /\ n = P)
      /\ FilesOf(fr2) = FilesOf(fr) /\ F \in FilesOf(fr) /\ ~Passed(fr, sn, F, P)
  BY DEF OneMore
<1>3. \A i \in Copies(o2) : Passed(fr2, sn, o2[i].file, o2[i].line)
  BY <1>1, <1>2 DEF Text
<1>4. \A i, j \in Copies(o2) : o2[i].file = o2[j].file /\ o2[i].line = o2[j].line => i = j
  <2>1. /\ \A i \in Copies(o) : Passed(fr, sn, o[i].file, o[i].line)
        /\ \A i, j \in Copies(o) : o[i].file = o[j].file /\ o[i].line = o[j].line => i = j
    BY DEF Text
  <2> QED BY <1>1, <1>2, <2>1
<1>5. ASSUME NEW f, NEW n, Passed(fr2, sn, f, n) PROVE InText(fr2, sn, o2, f, n)
  <2>1. CASE Passed(fr, sn, f, n)
    <3>1. f \in sn /\ n \in 1 .. Len(world[f])
      BY <2>1 DEF Passed
    <3>2. InText(fr, sn, o, f, n)
      BY <2>1, <3>1 DEF Text
    <3>3. CASE SeesInclude(f, n)
      <4>1. world[f][n].inc \in sn \ FilesOf(fr) /\ world[f][n].inc # F
        BY <1>2, <3>2, <3>3 DEF InText
      <4>2. ASSUME NEW i \in Copies(o2), NEW j \in Copies(o2),
                   o2[i].file = world[f][n].inc, o2[j].file = f, o2[j].line > n
            PROVE  i < j
        <5>1. i \in Copies(o)
          BY <1>1, <4>1, <4>2
        <5>2. CASE j = x
          BY <1>1, <5>1, <5>2
        <5>3. CASE j \in Copies(o)
          BY <1>1, <3>2, <3>3, <4>2, <5>1, <5>3 DEF InText
        <5> QED BY <1>1, <5>2, <5>3
      <4> QED BY <1>2, <3>3, <4>1, <4>2 DEF InText
    <3>4. CASE ~SeesInclude(f, n)
      BY <1>1, <3>2, <3>4 DEF InText, CopyOf
    <3> QED BY <3>3, <3>4
  <2>2. CASE f = F /\ n = P
    BY <1>1, <2>2 DEF InText, CopyOf
  <2> QED BY <1>2, <1>5, <2>1, <2>2
<1> QED BY <1>3, <1>4, <1>5 DEF Text

(* The steps on the stack.  At an include: the file is finished already.     *)
AtInclude(fr) ==
    LET x == fr[Len(fr)] IN x.pos <= Len(world[x.file]) /\ SeesInclude(x.file, x.pos)

LEMMA TopFrame ==
    ASSUME NEW fr, NEW sn, Stacked(fr, sn)
    PROVE  /\ Len(fr) \in 1 .. Len(fr) /\ fr[Len(fr)] \in FrameType /\ FrameOk(fr[Len(fr)], sn)
           /\ fr[Len(fr)].file \in DOMAIN world /\ fr[Len(fr)].pos \in Nat /\ fr[Len(fr)].file \in FilesOf(fr)
           /\ Len(fr) \in Nat /\ fr \in Seq(FrameType) /\ sn \subseteq DOMAIN world
<1>1. /\ Len(fr) \in 1 .. Len(fr) /\ Len(fr) \in Nat /\ fr \in Seq(FrameType) /\ sn \subseteq DOMAIN world
  BY DEF Stacked
<1>2. FrameOk(fr[Len(fr)], sn)
  BY <1>1 DEF Stacked
<1>3. fr[Len(fr)] \in FrameType
  BY <1>2 DEF FrameOk
<1>4. fr[Len(fr)].file \in DOMAIN world /\ fr[Len(fr)].pos \in Nat
  BY <1>3 DEF FrameType
<1> QED BY <1>1, <1>2, <1>3, <1>4 DEF FilesOf

\* the top frame with another place in the handling of its line
Moved(x, a) == [x EXCEPT !.at = a]

LEMMA MovedFrame ==
    ASSUME NEW x, NEW sn, FrameOk(x, sn), NEW a \in {"auto", "newline"},
           x.pos <= Len(world[x.file]), SeesInclude(x.file, x.pos)
    PROVE  /\ FrameOk(Moved(x, a), sn) /\ Moved(x, a).file = x.file /\ Moved(x, a).pos = x.pos
           /\ Moved(x, a).at = a /\ IncludeAt(Moved(x, a)) = IncludeAt(x)
<1>1. x \in FrameType
  BY DEF FrameOk
<1>2. /\ Moved(x, a) \in FrameType /\ Moved(x, a).file = x.file /\ Moved(x, a).pos = x.pos
      /\ Moved(x, a).at = a /\ Moved(x, a).comment = x.comment
  BY <1>1 DEF Moved, FrameType
<1> QED BY <1>2 DEF FrameOk, IncludeAt

LEMMA PassedByFrames ==
    ASSUME NEW fr, NEW r, NEW sn, Len(r) = Len(fr),
           \A i \in 1 .. Len(fr) : r[i].file = fr[i].file /\ r[i].pos = fr[i].pos
    PROVE  \A f, n : Passed(r, sn, f, n) <=> Passed(fr, sn, f, n)
  BY DEF Passed

LEMMA AtChanged ==
    ASSUME NEW fr, NEW sn, NEW o, Expanding(fr, sn, o), AtInclude(fr), NEW a \in {"auto", "newline"},
           IncludeAt(fr[Len(fr)]) \in sn \ FilesOf(fr)
    PROVE  Expanding([fr EXCEPT ![Len(fr)] = Moved(fr[Len(fr)], a)], sn, o)
<1> DEFINE x == fr[Len(fr)]
           t == Moved(x, a)
           r == [fr EXCEPT ![Len(fr)] = t]
<1>0. Stacked(fr, sn) /\ Included(fr, sn) /\ Text(fr, sn, o) /\ Counted(o)
  BY DEF Expanding
<1>1. FrameOk(x, sn) /\ x.pos <= Len(world[x.file]) /\ SeesInclude(x.file, x.pos)
  BY <1>0, TopFrame DEF AtInclude
<1>2. /\ FrameOk(t, sn) /\ t.file = x.file /\ t.pos = x.pos /\ t.at = a /\ IncludeAt(t) = IncludeAt(x)
  BY <1>1, MovedFrame
<1> HIDE DEF t
<1>3. /\ Stacked(r, sn) /\ FilesOf(r) = FilesOf(fr) /\ Len(r) = Len(fr)
      /\ r[Len(fr)] = t /\ \A i \in 1 .. Len(fr) : i # Len(fr) => r[i] = fr[i]
      /\ \A i \in 1 .. Len(fr) : r[i].file = fr[i].file
  BY <1>0, <1>2, TopChanged
<1> HIDE DEF r
<1>4. \A i \in 1 .. Len(fr) : r[i].file = fr[i].file /\ r[i].pos = fr[i].pos
  BY <1>2, <1>3
<1>5. Text(r, sn, o)
  <2>1. \A f, n : Passed(r, sn, f, n) <=> Passed(fr, sn, f, n)
    BY <1>3, <1>4, PassedByFrames
  <2>2. SameCopies(o, o)
    BY DEF SameCopies
  <2> QED BY <1>0, <1>3, <2>1, <2>2, TextSame
<1>6. Included(r, sn)
  <2> SUFFICES ASSUME NEW i \in 1 .. Len(r)
               PROVE  /\ r[i].at = "newline" => IncludeAt(r[i]) \in sn \ FilesOf(r)
                      /\ r[i].at = "auto" => /\ IncludeAt(r[i]) \in sn
                                             /\ i = Len(r) => IncludeAt(r[i]) \notin FilesOf(r)
                                             /\ i # Len(r) => IncludeAt(r[i]) = r[i + 1].file
    BY DEF Included
  <2>1. CASE i = Len(fr)
    BY <1>2, <1>3, <2>1
  <2>2. CASE i # Len(fr)
    <3>1. r[i] = fr[i] /\ i \in 1 .. Len(fr) /\ i + 1 \in 1 .. Len(fr) /\ r[i + 1].file = fr[i + 1].file
      BY <1>0, <1>3, <2>2 DEF Stacked
    <3> QED BY <1>0, <1>3, <2>2, <3>1 DEF Included
  <2> QED BY <2>1, <2>2
<1>7. Expanding(r, sn, o)
  BY <1>0, <1>3, <1>5, <1>6 DEF Expanding
<1> QED BY <1>7 DEF r, t

(* A new file is taken.                                                      *)
LEMMA Pushed ==
    ASSUME WorldOk, NEW fr, NEW sn, NEW o, Expanding(fr, sn, o), AtInclude(fr), NEW a \in {"auto", "newline"},
           NEW g \in DOMAIN world, g \notin sn,
           a = "auto" => IncludeAt(fr[Len(fr)]) = g,
           a = "newline" => IncludeAt(fr[Len(fr)]) \in sn \ FilesOf(fr)
    PROVE  Expanding(Append([fr EXCEPT ![Len(fr)] = Moved(fr[Len(fr)], a)], Frame(g)), sn \cup {g}, o)
<1> DEFINE x == fr[Len(fr)]
           t == Moved(x, a)
           r == [fr EXCEPT ![Len(fr)] = t]
           q == Append(r, Frame(g))
           s2 == sn \cup {g}
           N == Len(fr)
<1>0. Stacked(fr, sn) /\ Included(fr, sn) /\ Text(fr, sn, o) /\ Counted(o)
  BY DEF Expanding
<1>1. FrameOk(x, sn) /\ x.pos <= Len(world[x.file]) /\ SeesInclude(x.file, x.pos)
  BY <1>0, TopFrame DEF AtInclude
<1>2. /\ FrameOk(t, sn) /\ t.file = x.file /\ t.pos = x.pos /\ t.at = a /\ IncludeAt(t) = IncludeAt(x)
  BY <1>1, MovedFrame
<1> HIDE DEF t
<1>3. /\ Stacked(r, sn) /\ FilesOf(r) = FilesOf(fr) /\ Len(r) = Len(fr)
      /\ r[Len(fr)] = t /\ \A i \in 1 .. Len(fr) : i # Len(fr) => r[i] = fr[i]
      /\ \A i \in 1 .. Len(fr) : r[i].file = fr[i].file
  BY <1>0, <1>2, TopChanged
<1> HIDE DEF r
<1>4. /\ Frame(g).file = g /\ Frame(g).pos = 1 /\ Frame(g).at = "line" /\ Frame(g) \in FrameType
      /\ FrameOk(Frame(g), s2)
  <2>1. /\ Frame(g).file = g /\ Frame(g).pos = 1 /\ Frame(g).at = "line" /\ Frame(g) \in FrameType
        /\ Frame(g).comment = FALSE
    BY DEF Frame, FrameType
  <2>2. 1 \in 1 .. Len(world[g]) + 1
    BY DEF WorldOk
  <2> QED BY <2>1, <2>2, CommentedFirst DEF FrameOk
<1> HIDE DEF x
<1>5. /\ q \in Seq(FrameType) /\ Len(q) = N + 1 /\ q[N + 1] = Frame(g) /\ N \in Nat /\ N > 0
      /\ \A i \in 1 .. N : q[i] = r[i]
  BY <1>3, <1>4 DEF Stacked
<1> HIDE DEF q
<1>6. /\ \A i : i \in 1 .. N + 1 <=> i \in 1 .. N \/ i = N + 1
      /\ \A i \in 1 .. N : i # N + 1 /\ i + 1 \in 1 .. N + 1
      /\ \A i \in 1 .. N : i # N => i + 1 \in 1 .. N
      /\ N \in 1 .. N
  BY <1>5
<1>7. \A i \in 1 .. N : r[i].file \in sn /\ r[i].file # g /\ FrameOk(r[i], sn) /\ r[i].at # "line"
  <2>1. \A i \in 1 .. N : FrameOk(r[i], sn) /\ (i # N => r[i].at # "line")
    BY <1>3 DEF Stacked
  <2>2. r[N].at # "line"
    BY <1>2, <1>3
  <2> QED BY <2>1, <2>2 DEF FrameOk
<1>8. FilesOf(q) = FilesOf(fr) \cup {g}
  <2>1. \A f : f \in FilesOf(q) <=> \E i \in 1 .. N + 1 : q[i].file = f
    BY <1>5 DEF FilesOf
  <2>2. \A f : f \in FilesOf(r) <=> \E i \in 1 .. N : r[i].file = f
    BY <1>3 DEF FilesOf
  <2> QED BY <1>3, <1>4, <1>5, <1>6, <2>1, <2>2, SMTT(30)
<1>9. Stacked(q, s2)
  <2>1. s2 \subseteq DOMAIN world
    BY <1>0 DEF Stacked
  <2>2. \A i \in 1 .. N : FrameOk(q[i], s2)
    BY <1>5, <1>7 DEF FrameOk
  <2>3. \A i, j \in 1 .. N + 1 : q[i].file = q[j].file => i = j
    <3>1. \A i, j \in 1 .. N : r[i].file = r[j].file => i = j
      BY <1>3 DEF Stacked
    <3> QED BY <1>4, <1>5, <1>6, <1>7, <3>1
  <2>4. \A i \in 1 .. N + 1 : FrameOk(q[i], s2) /\ (i # N + 1 => q[i].at # "line")
    BY <1>4, <1>5, <1>6, <1>7, <2>2
  <2>5. /\ q \in Seq(FrameType) /\ Len(q) > 0
        /\ \A i \in 1 .. Len(q) : FrameOk(q[i], s2) /\ (i # Len(q) => q[i].at # "line")
        /\ \A i, j \in 1 .. Len(q) : q[i].file = q[j].file => i = j
    <3>1. q \in Seq(FrameType) /\ Len(q) = N + 1 /\ Len(q) > 0
      BY <1>5
    <3> QED BY <2>3, <2>4, <3>1, Zenon
  <2> HIDE DEF s2
  <2> QED BY <2>1, <2>5 DEF Stacked
<1>10. Text(q, s2, o)
  <2>1. ASSUME NEW f, NEW n PROVE Passed(q, s2, f, n) <=> Passed(fr, sn, f, n)
    <3>1. CASE f = g
      <4>1. q[N + 1].file = g /\ q[N + 1].pos = 1 /\ N + 1 \in 1 .. Len(q)
        BY <1>4, <1>5
      <4>2. ~Passed(q, s2, g, n)
        BY <4>1 DEF Passed
      <4>3. ~Passed(fr, sn, g, n)
        BY DEF Passed
      <4> QED BY <3>1, <4>2, <4>3
    <3>2. CASE f # g
      <4>1. \A i \in 1 .. N : q[i].file = fr[i].file /\ q[i].pos = fr[i].pos
        BY <1>2, <1>3, <1>5 DEF x
      <4>2. q[N + 1].file # f
        BY <1>4, <1>5, <3>2
      <4>3. (\A i \in 1 .. N + 1 : q[i].file = f => n < q[i].pos) <=> (\A i \in 1 .. N : fr[i].file = f => n < fr[i].pos)
        BY <1>6, <4>1, <4>2
      <4> QED BY <1>5, <3>2, <4>3 DEF Passed
    <3> QED BY <3>1, <3>2
  <2>2. SameCopies(o, o)
    BY DEF SameCopies
  <2>3. sn \subseteq s2 /\ \A f \in sn : f \notin FilesOf(fr) => f \notin FilesOf(q)
    BY <1>8
  <2> QED BY <1>0, <2>1, <2>2, <2>3, TextSame
<1>11. Included(q, s2)
  <2> SUFFICES ASSUME NEW i \in 1 .. Len(q)
               PROVE  /\ q[i].at = "newline" => IncludeAt(q[i]) \in s2 \ FilesOf(q)
                      /\ q[i].at = "auto" => /\ IncludeAt(q[i]) \in s2
                                             /\ i = Len(q) => IncludeAt(q[i]) \notin FilesOf(q)
                                             /\ i # Len(q) => IncludeAt(q[i]) = q[i + 1].file
    BY DEF Included
  <2>1. CASE i = N + 1
    BY <1>4, <1>5, <2>1
  <2>2. CASE i = N
    <3>1. q[i] = t /\ q[i + 1] = Frame(g)
      BY <1>3, <1>5, <1>6, <2>2
    <3> QED BY <1>2, <1>4, <1>5, <1>6, <1>8, <2>2, <3>1 DEF x
  <2>3. CASE i \in 1 .. N /\ i # N
    <3>1. q[i] = fr[i] /\ q[i + 1].file = fr[i + 1].file /\ i + 1 \in 1 .. N
      BY <1>3, <1>5, <1>6, <2>3
    <3>2. i # N + 1
      BY <1>6, <2>3
    <3> QED BY <1>0, <1>5, <1>8, <2>3, <3>1, <3>2 DEF Included
  <2> QED BY <1>5, <1>6, <2>1, <2>2, <2>3
<1>12. Expanding(q, s2, o)
  BY <1>0, <1>9, <1>10, <1>11 DEF Expanding
<1> QED BY <1>12 DEF q, r, t, x

(* A file is finished: all its lines are passed, and the include that took   *)
(* it finds it finished.                                                     *)
LEMMA Popped ==
    ASSUME WorldOk, NEW fr, NEW sn, NEW o, Expanding(fr, sn, o), Len(fr) # 1,
           fr[Len(fr)].pos > Len(world[fr[Len(fr)].file])
    PROVE  Expanding(SubSeq(fr, 1, Len(fr) - 1), sn, o)
<1> DEFINE q == SubSeq(fr, 1, Len(fr) - 1)
           N == Len(fr)
           F == fr[N].file
<1>0. Stacked(fr, sn) /\ Included(fr, sn) /\ Text(fr, sn, o) /\ Counted(o)
  BY DEF Expanding
<1>1. /\ N \in Nat /\ N > 1 /\ N \in 1 .. N /\ fr \in Seq(FrameType) /\ N - 1 \in 1 .. N
      /\ F \in DOMAIN world /\ fr[N].pos \in Nat /\ F \in FilesOf(fr)
  <2>1. /\ N \in Nat /\ N \in 1 .. N /\ fr \in Seq(FrameType)
        /\ F \in DOMAIN world /\ fr[N].pos \in Nat /\ F \in FilesOf(fr)
    BY <1>0, TopFrame
  <2>2. ASSUME NEW m \in Nat, m \in 1 .. m, m # 1 PROVE m > 1 /\ m - 1 \in 1 .. m
    BY <2>2
  <2> HIDE DEF F
  <2> QED BY <2>1, <2>2, Zenon
<1>2. /\ q \in Seq(FrameType) /\ Len(q) = N - 1 /\ \A i \in 1 .. N - 1 : q[i] = fr[i]
  BY <1>1
<1> HIDE DEF q
<1>3. /\ \A i : i \in 1 .. N <=> i \in 1 .. N - 1 \/ i = N
      /\ \A i \in 1 .. N - 1 : i # N /\ i + 1 \in 1 .. N /\ (i # N - 1 => i + 1 \in 1 .. N - 1)
  BY <1>1
<1>4. /\ \A i \in 1 .. N : FrameOk(fr[i], sn) /\ (i # N => fr[i].at # "line")
      /\ \A i, j \in 1 .. N : fr[i].file = fr[j].file => i = j
      /\ sn \subseteq DOMAIN world
  BY <1>0 DEF Stacked
<1>5. \A f : f \in FilesOf(q) <=> f \in FilesOf(fr) /\ f # F
  <2>1. \A f : f \in FilesOf(q) <=> \E i \in 1 .. N - 1 : q[i].file = f
    BY <1>2 DEF FilesOf
  <2>2. \A f : f \in FilesOf(fr) <=> \E i \in 1 .. N : fr[i].file = f
    BY DEF FilesOf
  <2>3. \A i \in 1 .. N - 1 : i \in 1 .. N /\ i # N /\ fr[i].file # fr[N].file /\ q[i] = fr[i]
    BY <1>1, <1>2, <1>3, <1>4
  <2>4. ASSUME NEW f \in FilesOf(q) PROVE f \in FilesOf(fr) /\ f # F
    BY <2>1, <2>2, <2>3, SMTT(30)
  <2>5. ASSUME NEW f \in FilesOf(fr), f # F PROVE f \in FilesOf(q)
    <3>1. PICK i \in 1 .. N : fr[i].file = f
      BY <2>2
    <3>2. i # N /\ i \in 1 .. N - 1
      BY <1>3, <2>5, <3>1
    <3> QED BY <2>1, <2>3, <3>1, <3>2
  <2> QED BY <2>4, <2>5
<1>6. Stacked(q, sn)
  <2>1. \A i \in 1 .. N - 1 : FrameOk(q[i], sn) /\ q[i].at # "line"
    BY <1>2, <1>3, <1>4
  <2>2. \A i, j \in 1 .. N - 1 : q[i].file = q[j].file => i = j
    BY <1>2, <1>3, <1>4
  <2>3. q \in Seq(FrameType) /\ Len(q) = N - 1 /\ Len(q) > 0
    BY <1>1, <1>2
  <2>4. /\ \A i \in 1 .. Len(q) : FrameOk(q[i], sn) /\ (i # Len(q) => q[i].at # "line")
        /\ \A i, j \in 1 .. Len(q) : q[i].file = q[j].file => i = j
    BY <2>1, <2>2, <2>3, Zenon
  <2> QED BY <1>4, <2>3, <2>4 DEF Stacked
<1>7. Text(q, sn, o)
  <2>1. ASSUME NEW f, NEW n, f \in sn, n \in 1 .. Len(world[f])
        PROVE  Passed(q, sn, f, n) <=> Passed(fr, sn, f, n)
    <3>1. fr[N].file = f => n < fr[N].pos
      BY <1>1, <2>1 DEF WorldOk
    <3>2. (\A i \in 1 .. N - 1 : q[i].file = f => n < q[i].pos) <=> (\A i \in 1 .. N : fr[i].file = f => n < fr[i].pos)
      BY <1>2, <1>3, <3>1
    <3> QED BY <1>2, <2>1, <3>2 DEF Passed
  <2>2. \A f, n : Passed(q, sn, f, n) <=> Passed(fr, sn, f, n)
    BY <2>1 DEF Passed
  <2>3. SameCopies(o, o)
    BY DEF SameCopies
  <2> QED BY <1>0, <1>5, <2>2, <2>3, TextSame
<1>8. Included(q, sn)
  <2> SUFFICES ASSUME NEW i \in 1 .. N - 1
               PROVE  /\ q[i].at = "newline" => IncludeAt(q[i]) \in sn \ FilesOf(q)
                      /\ q[i].at = "auto" => /\ IncludeAt(q[i]) \in sn
                                             /\ i = N - 1 => IncludeAt(q[i]) \notin FilesOf(q)
                                             /\ i # N - 1 => IncludeAt(q[i]) = q[i + 1].file
    BY <1>2 DEF Included
  <2>1. /\ q[i] = fr[i] /\ i \in 1 .. N /\ i # N
        /\ fr[i].at = "newline" => IncludeAt(fr[i]) \in sn \ FilesOf(fr)
        /\ fr[i].at = "auto" => IncludeAt(fr[i]) \in sn /\ IncludeAt(fr[i]) = fr[i + 1].file
    BY <1>0, <1>2, <1>3 DEF Included
  <2>2. CASE i = N - 1
    <3>1. i + 1 = N
      BY <1>1, <2>2
    <3> QED BY <1>5, <2>1, <2>2, <3>1
  <2>3. CASE i # N - 1
    <3>1. q[i + 1] = fr[i + 1]
      BY <1>2, <1>3, <2>3
    <3> QED BY <1>5, <2>1, <2>3, <3>1
  <2> QED BY <2>2, <2>3
<1>9. Expanding(q, sn, o)
  BY <1>0, <1>6, <1>7, <1>8 DEF Expanding
<1> QED BY <1>9 DEF q

(* The file being read goes one line on.                                     *)
LEMMA Advanced ==
    ASSUME NEW fr, NEW sn, Stacked(fr, sn), Included(fr, sn), NEW t, FrameOk(t, sn),
           t.file = fr[Len(fr)].file, t.pos = fr[Len(fr)].pos + 1, t.at = "line",
           fr[Len(fr)].pos <= Len(world[fr[Len(fr)].file])
    PROVE  LET r == [fr EXCEPT ![Len(fr)] = t] IN
           Stacked(r, sn) /\ Included(r, sn) /\ OneMore(fr, r, sn, fr[Len(fr)].file, fr[Len(fr)].pos)
<1> DEFINE r == [fr EXCEPT ![Len(fr)] = t]
           N == Len(fr)
           F == fr[N].file
           P == fr[N].pos
<1>1. /\ Stacked(r, sn) /\ FilesOf(r) = FilesOf(fr) /\ Len(r) = N
      /\ r[N] = t /\ \A i \in 1 .. N : i # N => r[i] = fr[i]
      /\ \A i \in 1 .. N : r[i].file = fr[i].file
  BY TopChanged
<1> HIDE DEF r
<1>2. /\ N \in Nat /\ N \in 1 .. N /\ P \in Nat /\ F \in FilesOf(fr) /\ F \in sn /\ P \in 1 .. Len(world[F])
      /\ \A i, j \in 1 .. N : fr[i].file = fr[j].file => i = j
  <2>1. N \in Nat /\ N \in 1 .. N /\ FrameOk(fr[N], sn) /\ P \in Nat /\ F \in FilesOf(fr)
    BY TopFrame
  <2>2. F \in sn /\ P \in 1 .. Len(world[F]) + 1
    BY <2>1 DEF FrameOk
  <2> QED BY <2>1, <2>2 DEF Stacked
<1>3. Included(r, sn)
  <2> SUFFICES ASSUME NEW i \in 1 .. N
               PROVE  /\ r[i].at = "newline" => IncludeAt(r[i]) \in sn \ FilesOf(r)
                      /\ r[i].at = "auto" => /\ IncludeAt(r[i]) \in sn
                                             /\ i = N => IncludeAt(r[i]) \notin FilesOf(r)
                                             /\ i # N => IncludeAt(r[i]) = r[i + 1].file
    BY <1>1 DEF Included
  <2>1. CASE i = N
    BY <1>1, <2>1
  <2>2. CASE i # N
    <3>1. r[i] = fr[i] /\ i + 1 \in 1 .. N /\ r[i + 1].file = fr[i + 1].file
      BY <1>1, <1>2, <2>2
    <3> QED BY <1>1, <2>2, <3>1 DEF Included
  <2> QED BY <2>1, <2>2
<1>4. ASSUME NEW n PROVE Passed(fr, sn, F, n) <=> n \in 1 .. Len(world[F]) /\ n < P
  BY <1>2 DEF Passed
<1>5. ASSUME NEW n PROVE Passed(r, sn, F, n) <=> n \in 1 .. Len(world[F]) /\ n < P + 1
  <2>1. \A i \in 1 .. N : r[i].file = F <=> i = N
    BY <1>1, <1>2
  <2> QED BY <1>1, <1>2, <2>1 DEF Passed
<1>6. ASSUME NEW f, NEW n, f # F PROVE Passed(r, sn, f, n) <=> Passed(fr, sn, f, n)
  <2>1. \A i \in 1 .. N : r[i].file = f <=> fr[i].file = f
    BY <1>1
  <2>2. \A i \in 1 .. N : fr[i].file = f => r[i] = fr[i]
    BY <1>1, <1>6
  <2> QED BY <1>1, <2>1, <2>2 DEF Passed
<1>7. \A n : Passed(r, sn, F, n) <=> Passed(fr, sn, F, n) \/ n = P
  <2>1. \A n : n \in 1 .. Len(world[F]) /\ n < P + 1 <=> n \in 1 .. Len(world[F]) /\ (n < P \/ n = P)
    BY <1>2
  <2> QED BY <1>2, <1>4, <1>5, <2>1
<1>8. OneMore(fr, r, sn, F, P)
  BY <1>1, <1>2, <1>4, <1>6, <1>7 DEF OneMore
<1> QED BY <1>1, <1>3, <1>8 DEF r

(* The root file is finished: the text is complete.                          *)
LEMMA TextEnd ==
    ASSUME WorldOk, Expanding(frames, seen, out), Len(frames) = 1,
           frames[Len(frames)].pos > Len(world[frames[Len(frames)].file]),
           world' = world, debug' = debug, seen' = seen, out' = out
    PROVE  TextComplete'
<1>1. Copied' = Copies(out)
  BY DEF Copied, Copies
<1>2. ASSUME NEW f \in seen, NEW n \in 1 .. Len(world[f]) PROVE Passed(frames, seen, f, n)
  <2>1. f \in DOMAIN world /\ Len(world[f]) \in Nat /\ frames[1].pos \in Nat
    <3>1. Stacked(frames, seen)
      BY DEF Expanding
    <3>2. seen \subseteq DOMAIN world /\ frames[1].pos \in Nat
      BY <3>1, TopFrame
    <3> QED BY <3>2 DEF WorldOk
  <2>2. frames[1].file = f => n < frames[1].pos
    BY <2>1
  <2> QED BY <2>2 DEF Passed
<1>3. ASSUME NEW f \in seen, NEW n \in 1 .. Len(world[f]) PROVE InText(frames, seen, out, f, n)
  BY <1>2 DEF Expanding, Text
<1>4. \A i, j \in Copies(out) : i # j => <<out[i].file, out[i].line>> # <<out[j].file, out[j].line>>
  BY DEF Expanding, Text
<1>5. debug => \A i \in Copies(out) : out[i].num = out[i].line + (IF i > 1 /\ out[i - 1].k = "probe" THEN 1 ELSE 0)
  BY DEF Expanding, Counted
<1>6. \A f, n : SeesInclude(f, n)' <=> SeesInclude(f, n)
  BY DEF SeesInclude
<1>7. ASSUME NEW f \in seen, NEW n \in 1 .. Len(world[f])
      PROVE  IF SeesInclude(f, n)
             THEN /\ world[f][n].inc \in seen
                  /\ \A i, j \in Copies(out) :
                        out[i].file = world[f][n].inc /\ out[j].file = f /\ out[j].line > n => i < j
             ELSE \E i \in Copies(out) : out[i].file = f /\ out[i].line = n
  BY <1>3 DEF InText, CopyOf
<1> QED BY <1>1, <1>4, <1>5, <1>6, <1>7 DEF TextComplete

(* What one source line becomes: at most three lines, the last its copy, a   *)
(* probe before it when the number is one too high.                          *)
Kinds == {"decl", "stmt", "open", "close", "include"}

LineText(new, f, n, k) ==
    /\ new \in Seq(OutLine) /\ Len(new) \in {1, 2, 3}
    /\ new[Len(new)].file = f /\ new[Len(new)].line = n /\ new[Len(new)].k = k
    /\ new[Len(new)].num \in Int
    /\ \A i \in 1 .. Len(new) - 1 : new[i].k \notin Kinds
    /\ debug => \/ Len(new) = 2 /\ new[1].k # "probe" /\ new[2].num = n
                \/ Len(new) = 3 /\ new[2].k = "probe" /\ new[3].num = n + 1

LEMMA TwoLines ==
    ASSUME NEW S, NEW a \in S, NEW b \in S
    PROVE  LET s == <<a>> \o <<b>> IN s \in Seq(S) /\ Len(s) = 2 /\ s[1] = a /\ s[2] = b
  OBVIOUS

LEMMA ThreeLines ==
    ASSUME NEW S, NEW a \in S, NEW b \in S, NEW c \in S
    PROVE  LET s == <<a>> \o <<b, c>> IN s \in Seq(S) /\ Len(s) = 3 /\ s[1] = a /\ s[2] = b /\ s[3] = c
  OBVIOUS

LEMMA LineBecomes ==
    ASSUME NEW f \in DOMAIN world, NEW n \in Nat, NEW k \in Kinds, counter \in Int
    PROVE  LineText(NumberedLines(f, n, k), f, n, k)
<1> DEFINE T(z, m) == [k |-> z, file |-> f, line |-> n, num |-> m]
           new == NumberedLines(f, n, k)
<1>1. ASSUME NEW z \in Kinds \cup {"#line", "probe"}, NEW m \in Int
      PROVE  T(z, m) \in OutLine /\ T(z, m).k = z /\ T(z, m).file = f /\ T(z, m).line = n /\ T(z, m).num = m
  BY DEF OutLine, Kinds
<1>2. /\ [T(k, counter) EXCEPT !.k = "#line"] = T("#line", counter)
      /\ [T(k, counter) EXCEPT !.k = "probe", !.num = n] = T("probe", n)
      /\ [T(k, counter) EXCEPT !.num = n + 1] = T(k, n + 1)
      /\ [T(k, counter) EXCEPT !.num = n] = T(k, n)
  <2>1. [T(k, counter) EXCEPT !.k = "#line"] = T("#line", counter)
    OBVIOUS
  <2>2. [T(k, counter) EXCEPT !.k = "probe", !.num = n] = T("probe", n)
    <3>1. [T(k, counter) EXCEPT !.k = "probe"] = T("probe", counter)
      OBVIOUS
    <3>2. [T("probe", counter) EXCEPT !.num = n] = T("probe", n)
      OBVIOUS
    <3>3. [T(k, counter) EXCEPT !.k = "probe", !.num = n] = [[T(k, counter) EXCEPT !.k = "probe"] EXCEPT !.num = n]
      BY Zenon
    <3> QED BY <3>1, <3>2, <3>3
  <2>3. \A m : [T(k, counter) EXCEPT !.num = m] = T(k, m)
    OBVIOUS
  <2> QED BY <2>1, <2>2, <2>3
<1>6. /\ "#line" \notin Kinds /\ "probe" \notin Kinds /\ "#line" # "probe" /\ n \in Int /\ n + 1 \in Int
      /\ k \in Kinds \cup {"#line", "probe"}
  BY DEF Kinds
<1>7. /\ T("#line", counter) \in OutLine /\ T("#line", counter).k = "#line"
      /\ T("probe", n) \in OutLine /\ T("probe", n).k = "probe"
  BY <1>1, <1>6
<1>8. \A m \in Int : T(k, m) \in OutLine /\ T(k, m).k = k /\ T(k, m).file = f /\ T(k, m).line = n /\ T(k, m).num = m
  BY <1>1, <1>6
<1>3. CASE ~debug
  <2>1. new = <<T(k, counter)>>
    BY <1>3 DEF NumberedLines
  <2> HIDE DEF T, new
  <2>2. new \in Seq(OutLine) /\ Len(new) = 1 /\ new[1] = T(k, counter)
    BY <1>6, <1>7, <1>8, <2>1
  <2>3. \A i \in 1 .. Len(new) - 1 : new[i].k \notin Kinds
    BY <2>2
  <2>4. LineText(new, f, n, k)
    BY <1>6, <1>7, <1>8, <1>3, <2>2, <2>3 DEF LineText
  <2> QED BY <2>4 DEF new
<1>4. CASE debug /\ k = "stmt" /\ ~Top.comment
  <2>1. new = <<T("#line", counter)>> \o <<T("probe", n), T(k, n + 1)>>
    BY <1>2, <1>4 DEF NumberedLines
  <2> HIDE DEF T, new
  <2>2. new \in Seq(OutLine) /\ Len(new) = 3
        /\ new[1] = T("#line", counter) /\ new[2] = T("probe", n) /\ new[3] = T(k, n + 1)
    BY <1>6, <1>7, <1>8, <2>1, ThreeLines
  <2>3. \A i \in 1 .. Len(new) - 1 : i = 1 \/ i = 2
    BY <2>2
  <2>4. \A i \in 1 .. Len(new) - 1 : new[i].k \notin Kinds
    BY <1>6, <1>7, <1>8, <2>2, <2>3
  <2>5. LineText(new, f, n, k)
    BY <1>6, <1>7, <1>8, <1>4, <2>2, <2>4 DEF LineText
  <2> QED BY <2>5 DEF new
<1>5. CASE debug /\ ~(k = "stmt" /\ ~Top.comment)
  <2>1. new = <<T("#line", counter)>> \o <<T(k, n)>>
    BY <1>2, <1>5 DEF NumberedLines
  <2> HIDE DEF T, new
  <2>2. new \in Seq(OutLine) /\ Len(new) = 2
        /\ new[1] = T("#line", counter) /\ new[2] = T(k, n)
    BY <1>6, <1>7, <1>8, <2>1, TwoLines
  <2>3. \A i \in 1 .. Len(new) - 1 : i = 1
    BY <2>2
  <2>4. \A i \in 1 .. Len(new) - 1 : new[i].k \notin Kinds
    BY <1>6, <1>7, <1>8, <2>2, <2>3
  <2>5. LineText(new, f, n, k)
    BY <1>6, <1>7, <1>8, <1>5, <2>2, <2>4 DEF LineText
  <2> QED BY <2>5 DEF new
<1> QED BY <1>3, <1>4, <1>5

LEMMA OutGrows ==
    ASSUME NEW o, NEW new, NEW f, NEW n \in Nat, NEW k \in Kinds, Counted(o), LineText(new, f, n, k)
    PROVE  AddsCopy(o, o \o new, Len(o) + Len(new), f, n) /\ Counted(o \o new)
<1> DEFINE p == o \o new
           L == Len(o)
           M == Len(new)
           x == L + M
<1>1. /\ o \in Seq(OutLine) /\ new \in Seq(OutLine) /\ L \in Nat /\ M \in Nat /\ M > 0
  BY DEF Counted, LineText
<1>2. /\ p \in Seq(OutLine) /\ Len(p) = x
      /\ \A i \in 1 .. L : p[i] = o[i]
      /\ \A i \in 1 .. M : p[L + i] = new[i]
  BY <1>1
<1> HIDE DEF p
<1>3. p[x] = new[M] /\ x \in 1 .. Len(p) /\ x \in Int /\ x > L
  BY <1>1, <1>2
<1>4. \A i \in 1 .. x : i \in 1 .. L \/ i = x \/ (i - L \in 1 .. M - 1 /\ i - L \in 1 .. M /\ L + (i - L) = i)
  BY <1>1
<1>5. ASSUME NEW i \in 1 .. x, i - L \in 1 .. M - 1, i - L \in 1 .. M, L + (i - L) = i PROVE p[i].k \notin Kinds
  BY <1>2, <1>5 DEF LineText
<1>6. \A i \in 1 .. L : i \in 1 .. x /\ i < x /\ i # x
  BY <1>1
<1>7. Copies(p) = Copies(o) \cup {x}
  <2>1. \A i : i \in Copies(p) <=> i \in 1 .. x /\ p[i].k \in Kinds
    BY <1>2 DEF Copies, Kinds
  <2>2. \A i : i \in Copies(o) <=> i \in 1 .. L /\ o[i].k \in Kinds
    BY DEF Copies, Kinds
  <2>3. p[x].k \in Kinds
    BY <1>3 DEF LineText
  <2> QED BY <1>2, <1>3, <1>4, <1>5, <1>6, <2>1, <2>2, <2>3
<1>8. \A i \in Copies(o) : i \in 1 .. L /\ p[i] = o[i] /\ i < x /\ i # x
  BY <1>2, <1>6 DEF Copies
<1>9. AddsCopy(o, p, x, f, n)
  BY <1>3, <1>7, <1>8 DEF AddsCopy, LineText
<1>10. ASSUME debug, NEW i \in Copies(p)
       PROVE  p[i].num = p[i].line + (IF i > 1 /\ p[i - 1].k = "probe" THEN 1 ELSE 0)
  <2>1. CASE i \in Copies(o)
    <3>1. i > 1 => i - 1 \in 1 .. L
      BY <1>1, <1>8, <2>1
    <3>2. p[i] = o[i] /\ (i > 1 => p[i - 1] = o[i - 1])
      BY <1>2, <1>8, <2>1, <3>1
    <3> QED BY <1>10, <2>1, <3>2 DEF Counted
  <2>2. CASE i = x
    <3>1. CASE M = 2 /\ new[1].k # "probe" /\ new[2].num = n
      <4>1. p[x - 1] = new[1] /\ p[x] = new[2] /\ new[2].line = n
        <5>1. x - 1 = L + 1 /\ 1 \in 1 .. M
          BY <1>1, <3>1
        <5> QED BY <1>2, <1>3, <3>1, <5>1 DEF LineText
      <4> QED BY <2>2, <3>1, <4>1
    <3>2. CASE M = 3 /\ new[2].k = "probe" /\ new[3].num = n + 1
      <4>1. p[x - 1] = new[2] /\ p[x] = new[3] /\ new[3].line = n /\ x > 1
        <5>1. x - 1 = L + 2 /\ 2 \in 1 .. M /\ x > 1
          BY <1>1, <3>2
        <5> QED BY <1>2, <1>3, <3>2, <5>1 DEF LineText
      <4> QED BY <2>2, <3>2, <4>1
    <3> QED BY <1>10, <3>1, <3>2 DEF LineText
  <2> QED BY <1>7, <2>1, <2>2
<1>11. Counted(p)
  BY <1>2, <1>10 DEF Counted
<1> QED BY <1>9, <1>11 DEF p

(* The line break behind an include is no copy.                              *)
LEMMA BlankAdded ==
    ASSUME NEW o, NEW b \in OutLine, Counted(o), b.k \notin Kinds
    PROVE  SameCopies(o, Append(o, b)) /\ Counted(Append(o, b))
<1> DEFINE p == Append(o, b)
           L == Len(o)
<1>1. o \in Seq(OutLine) /\ L \in Nat
  BY DEF Counted
<1>2. p \in Seq(OutLine) /\ Len(p) = L + 1 /\ p[L + 1] = b /\ \A i \in 1 .. L : p[i] = o[i]
  BY <1>1
<1> HIDE DEF p
<1>3. \A i : i \in 1 .. L + 1 <=> i \in 1 .. L \/ i = L + 1
  BY <1>1
<1>4. Copies(p) = Copies(o)
  <2>1. \A i : i \in Copies(p) <=> i \in 1 .. L + 1 /\ p[i].k \in Kinds
    BY <1>2 DEF Copies, Kinds
  <2>2. \A i : i \in Copies(o) <=> i \in 1 .. L /\ o[i].k \in Kinds
    BY DEF Copies, Kinds
  <2> QED BY <1>2, <1>3, <2>1, <2>2
<1>5. \A i \in Copies(o) : i \in 1 .. L /\ p[i] = o[i]
  BY <1>2 DEF Copies
<1>6. ASSUME debug, NEW i \in Copies(p)
      PROVE  p[i].num = p[i].line + (IF i > 1 /\ p[i - 1].k = "probe" THEN 1 ELSE 0)
  <2>1. i > 1 => i - 1 \in 1 .. L
    BY <1>1, <1>4, <1>5
  <2>2. p[i] = o[i] /\ (i > 1 => p[i - 1] = o[i - 1])
    BY <1>2, <1>4, <1>5, <2>1
  <2> QED BY <1>4, <1>6, <2>2 DEF Counted
<1>7. SameCopies(o, p) /\ Counted(p)
  BY <1>2, <1>4, <1>5, <1>6 DEF SameCopies, Counted
<1> QED BY <1>7 DEF p

(* The files do not change.                                                  *)
LEMMA SameFiles ==
    ASSUME world' = world, debug' = debug, Expanding(frames', seen', out')
    PROVE  Expanding(frames, seen, out)'
<1>1. \A f, n : SeesInclude(f, n)' <=> SeesInclude(f, n)
  BY DEF SeesInclude
<1>2. \A f, n : Commented(f, n)' <=> Commented(f, n)
  BY DEF Commented, Marks
<1>3. FrameType' = FrameType /\ OutLine' = OutLine
  BY DEF FrameType, OutLine
<1>4. Stacked(frames, seen)'
  BY <1>1, <1>2, <1>3 DEF Expanding, Stacked, FrameOk
<1>5. Included(frames, seen)'
  BY DEF Expanding, Included, IncludeAt, FilesOf
<1>6. Counted(out)'
  BY <1>3 DEF Expanding, Counted, Copies
<1>7. Text(frames, seen, out)'
  BY <1>1 DEF Expanding, Text, Passed, InText, CopyOf, Copies, FilesOf
<1> QED BY <1>4, <1>5, <1>6, <1>7 DEF Expanding

LEMMA GoesOn ==
    ASSUME SourceInv, expanded = "run", world' = world, debug' = debug, expanded' = expanded,
           counter' \in Int, Expanding(frames', seen', out')
    PROVE  SourceInv'
<1>1. Expanding(frames, seen, out)'
  BY SameFiles
<1>2. WorldOk'
  BY DEF SourceInv, WorldOk
<1> QED BY <1>1, <1>2 DEF SourceInv, TextComplete

LEMMA Stops ==
    ASSUME expanded' \in {"failed", "freed"}
    PROVE  SourceInv'
  BY DEF SourceInv, TextComplete

LEMMA TopIs ==
    ASSUME SourceInv, expanded = "run"
    PROVE  /\ WorldOk /\ counter \in Int /\ Expanding(frames, seen, out) /\ Stacked(frames, seen)
           /\ Top = frames[Len(frames)] /\ FrameOk(Top, seen) /\ Top.file \in DOMAIN world /\ Top.pos \in Nat \ {0}
           /\ Len(world[Top.file]) \in Nat
           /\ Top.pos <= Len(world[Top.file]) =>
                 /\ TopLine.k \in Kinds
                 /\ IsInclude <=> SeesInclude(Top.file, Top.pos)
                 /\ IncludeAt(Top) = TopLine.inc
                 /\ IsInclude <=> AtInclude(frames)
           /\ OnStack = FilesOf(frames)
<1>1. WorldOk /\ counter \in Int /\ Expanding(frames, seen, out) /\ Stacked(frames, seen)
  BY DEF SourceInv, Expanding
<1>2. Top = frames[Len(frames)] /\ FrameOk(Top, seen) /\ Top.file \in DOMAIN world /\ Top.pos \in Nat
  BY <1>1, TopFrame DEF Top
<1>3. OnStack = FilesOf(frames)
  BY DEF OnStack, FilesOf
<1>4. Len(world[Top.file]) \in Nat /\ Top.pos \in Nat \ {0} /\ world[Top.file] \in Seq(SourceLine)
  BY <1>1, <1>2 DEF WorldOk, FrameOk
<1>5. Top.comment <=> Commented(Top.file, Top.pos)
  BY <1>2 DEF FrameOk
<1>6. ASSUME Top.pos <= Len(world[Top.file])
      PROVE  /\ TopLine.k \in Kinds
             /\ IsInclude <=> SeesInclude(Top.file, Top.pos)
             /\ IncludeAt(Top) = TopLine.inc
             /\ IsInclude <=> AtInclude(frames)
  <2>1. TopLine \in SourceLine
    BY <1>4, <1>6 DEF TopLine
  <2>2. TopLine.k \in Kinds
    BY <2>1 DEF SourceLine, Kinds
  <2>3. IsInclude <=> SeesInclude(Top.file, Top.pos)
    BY <1>5, SeesMeans DEF IsInclude, TopLine
  <2>4. SeesInclude(Top.file, Top.pos) <=> AtInclude(frames)
    BY <1>2, <1>6 DEF AtInclude
  <2> QED BY <2>2, <2>3, <2>4 DEF IncludeAt, TopLine
<1> QED BY <1>1, <1>2, <1>3, <1>4, <1>6

LEMMA PosSet ==
    ASSUME NEW x \in FrameType, NEW p \in Nat
    PROVE  LET y == [x EXCEPT !.pos = p] IN
           y \in FrameType /\ y.pos = p /\ y.file = x.file /\ y.at = x.at /\ y.comment = x.comment
  BY DEF FrameType

LEMMA CommentSet ==
    ASSUME NEW x \in FrameType, NEW b \in BOOLEAN
    PROVE  LET y == [x EXCEPT !.comment = b] IN
           y \in FrameType /\ y.pos = x.pos /\ y.file = x.file /\ y.at = x.at /\ y.comment = b
  BY DEF FrameType

LEMMA AtSet ==
    ASSUME NEW x \in FrameType, NEW a \in {"line", "auto", "newline"}
    PROVE  LET y == [x EXCEPT !.at = a] IN
           y \in FrameType /\ y.pos = x.pos /\ y.file = x.file /\ y.at = a /\ y.comment = x.comment
  BY DEF FrameType

LEMMA CopyLineKeeps == SourceInv /\ CopyLine => SourceInv'
<1> SUFFICES ASSUME SourceInv, CopyLine PROVE SourceInv'
  OBVIOUS
<1> DEFINE F == Top.file
           P == Top.pos
           k == TopLine.k
           new == NumberedLines(F, P, k)
           c == CASE k = "open" -> TRUE [] k = "close" -> FALSE [] OTHER -> Top.comment
           t == [Top EXCEPT !.pos = @ + 1, !.comment = CASE TopLine.k = "open" -> TRUE
                                                         [] TopLine.k = "close" -> FALSE
                                                         [] OTHER -> @]
<1>1. expanded = "run" /\ P <= Len(world[F]) /\ ~IsInclude
  BY DEF CopyLine
<1>2. CASE Fails
  BY <1>2, Stops DEF Fails, Settle
<1>3. CASE ~Fails
  <2>1. /\ out' = out \o new /\ counter' = new[Len(new)].num + 1 /\ frames' = [frames EXCEPT ![Len(frames)] = t]
        /\ world' = world /\ debug' = debug /\ seen' = seen /\ expanded' = expanded
    BY <1>3 DEF CopyLine, AtTop
  <2>2. /\ WorldOk /\ counter \in Int /\ Expanding(frames, seen, out) /\ Stacked(frames, seen)
        /\ Top = frames[Len(frames)] /\ FrameOk(Top, seen) /\ F \in DOMAIN world /\ P \in Nat \ {0}
        /\ k \in Kinds /\ ~SeesInclude(F, P) /\ Len(world[F]) \in Nat
    BY <1>1, TopIs
  <2>3. /\ Top \in FrameType /\ Top.at = "line" /\ (Top.comment <=> Commented(F, P)) /\ F \in seen
    BY <2>2 DEF FrameOk, FrameType
  <2>4. /\ t.file = F /\ t.pos = P + 1 /\ t.at = "line" /\ t.comment = c /\ t \in FrameType
    <3>1. c \in BOOLEAN
      BY <2>3 DEF FrameType
    <3> DEFINE y == [Top EXCEPT !.pos = P + 1]
    <3>2. t = [y EXCEPT !.comment = c]
      BY <2>3, Zenon
    <3>3. y \in FrameType /\ y.pos = P + 1 /\ y.file = F /\ y.at = "line"
      <4>1. P + 1 \in Nat
        BY <2>2
      <4> HIDE DEF P
      <4> QED BY <2>3, <4>1, PosSet
    <3> HIDE DEF c, t, y
    <3> QED BY <3>1, <3>2, <3>3, CommentSet
  <2>5. c <=> Commented(F, P + 1)
    <3>1. Commented(F, P + 1) <=> k = "open" \/ (Commented(F, P) /\ k # "close")
      BY <2>2, CommentedStep DEF TopLine
    <3> QED BY <2>3, <3>1
  <2> HIDE DEF c, t, F, P, k, new
  <2>6. FrameOk(t, seen)
    <3>1. P + 1 \in 1 .. Len(world[F]) + 1
      BY <1>1, <2>2 DEF F, P
    <3> QED BY <2>3, <2>4, <2>5, <3>1 DEF FrameOk
  <2>7. LineText(new, F, P, k)
    BY <2>2, LineBecomes DEF new
  <2>8. AddsCopy(out, out', Len(out) + Len(new), F, P) /\ Counted(out')
    BY <2>1, <2>2, <2>7, OutGrows DEF Expanding
  <2>9. Stacked(frames', seen) /\ Included(frames', seen) /\ OneMore(frames, frames', seen, F, P)
    BY <1>1, <2>1, <2>2, <2>4, <2>6, Advanced DEF Expanding, F, P
  <2>10. Text(frames', seen, out')
    BY <2>2, <2>8, <2>9, TextCopied DEF Expanding
  <2>11. counter' \in Int
    BY <2>1, <2>7 DEF LineText
  <2>12. Expanding(frames', seen', out')
    BY <2>1, <2>8, <2>9, <2>10 DEF Expanding
  <2> QED BY <1>1, <2>1, <2>11, <2>12, GoesOn
<1> QED BY <1>2, <1>3

LEMMA AfterIncludeKeeps == SourceInv /\ AfterInclude => SourceInv'
<1> SUFFICES ASSUME SourceInv, AfterInclude PROVE SourceInv'
  OBVIOUS
<1> DEFINE F == Top.file
           P == Top.pos
           b == [k |-> "blank", file |-> Top.file, line |-> Top.pos, num |-> counter]
           t == [Top EXCEPT !.pos = @ + 1, !.at = "line"]
<1>1. expanded = "run" /\ P <= Len(world[F]) /\ IsInclude /\ Top.at = "newline"
  BY DEF AfterInclude
<1>2. CASE Fails
  BY <1>2, Stops DEF Fails, Settle
<1>3. CASE ~Fails
  <2>1. /\ out' = Append(out, b) /\ counter' = counter + 1 /\ frames' = [frames EXCEPT ![Len(frames)] = t]
        /\ world' = world /\ debug' = debug /\ seen' = seen /\ expanded' = expanded
    BY <1>3 DEF AfterInclude, AtTop
  <2>2. /\ WorldOk /\ counter \in Int /\ Expanding(frames, seen, out) /\ Stacked(frames, seen)
        /\ Top = frames[Len(frames)] /\ FrameOk(Top, seen) /\ F \in DOMAIN world /\ P \in Nat \ {0}
        /\ SeesInclude(F, P) /\ Len(world[F]) \in Nat /\ IncludeAt(Top) = world[F][P].inc
    BY <1>1, TopIs DEF IncludeAt
  <2>3. Top \in FrameType /\ (Top.comment <=> Commented(F, P)) /\ F \in seen
    BY <2>2 DEF FrameOk
  <2>4. t.file = F /\ t.pos = P + 1 /\ t.at = "line" /\ t.comment = Top.comment /\ t \in FrameType
    <3> DEFINE y == [Top EXCEPT !.pos = P + 1]
    <3>1. t = [y EXCEPT !.at = "line"]
      BY <2>3, Zenon
    <3>2. y \in FrameType /\ y.pos = P + 1 /\ y.file = F /\ y.comment = Top.comment
      <4>1. P + 1 \in Nat
        BY <2>2
      <4> HIDE DEF P
      <4> QED BY <2>3, <4>1, PosSet
    <3> HIDE DEF t, y
    <3> QED BY <3>1, <3>2, AtSet
  <2>5. Top.comment <=> Commented(F, P + 1)
    <3>1. Commented(F, P + 1) <=> world[F][P].k = "open" \/ (Commented(F, P) /\ world[F][P].k # "close")
      BY <2>2, CommentedStep
    <3>2. world[F][P].k = "include"
      BY <2>2, SeesMeans
    <3> QED BY <2>3, <3>1, <3>2
  <2>6. b \in OutLine /\ b.k \notin Kinds
    BY <2>2 DEF OutLine, Kinds
  <2>7. IncludeAt(Top) \in seen \ FilesOf(frames)
    BY <1>1, <2>2, TopFrame DEF Expanding, Included
  <2> HIDE DEF t, b
  <2>8. FrameOk(t, seen)
    <3>1. P + 1 \in 1 .. Len(world[F]) + 1
      BY <1>1, <2>2
    <3> HIDE DEF F, P
    <3> QED BY <2>3, <2>4, <2>5, <3>1 DEF FrameOk
  <2>9. SameCopies(out, out') /\ Counted(out')
    BY <2>1, <2>2, <2>6, BlankAdded DEF Expanding
  <2>10. Stacked(frames', seen) /\ Included(frames', seen) /\ OneMore(frames, frames', seen, F, P)
    BY <1>1, <2>1, <2>2, <2>4, <2>8, Advanced DEF Expanding
  <2>11. Text(frames', seen, out')
    BY <2>2, <2>7, <2>9, <2>10, TextPastInclude DEF Expanding
  <2>12. counter' \in Int
    BY <2>1, <2>2
  <2>13. Expanding(frames', seen', out')
    BY <2>1, <2>9, <2>10, <2>11 DEF Expanding
  <2> QED BY <1>1, <2>1, <2>12, <2>13, GoesOn
<1> QED BY <1>2, <1>3

LEMMA PushKeeps ==
    ASSUME SourceInv, expanded = "run", Top.pos <= Len(world[Top.file]), IsInclude, NEW a \in {"auto", "newline"},
           NEW g \in DOMAIN world, g \notin seen, Push(g, a),
           a = "auto" => TopLine.inc = g,
           a = "newline" => TopLine.inc \in seen \ OnStack
    PROVE  SourceInv'
<1>1. CASE Fails
  BY <1>1, Stops DEF Fails, Settle
<1>2. CASE ~Fails
  <2>1. /\ frames' = Append([frames EXCEPT ![Len(frames)] = Moved(frames[Len(frames)], a)], Frame(g))
        /\ seen' = seen \cup {g} /\ world' = world /\ debug' = debug /\ out' = out /\ counter' = counter
        /\ expanded' = expanded
    BY <1>2 DEF Push, AtTop, Moved, Top
  <2>2. /\ WorldOk /\ counter \in Int /\ Expanding(frames, seen, out)
        /\ Top = frames[Len(frames)] /\ AtInclude(frames) /\ IncludeAt(Top) = TopLine.inc /\ OnStack = FilesOf(frames)
    BY TopIs
  <2>3. Expanding(frames', seen', out')
    BY <2>1, <2>2, Pushed
  <2> QED BY <2>1, <2>2, <2>3, GoesOn
<1> QED BY <1>1, <1>2

LEMMA IncludeKeeps == SourceInv /\ Include => SourceInv'
<1> SUFFICES ASSUME SourceInv, Include PROVE SourceInv'
  OBVIOUS
<1>1. expanded = "run" /\ Top.pos <= Len(world[Top.file]) /\ IsInclude
  BY DEF Include
<1>2. CASE Fails
  BY <1>2, Stops DEF Fails, Settle
<1>3. CASE TopLine.inc \notin OnStack \cup seen /\ TopLine.inc \in DOMAIN world /\ Push(TopLine.inc, "auto")
  <2>1. "auto" \in {"auto", "newline"} /\ "auto" # "newline"
    OBVIOUS
  <2> QED BY <1>1, <1>3, <2>1, PushKeeps
<1>4. CASE /\ TopLine.inc \in seen \ OnStack
           /\ frames' = AtTop([Top EXCEPT !.at = "auto"])
           /\ UNCHANGED <<world, debug, seen, out, counter, expanded>>
  <2>1. frames' = [frames EXCEPT ![Len(frames)] = Moved(frames[Len(frames)], "auto")]
    BY <1>4 DEF AtTop, Moved, Top
  <2>2. /\ WorldOk /\ counter \in Int /\ Expanding(frames, seen, out)
        /\ Top = frames[Len(frames)] /\ AtInclude(frames) /\ IncludeAt(Top) = TopLine.inc /\ OnStack = FilesOf(frames)
    BY <1>1, TopIs
  <2>3. Expanding(frames', seen', out')
    <3>1. IncludeAt(frames[Len(frames)]) \in seen \ FilesOf(frames) /\ "auto" \in {"auto", "newline"}
      BY <1>4, <2>2
    <3>2. Expanding([frames EXCEPT ![Len(frames)] = Moved(frames[Len(frames)], "auto")], seen, out)
      BY <2>2, <3>1, AtChanged
    <3> QED BY <1>4, <2>1, <3>2, Zenon
  <2> QED BY <1>1, <1>4, <2>2, <2>3, GoesOn
<1> QED BY <1>2, <1>3, <1>4 DEF Include

LEMMA AutoIncludeKeeps == SourceInv /\ AutoInclude => SourceInv'
<1> SUFFICES ASSUME SourceInv, AutoInclude PROVE SourceInv'
  OBVIOUS
<1> DEFINE g == IF TopLine.inc \in DOMAIN AutoSource THEN AutoSource[TopLine.inc] ELSE TopLine.inc
<1>1. expanded = "run" /\ Top.pos <= Len(world[Top.file]) /\ IsInclude /\ Top.at = "auto"
  BY DEF AutoInclude
<1>2. /\ WorldOk /\ counter \in Int /\ Expanding(frames, seen, out) /\ Stacked(frames, seen)
      /\ Top = frames[Len(frames)] /\ AtInclude(frames) /\ IncludeAt(Top) = TopLine.inc /\ OnStack = FilesOf(frames)
  BY <1>1, TopIs
<1>3. TopLine.inc \in seen \ OnStack
  <2>1. Len(frames) \in 1 .. Len(frames)
    BY <1>2, TopFrame
  <2> QED BY <1>1, <1>2, <2>1 DEF Expanding, Included
<1>4. CASE g \notin seen /\ g \in DOMAIN world /\ Push(g, "newline")
  <2>1. "newline" \in {"auto", "newline"} /\ "auto" # "newline"
    OBVIOUS
  <2> HIDE DEF g
  <2> QED BY <1>1, <1>3, <1>4, <2>1, PushKeeps
<1>5. CASE /\ frames' = AtTop([Top EXCEPT !.at = "newline"])
           /\ UNCHANGED <<world, debug, seen, out, counter, expanded>>
  <2>1. frames' = [frames EXCEPT ![Len(frames)] = Moved(frames[Len(frames)], "newline")]
    BY <1>5 DEF AtTop, Moved, Top
  <2>2. Expanding(frames', seen', out')
    <3>1. IncludeAt(frames[Len(frames)]) \in seen \ FilesOf(frames) /\ "newline" \in {"auto", "newline"}
      BY <1>2, <1>3
    <3>2. Expanding([frames EXCEPT ![Len(frames)] = Moved(frames[Len(frames)], "newline")], seen, out)
      BY <1>2, <3>1, AtChanged
    <3> QED BY <1>5, <2>1, <3>2, Zenon
  <2> QED BY <1>1, <1>2, <1>5, <2>2, GoesOn
<1> QED BY <1>4, <1>5 DEF AutoInclude

LEMMA ReturnKeeps == SourceInv /\ Return => SourceInv'
<1> SUFFICES ASSUME SourceInv, Return PROVE SourceInv'
  OBVIOUS
<1>1. expanded = "run" /\ Top.pos > Len(world[Top.file])
  BY DEF Return
<1>2. WorldOk /\ counter \in Int /\ Expanding(frames, seen, out) /\ Top = frames[Len(frames)]
  BY <1>1, TopIs
<1>3. CASE Len(frames) = 1
  <2>1. /\ expanded' = "done" /\ world' = world /\ debug' = debug /\ seen' = seen /\ out' = out
    BY <1>3 DEF Return, Settle
  <2>2. TextComplete'
    BY <1>1, <1>2, <1>3, <2>1, TextEnd
  <2> QED BY <2>1, <2>2 DEF SourceInv
<1>4. CASE Len(frames) # 1
  <2>1. /\ frames' = SubSeq(frames, 1, Len(frames) - 1)
        /\ UNCHANGED <<world, debug, seen, out, counter, expanded>>
    BY <1>4 DEF Return
  <2>2. Expanding(frames', seen', out')
    BY <1>1, <1>2, <1>4, <2>1, Popped
  <2> QED BY <1>1, <1>2, <2>1, <2>2, GoesOn
<1> QED BY <1>3, <1>4

LEMMA SourceStart == SourceInit => SourceInv
<1> SUFFICES ASSUME SourceInit PROVE SourceInv
  OBVIOUS
<1>1. /\ world \in Worlds /\ frames = <<Frame(RootFile)>> /\ seen = {RootFile} /\ out = <<>> /\ counter = 1
      /\ expanded = "run"
  BY DEF SourceInit
<1>2. WorldOk /\ RootFile \in DOMAIN world
  BY <1>1, SourceAssumption DEF WorldOk
<1>3. /\ Frame(RootFile) \in FrameType /\ Frame(RootFile).file = RootFile /\ Frame(RootFile).pos = 1
      /\ Frame(RootFile).at = "line" /\ Frame(RootFile).comment = FALSE
  BY <1>2 DEF Frame, FrameType
<1>4. FrameOk(Frame(RootFile), seen)
  <2>1. 1 \in 1 .. Len(world[RootFile]) + 1
    BY <1>2 DEF WorldOk
  <2> QED BY <1>1, <1>3, <2>1, CommentedFirst DEF FrameOk
<1>5. Len(frames) = 1 /\ frames[1] = Frame(RootFile) /\ frames \in Seq(FrameType) /\ \A i \in 1 .. Len(frames) : i = 1
  BY <1>1, <1>3
<1>6. Stacked(frames, seen)
  BY <1>1, <1>2, <1>4, <1>5 DEF Stacked
<1>7. Included(frames, seen)
  BY <1>3, <1>5 DEF Included
<1>8. Copies(out) = {} /\ out \in Seq(OutLine)
  BY <1>1 DEF Copies
<1>9. \A f, n : ~Passed(frames, seen, f, n)
  <2> SUFFICES ASSUME NEW f, NEW n, Passed(frames, seen, f, n) PROVE FALSE
    OBVIOUS
  <2>1. f = RootFile /\ n \in 1 .. Len(world[f])
    BY <1>1 DEF Passed
  <2>2. n < 1
    BY <1>3, <1>5, <2>1 DEF Passed
  <2> QED BY <2>1, <2>2
<1>10. Text(frames, seen, out) /\ Counted(out)
  BY <1>8, <1>9 DEF Text, Counted
<1> QED BY <1>1, <1>2, <1>6, <1>7, <1>10 DEF SourceInv, Expanding, TextComplete

-----------------------------------------------------------------------------
(* The stages together: each invariant is kept by its own stage and started  *)
(* afresh by the one before it.                                              *)

LEMMA PollsSame == PollInv /\ UNCHANGED pollVars => PollInv'
<1> SUFFICES ASSUME PollInv, UNCHANGED pollVars PROVE PollInv'
  OBVIOUS
<1>1. program' = program /\ next' = next /\ inst' = inst /\ paren_depth' = paren_depth /\ polls' = polls
  BY DEF pollVars
<1>2. /\ AfterFor(next)' <=> AfterFor(next)
      /\ AfterDo(next)' <=> AfterDo(next)
      /\ AfterLoop(next)' <=> AfterLoop(next)
      /\ \A a : InHeader(a, next)' <=> InHeader(a, next)
      /\ \A a : Depth(a, next - 1)' = Depth(a, next - 1)
      /\ \A k : LoopBody(k)' <=> LoopBody(k)
  BY <1>1 DEF AfterFor, AfterDo, AfterLoop, InHeader, LoopBody, Matches, Blank, Depth
<1> QED BY <1>1, <1>2 DEF PollInv

LEMMA LinesSame == LineInv /\ UNCHANGED lineVars => LineInv'
  BY DEF LineInv, RowsInv, OpenInv, TableInv, lineVars

LEMMA EmptyProgram == <<>> \in Seq(Tokens)
  OBVIOUS

LEMMA PollInvariance == Spec => []PollInv
<1>1. Init => PollInv
  BY PollStart, EmptyProgram DEF Init, Fresh
<1>2. PollInv /\ [Next]_vars => PollInv'
  <2> SUFFICES ASSUME PollInv, [Next]_vars PROVE PollInv'
    OBVIOUS
  <2>1. CASE UNCHANGED pollVars
    BY <2>1, PollsSame
  <2>2. CASE Scan
    BY <2>2, ScanKeeps
  <2>3. Fresh' => PollInv'
    BY PollStart, PTL
  <2>4. CASE StartPolls
    BY <2>3, <2>4, ProgramsAssumption DEF StartPolls, Fresh
  <2>5. CASE Compile
    BY <2>3, <2>5, EmptyProgram DEF Compile, NoPolls, Fresh
  <2> QED BY <2>1, <2>2, <2>4, <2>5 DEF Next, Expand, Instrument, MapLines, vars
<1> QED BY <1>1, <1>2, PTL DEF Spec

LEMMA LineInvariance == Spec => []LineInv
<1>1. Init => LineInv
  BY LineStart DEF Init
<1>2. LineInv /\ [Next]_vars => LineInv'
  <2> SUFFICES ASSUME LineInv, [Next]_vars PROVE LineInv'
    OBVIOUS
  <2>1. UNCHANGED lineVars \/ LineNext
    BY DEF Next, Expand, StartPolls, Instrument, Compile, MapLines, vars
  <2> QED BY <2>1, LinesSame, LineKeeps
<1> QED BY <1>1, <1>2, PTL DEF Spec

LEMMA SourceSame == SourceInv /\ UNCHANGED sourceVars => SourceInv'
<1> SUFFICES ASSUME SourceInv, UNCHANGED sourceVars PROVE SourceInv'
  OBVIOUS
<1>1. /\ world' = world /\ debug' = debug /\ frames' = frames /\ seen' = seen /\ out' = out
      /\ counter' = counter /\ expanded' = expanded
  BY DEF sourceVars
<1>2. CASE expanded = "run"
  BY <1>1, <1>2, GoesOn DEF SourceInv
<1>3. CASE expanded # "run"
  <2>1. Copied' = Copied /\ \A f, n : SeesInclude(f, n)' <=> SeesInclude(f, n)
    BY <1>1 DEF Copied, SeesInclude
  <2>2. TextComplete'
    BY <1>1, <2>1 DEF SourceInv, TextComplete
  <2> QED BY <1>1, <1>3, <2>2 DEF SourceInv
<1> QED BY <1>2, <1>3

LEMMA SourceInvariance == Spec => []SourceInv
<1>1. Init => SourceInv
  BY SourceStart DEF Init
<1>2. SourceInv /\ [Next]_vars => SourceInv'
  <2> SUFFICES ASSUME SourceInv, [Next]_vars PROVE SourceInv'
    OBVIOUS
  <2>1. CASE UNCHANGED sourceVars
    BY <2>1, SourceSame
  <2>2. CASE SourceNext
    BY <2>2, CopyLineKeeps, IncludeKeeps, AutoIncludeKeeps, AfterIncludeKeeps, ReturnKeeps DEF SourceNext
  <2>3. CASE StartPolls
    BY <2>3, Stops DEF StartPolls, NoSource
  <2> QED BY <2>1, <2>2, <2>3 DEF Next, Expand, Instrument, Compile, MapLines, vars
<1> QED BY <1>1, <1>2, PTL DEF Spec

(* jit_instrument_loops: for every program, the finished text has jit_poll   *)
(* at the head of every loop body that is a block and nowhere else, however  *)
(* headers nest and whatever comments and strings stand between.             *)
THEOREM PollsAreInLoops == Spec => []PollsInLoops
  BY PollInvariance, PollEnd, PTL

(* jit_expand_source_recursive: for every set of files, whatever includes    *)
(* what, a text that is finished holds every line of every file it needs     *)
(* exactly once, an included file before the lines behind its include, and   *)
(* the compiler counts each line as the debugger shows it.                   *)
THEOREM TextIsComplete == Spec => []TextComplete
<1>1. SourceInv => TextComplete
  BY DEF SourceInv
<1> QED BY <1>1, SourceInvariance, PTL

(* jit_debug_lookup_line_pc: for every line program, and however small the   *)
(* table, an address is shown with the line it was compiled from or none.    *)
THEOREM LinesAreRight == Spec => []LineNeverWrong
  BY LineInvariance, LineEnd, PTL

-----------------------------------------------------------------------------
(* The debugger.                                                              *)

Typed ==
    /\ job \in [st : {"none", "run", "paused"}, win : Windows \cup {0}, debug : BOOLEAN,
                pc : Nat, ra : Nat, flag : BOOLEAN]
    /\ patched \subseteq Addrs
    /\ temp \subseteq [addr : Addrs, orig : Ops]
    /\ last \in [valid : BOOLEAN, paused : BOOLEAN, task : BOOLEAN, epc : Nat,
                 ra : Nat, flag : BOOLEAN, step_once : BOOLEAN]
    /\ resume \in Nat
    /\ dropped \subseteq Addrs
    /\ displaced \in BOOLEAN /\ skipped \in BOOLEAN
    /\ si \in [st : {"no", "armed", "stopped"}, ran : {0, 1}]

(* Every ebreak in the text that is not the program's own has a record, or   *)
(* had one that jit_debug_begin threw away, and a record that would write an *)
(* ebreak back is over one that has to stay.                                 *)
OnRecord ==
    /\ patched \subseteq BreakAddrs(temp) \cup dropped
    /\ \A a \in patched : Code[a].op # "ebreak"
    /\ \A b \in temp : b.orig = "ebreak" => b.addr \in dropped \/ Code[b.addr].op = "ebreak"

(* Records are thrown away only by a debug run of another window, and the    *)
(* end of a job ends that.                                                   *)
Displacement ==
    /\ dropped # {} => displaced
    /\ ~ LiveJob => patched = {} /\ ~ displaced

(* The session holds the registers of the program asleep in the trampoline,  *)
(* or those of the probe's own frame, whose return address is no text.       *)
SessionTrue ==
    job.st = "paused" /\ ~ displaced =>
        last.epc = resume /\ last.flag = job.flag /\ last.ra \in {job.ra, Out}

(* Between si and its trap: the breaks are where the step from here leads,   *)
(* and after one instruction the program stands on one.                      *)
StepAimed ==
    si.st = "armed" /\ ~ displaced =>
        /\ job.st = "run"
        /\ si.ran = 0 =>
              /\ job.pc = last.epc /\ job.pc \in Addrs
              /\ last.flag = job.flag /\ last.ra \in {job.ra, Out}
              /\ InstallSingleStep({}, last.epc, last) # {}
              /\ temp = TempBreaksAt({}, InstallSingleStep({}, last.epc, last))
              /\ patched = {a \in InstallSingleStep({}, last.epc, last) : Code[a].op # "ebreak"}
        /\ si.ran = 1 /\ job.pc \in Addrs => Fetch(patched, job.pc) = "ebreak"

StepStopped ==
    si.st = "stopped" /\ ~ displaced =>
        /\ job.st = "paused"
        /\ si.ran = 0 =>
              \/ /\ last.epc \in Addrs
                 /\ Code[last.epc].op = "branch" /\ Code[last.epc].to = last.epc
              \/ last.epc - 1 \in Addrs /\ Code[last.epc - 1].op = "ebreak"

IInv ==
    /\ Typed /\ OnRecord /\ Displacement
    /\ PausedJobReachable /\ SessionTrue /\ StepAimed /\ StepStopped

-----------------------------------------------------------------------------
LEMMA AddrsNat == Addrs \subseteq Nat \ {0}
<1>1. Len(Code) \in Nat
  <2> DEFINE R == [op : Ops, to : Nat]
  <2>1. Code \in Seq(R)
    BY CodeAssumption
  <2> HIDE DEF R
  <2> QED BY <2>1
<1> QED
  BY <1>1 DEF Addrs

(* An instruction has a kind and a target, which lies in the text when the   *)
(* instruction is a transfer inside it.                                      *)
LEMMA Instruction ==
    ASSUME NEW a \in Addrs
    PROVE  /\ Code[a].op \in Ops /\ Code[a].to \in Nat
           /\ Code[a].op \in {"jump", "branch", "call"} => Code[a].to \in Addrs
<1> DEFINE R == [op : Ops, to : Nat]
<1>1. Code \in Seq(R)
  BY CodeAssumption
<1>2. Code[a] \in R
  <2> HIDE DEF R
  <2> QED BY <1>1 DEF Addrs
<1>3. Code[a].op \in {"jump", "branch", "call"} => Code[a].to \in Addrs
  BY CodeAssumption, Zenon DEF Addrs
<1> QED
  BY <1>2, <1>3

(* si's breaks lie in the text.                                              *)
LEMMA StopsInText ==
    ASSUME NEW p, NEW pc \in Addrs, NEW r
    PROVE  InstallSingleStep(p, pc, r) \subseteq Addrs
<1>1. Fetch(p, pc) \in {"jump", "branch"} => Code[pc].to \in Addrs
  <2> SUFFICES ASSUME Fetch(p, pc) \in {"jump", "branch"} PROVE Code[pc].to \in Addrs
    OBVIOUS
  <2>1. Code[pc].op \in {"jump", "branch", "call"}
    BY DEF Fetch
  <2> QED BY <2>1, Instruction
<1> QED
  BY <1>1 DEF InstallSingleStep

(* Writing the records back leaves no ebreak in the text but those whose     *)
(* record was thrown away.                                                   *)
LEMMA RestoreClears ==
    ASSUME Typed, OnRecord
    PROVE  RestoreTempBreaks(patched, temp) \subseteq patched \cap dropped
<1> SUFFICES ASSUME NEW a \in patched, \A b \in temp : b.orig # "ebreak" => b.addr # a
             PROVE  a \in dropped
  BY DEF RestoreTempBreaks
<1>1. CASE \E b \in temp : b.addr = a
  BY <1>1 DEF OnRecord
<1>2. CASE ~ \E b \in temp : b.addr = a
  BY <1>2 DEF OnRecord, BreakAddrs
<1> QED
  BY <1>1, <1>2

(* The instruction si runs leads to one of the breaks it set.                *)
LEMMA StepLands ==
    ASSUME Typed, StepAimed, si.st = "armed", si.ran = 0, ~ displaced, Execute
    PROVE  job'.pc \in Addrs => job'.pc \in InstallSingleStep({}, job.pc, last)
<1> DEFINE c == Code[job.pc]
<1>1. /\ job.pc \in Addrs /\ job.pc \in Nat /\ last.flag = job.flag /\ last.ra \in {job.ra, Out}
      /\ InstallSingleStep({}, job.pc, last) # {}
  BY DEF Typed, StepAimed
<1>2. Fetch({}, job.pc) = c.op
  BY DEF Fetch
<1>3. ASSUME NEW a, GoTo(a) PROVE job'.pc = a
  BY <1>3 DEF GoTo, Typed
<1>4. CASE c.op \in {"plain", "probe"} /\ GoTo(job.pc + 1)
  BY <1>1, <1>2, <1>3, <1>4 DEF InstallSingleStep
<1>5. CASE c.op = "ext" /\ GoTo(job.pc + 1)
  BY <1>1, <1>2, <1>3, <1>5 DEF InstallSingleStep, SingleStepPc
<1>6. CASE c.op = "jump" /\ GoTo(c.to)
  BY <1>1, <1>2, <1>3, <1>6 DEF InstallSingleStep
<1>7. CASE c.op = "call" /\ GoTo(c.to)
  BY <1>1, <1>2, <1>3, <1>7 DEF InstallSingleStep, SingleStepPc
<1>8. CASE c.op = "branch" /\ GoTo(IF job.flag THEN c.to ELSE job.pc + 1)
  BY <1>1, <1>2, <1>3, <1>8 DEF InstallSingleStep
<1>9. CASE c.op = "ret" /\ job.ra # Out /\ GoTo(job.ra)
  BY <1>1, <1>2, <1>3, <1>9, AddrsNat DEF InstallSingleStep, Out
<1> QED
  BY <1>4, <1>5, <1>6, <1>7, <1>8, <1>9 DEF Execute

-----------------------------------------------------------------------------
(* Each step preserves the invariant.                                        *)

LEMMA InitIInv == DebugInit => IInv
<1> SUFFICES ASSUME DebugInit PROVE IInv
  OBVIOUS
<1>1. Typed
  BY DEF DebugInit, Typed, NoJob, NoLast, NoStep, Out
<1>2. OnRecord
  BY DEF DebugInit, OnRecord
<1>3. Displacement /\ PausedJobReachable /\ SessionTrue /\ StepAimed /\ StepStopped
  BY DEF DebugInit, Displacement, PausedJobReachable, SessionTrue, StepAimed, StepStopped,
         NoJob, NoStep, LiveJob
<1> QED
  BY <1>1, <1>2, <1>3 DEF IInv

LEMMA EndJobIInv ==
    ASSUME IInv, EndJob
    PROVE  IInv'
<1>1. Typed'
  BY DEF EndJob, IInv, Typed, NoJob, NoStep, Out, Addrs
<1>2. OnRecord'
  BY DEF EndJob, OnRecord
<1>3. Displacement' /\ PausedJobReachable' /\ SessionTrue' /\ StepAimed' /\ StepStopped'
  BY DEF EndJob, Displacement, PausedJobReachable, SessionTrue, StepAimed, StepStopped,
         NoJob, NoStep, LiveJob
<1> QED
  BY <1>1, <1>2, <1>3 DEF IInv

LEMMA StartDebugIInv ==
    ASSUME IInv, NEW win \in Windows, StartDebug(win)
    PROVE  IInv'
<1>1. CASE LiveJob /\ job.win # win
  BY <1>1 DEF StartDebug, IInv, Typed, OnRecord, Displacement, PausedJobReachable, SessionTrue,
         StepAimed, StepStopped, NoLast, NoStep, BreakAddrs, LiveJob, Out
<1>2. CASE ~ (LiveJob /\ job.win # win)
  BY <1>2 DEF StartDebug, IInv, Typed, OnRecord, Displacement, PausedJobReachable, SessionTrue,
         StepAimed, StepStopped, NewJob, NoLast, NoStep, BreakAddrs, LiveJob, Out
<1> QED
  BY <1>1, <1>2

LEMMA StartPlainIInv ==
    ASSUME IInv, NEW win \in Windows, StartPlain(win)
    PROVE  IInv'
  BY DEF StartPlain, IInv, Typed, OnRecord, Displacement, PausedJobReachable, SessionTrue,
         StepAimed, StepStopped, NewJob, BreakAddrs, LiveJob, Out

LEMMA GoToTyped ==
    ASSUME Typed, NEW a \in Nat, GoTo(a), job.pc \in Addrs
    PROVE  Typed'
<1>1. job.pc + 1 \in Nat
  BY DEF Typed
<1>2. PICK f \in BOOLEAN : job' = [job EXCEPT !.pc = a, !.flag = f,
                             !.ra = IF Code[job.pc].op = "call" THEN job.pc + 1 ELSE @]
  BY DEF GoTo
<1> QED
  BY <1>1, <1>2 DEF GoTo, Advance, Typed, Addrs

LEMMA ExecuteIInv ==
    ASSUME IInv, Execute
    PROVE  IInv'
<1>1. PICK a \in Nat : GoTo(a)
  <2>1. job.pc \in Addrs /\ job.pc + 1 \in Nat /\ job.ra \in Nat /\ Code[job.pc].to \in Nat
    BY AddrsNat, Instruction DEF Execute, Running, Stepable, IInv, Typed
  <2> QED BY <2>1 DEF Execute
<1>2. Typed'
  BY <1>1, GoToTyped DEF Execute, Running, Stepable, IInv
<1>3. /\ job.st = "run" /\ job'.st = "run"
      /\ UNCHANGED <<patched, temp, last, resume, bps, dropped, displaced, skipped>>
  BY <1>1 DEF GoTo, Execute, Running, IInv, Typed
<1>4. OnRecord' /\ Displacement' /\ PausedJobReachable' /\ SessionTrue'
  BY <1>3 DEF IInv, OnRecord, Displacement, PausedJobReachable, SessionTrue, BreakAddrs, LiveJob
<1>5. si' = IF si.st = "armed" THEN [si EXCEPT !.ran = 1] ELSE si
  BY <1>1 DEF GoTo, Advance
<1>6. StepStopped'
  BY <1>3, <1>5 DEF IInv, StepStopped, Typed
<1>7. StepAimed'
  <2> SUFFICES ASSUME si'.st = "armed", ~ displaced
               PROVE  si'.ran = 1 /\ (job'.pc \in Addrs => Fetch(patched, job'.pc) = "ebreak")
    BY <1>3 DEF StepAimed, Addrs, Fetch
  <2>1. si.st = "armed" /\ si'.ran = 1
    BY <1>5 DEF IInv, Typed
  <2>2. si.ran = 0
    <3> SUFFICES ASSUME si.ran # 0 PROVE FALSE
      OBVIOUS
    <3>1. si.ran = 1 /\ job.pc \in Addrs
      BY DEF IInv, Typed, Execute, Running, Stepable
    <3> QED BY <2>1, <3>1 DEF IInv, StepAimed, Execute
  <2>3. job'.pc \in Addrs => job'.pc \in InstallSingleStep({}, job.pc, last)
    BY <2>1, <2>2, StepLands DEF IInv
  <2>4. patched = {b \in InstallSingleStep({}, job.pc, last) : Code[b].op # "ebreak"}
    BY <2>1, <2>2 DEF IInv, StepAimed
  <2> QED BY <2>1, <2>3, <2>4 DEF Fetch
<1> QED
  BY <1>2, <1>4, <1>6, <1>7 DEF IInv

LEMMA ProbeHitIInv ==
    ASSUME IInv, ProbeHit
    PROVE  IInv'
<1>1. PICK f \in BOOLEAN :
        /\ job' = [job EXCEPT !.st = "paused", !.flag = f]
        /\ last' = [last EXCEPT !.valid = TRUE, !.paused = TRUE, !.task = TRUE,
                                !.epc = job.pc + 1, !.ra = Out, !.flag = f,
                                !.step_once = FALSE]
  BY DEF ProbeHit
<1>2. job.pc + 1 \in Nat /\ job.st = "run"
  BY DEF ProbeHit, IInv, Typed, Running
<1>3. Typed'
  BY <1>1, <1>2 DEF ProbeHit, IInv, Typed, Addrs, Out
<1> QED
  BY <1>1, <1>2, <1>3 DEF ProbeHit, IInv, Typed, OnRecord, Displacement, PausedJobReachable,
         SessionTrue, StepAimed, StepStopped, BreakAddrs, LiveJob, Paused, Out

(* An ebreak stops the program at the address of the record that covers it,  *)
(* or behind it when it is the program's own or the record was thrown away.  *)
LEMMA TrapEbreakIInv ==
    ASSUME IInv, TrapEbreak
    PROVE  IInv'
<1> DEFINE hit  == { b \in temp : b.addr = job.pc }
           here == hit # {} /\ \A b \in hit : b.orig # "ebreak"
           at   == IF here THEN job.pc ELSE job.pc + 1
<1>1. /\ patched' = IF hit # {} THEN RestoreTempBreaks(patched, temp) ELSE patched
      /\ temp' = IF hit # {} THEN {} ELSE temp
      /\ Pause(at, at, job)
      /\ skipped' \in BOOLEAN
  BY DEF TrapEbreak
<1>2. /\ job.st = "run" /\ job.pc \in Addrs /\ Fetch(patched, job.pc) = "ebreak"
      /\ job.pc \in Nat /\ at \in Nat
  BY DEF TrapEbreak, Running, Stepable, IInv, Typed
<1>3. patched' \subseteq patched /\ (hit # {} => patched' \subseteq dropped)
  BY <1>1, RestoreClears DEF IInv
<1> HIDE DEF at
<1>4. Typed'
  BY <1>1, <1>2, <1>3 DEF Pause, IInv, Typed, Addrs
<1>5. OnRecord'
  BY <1>1, <1>3 DEF Pause, IInv, OnRecord, BreakAddrs
<1>6. Displacement' /\ PausedJobReachable' /\ SessionTrue'
  BY <1>1, <1>2 DEF Pause, IInv, Typed, Displacement, PausedJobReachable, SessionTrue,
                    LiveJob, Paused
<1>7. StepAimed'
  BY <1>1 DEF Pause, StepAimed, IInv, Typed
<1>8. StepStopped'
  <2> SUFFICES ASSUME si'.st = "stopped", ~ displaced, si'.ran = 0
               PROVE  \/ at \in Addrs /\ Code[at].op = "branch" /\ Code[at].to = at
                      \/ at - 1 \in Addrs /\ Code[at - 1].op = "ebreak"
    BY <1>1 DEF Pause, StepStopped, IInv, Typed, Addrs
  <2>1. si.st = "armed" /\ si.ran = 0
    BY <1>1, <1>2 DEF Pause, IInv, Typed, StepStopped
  <2>2. /\ temp = TempBreaksAt({}, InstallSingleStep({}, job.pc, last))
        /\ patched = {a \in InstallSingleStep({}, job.pc, last) : Code[a].op # "ebreak"}
    BY <2>1 DEF IInv, StepAimed
  <2>3. CASE job.pc \in patched
    <3>1. Code[job.pc].op # "ebreak" /\ job.pc \in InstallSingleStep({}, job.pc, last)
      BY <2>2, <2>3
    <3>2. \A b \in hit : b.orig # "ebreak"
      BY <2>2, <3>1 DEF TempBreaksAt, Fetch
    <3>3. hit # {}
      <4>1. [addr |-> job.pc, orig |-> Fetch({}, job.pc)] \in temp
        BY <1>2, <2>2, <3>1 DEF TempBreaksAt
      <4> QED BY <4>1
    <3>4. at = job.pc
      BY <3>2, <3>3 DEF at
    <3>5. Code[job.pc].op = "branch" /\ Code[job.pc].to = job.pc
      <4>1. Fetch({}, job.pc) = Code[job.pc].op
        BY DEF Fetch
      <4>2. job.pc # job.pc + 1
        BY <1>2
      <4> QED BY <3>1, <4>1, <4>2, Zenon DEF InstallSingleStep
    <3> QED BY <1>2, <3>4, <3>5
  <2>4. CASE job.pc \notin patched
    <3>1. Code[job.pc].op = "ebreak"
      BY <1>2, <2>4 DEF Fetch
    <3>2. ~ here
      BY <2>2, <3>1 DEF TempBreaksAt, Fetch
    <3>3. at - 1 = job.pc
      BY <1>2, <3>2 DEF at
    <3> QED BY <1>2, <3>1, <3>3
  <2> QED BY <2>3, <2>4
<1> QED
  BY <1>4, <1>5, <1>6, <1>7, <1>8 DEF IInv

LEMMA WakeTyped ==
    ASSUME Typed, WakeJob
    PROVE  job' \in [st : {"none", "run", "paused"}, win : Windows \cup {0}, debug : BOOLEAN,
                     pc : Nat, ra : Nat, flag : BOOLEAN]
  BY DEF WakeJob, Typed

(* The program asleep in the trampoline is woken by every command that       *)
(* resumes it, and goes on where the session says it stopped.                *)
LEMMA WakesPaused ==
    ASSUME IInv, WakeJob
    PROVE  /\ job'.st = "paused" => displaced
           /\ job'.st = "none" <=> job.st = "none"
           /\ job.st = "paused" /\ ~ displaced =>
                 /\ job'.st = "run" /\ job'.pc = last.epc
                 /\ last.flag = job'.flag /\ last.ra \in {job'.ra, Out}
  BY DEF WakeJob, IInv, Typed, PausedJobReachable, SessionTrue

LEMMA ContinueIInv ==
    ASSUME IInv, Continue
    PROVE  IInv'
<1>1. RestoreTempBreaks(patched, temp) \subseteq patched \cap dropped
  BY RestoreClears DEF IInv
<1>2. Typed'
  BY <1>1, WakeTyped DEF Continue, IInv, Typed, NoStep, Addrs
<1>3. OnRecord'
  BY <1>1 DEF Continue, IInv, OnRecord, BreakAddrs
<1> QED
  BY <1>1, <1>2, <1>3, WakesPaused DEF Continue, IInv, Typed, Displacement, PausedJobReachable,
      SessionTrue, StepAimed, StepStopped, NoStep, LiveJob

LEMMA StepLineIInv ==
    ASSUME IInv, StepLine
    PROVE  IInv'
<1>1. Typed'
  BY WakeTyped DEF StepLine, IInv, Typed, NoStep, Addrs
<1>2. OnRecord'
  BY DEF StepLine, IInv, OnRecord, BreakAddrs
<1> QED
  BY <1>1, <1>2, WakesPaused DEF StepLine, IInv, Typed, Displacement, PausedJobReachable,
      SessionTrue, StepAimed, StepStopped, NoStep, LiveJob

LEMMA StepRefusedIInv ==
    ASSUME IInv, StepRefused
    PROVE  IInv'
<1>1. RestoreTempBreaks(patched, temp) \subseteq patched \cap dropped
  BY RestoreClears DEF IInv
<1>2. Typed'
  <2>1. /\ patched' = RestoreTempBreaks(patched, temp) /\ temp' = {} /\ si' = NoStep
        /\ UNCHANGED <<job, last, resume, bps, dropped, displaced, skipped>>
    BY Zenon DEF StepRefused
  <2>2. patched' \subseteq Addrs /\ temp' \subseteq [addr : Addrs, orig : Ops]
        /\ si' \in [st : {"no", "armed", "stopped"}, ran : {0, 1}]
    BY <1>1, <2>1 DEF IInv, Typed, NoStep
  <2> QED BY <2>1, <2>2 DEF IInv, Typed
<1>3. OnRecord'
  BY <1>1 DEF StepRefused, IInv, OnRecord, BreakAddrs
<1> QED
  BY <1>1, <1>2, <1>3 DEF StepRefused, IInv, Typed, Displacement, PausedJobReachable,
      SessionTrue, StepAimed, StepStopped, NoStep, LiveJob, Paused

(* si writes an ebreak with a record at each place the step can lead to.  A  *)
(* record over an ebreak that was already there is over the program's own    *)
(* or over one whose record was thrown away.                                 *)
LEMMA StepInstructionIInv ==
    ASSUME IInv, StepInstruction
    PROVE  IInv'
<1> DEFINE p     == RestoreTempBreaks(patched, temp)
           stops == InstallSingleStep(p, last.epc, last)
<1>1. /\ Paused /\ last.epc \in Addrs /\ stops # {}
      /\ temp' = TempBreaksAt(p, stops)
      /\ patched' = IF LiveJob THEN p \cup { a \in stops : Code[a].op # "ebreak" } ELSE p
      /\ last' = [last EXCEPT !.paused = FALSE, !.step_once = FALSE]
      /\ WakeJob
      /\ si' = IF job.st = "paused" THEN [st |-> "armed", ran |-> 0] ELSE NoStep
      /\ UNCHANGED <<resume, bps, dropped, displaced, skipped>>
  BY DEF StepInstruction, Stepable
<1>2. p \subseteq patched /\ p \subseteq dropped
  BY RestoreClears DEF IInv
<1>3. stops \subseteq Addrs
  BY <1>1, StopsInText
<1>4. ~ displaced => p = {}
  BY <1>2 DEF IInv, Displacement
<1> HIDE DEF p
<1> HIDE DEF stops
<1>5. \A b \in TempBreaksAt(p, stops) :
         b.addr \in stops /\ b.addr \in Addrs /\ b.orig = Fetch(p, b.addr)
  BY DEF TempBreaksAt
<1>6. \A a \in stops : a \in BreakAddrs(TempBreaksAt(p, stops))
  <2> SUFFICES ASSUME NEW a \in stops PROVE a \in BreakAddrs(TempBreaksAt(p, stops))
    OBVIOUS
  <2>1. [addr |-> a, orig |-> Fetch(p, a)] \in TempBreaksAt(p, stops)
    BY <1>3 DEF TempBreaksAt
  <2> QED BY <2>1 DEF BreakAddrs
<1>7. Typed'
  <2>1. temp' \subseteq [addr : Addrs, orig : Ops]
    <3> SUFFICES ASSUME NEW a \in stops \cap Addrs
                 PROVE  [addr |-> a, orig |-> Fetch(p, a)] \in [addr : Addrs, orig : Ops]
      BY <1>1 DEF TempBreaksAt
    <3>1. Fetch(p, a) \in Ops
      BY Instruction DEF Fetch, Ops
    <3> QED BY <3>1
  <2>2. patched' \subseteq Addrs
    BY <1>1, <1>2, <1>3 DEF IInv, Typed
  <2> QED
    BY <1>1, <2>1, <2>2, WakeTyped DEF IInv, Typed, NoStep, Addrs
<1>8. OnRecord'
  <2>1. patched' \subseteq BreakAddrs(temp') \cup dropped'
    BY <1>1, <1>2, <1>6
  <2>2. \A a \in patched' : Code[a].op # "ebreak"
    BY <1>1, <1>2 DEF IInv, OnRecord
  <2>3. \A b \in temp' : b.orig = "ebreak" => b.addr \in dropped' \/ Code[b.addr].op = "ebreak"
    BY <1>1, <1>2, <1>5 DEF Fetch
  <2> QED BY <2>1, <2>2, <2>3 DEF OnRecord
<1>9. Displacement' /\ PausedJobReachable' /\ SessionTrue' /\ StepStopped'
  BY <1>1, <1>4, WakesPaused DEF IInv, Typed, Displacement, PausedJobReachable, SessionTrue,
      StepStopped, NoStep, LiveJob
<1>10. StepAimed'
  <2> SUFFICES ASSUME job.st = "paused", ~ displaced
               PROVE  StepAimed'
    BY <1>1 DEF StepAimed, NoStep
  <2>1. /\ si' = [st |-> "armed", ran |-> 0] /\ job'.st = "run" /\ job'.pc = last.epc
        /\ last.flag = job'.flag /\ last.ra \in {job'.ra, Out}
    BY <1>1, WakesPaused
  <2>2. last'.epc = last.epc /\ last'.flag = last.flag /\ last'.ra = last.ra
    BY <1>1 DEF IInv, Typed
  <2>3. InstallSingleStep({}, last'.epc, last') = stops
    BY <1>4, <2>2 DEF stops, InstallSingleStep
  <2>4. temp' = TempBreaksAt({}, stops) /\ patched' = {a \in stops : Code[a].op # "ebreak"}
    BY <1>1, <1>4 DEF LiveJob
  <2> QED BY <1>1, <2>1, <2>2, <2>3, <2>4 DEF StepAimed, Addrs
<1> QED
  BY <1>7, <1>8, <1>9, <1>10 DEF IInv

LEMMA UnchangedIInv ==
    ASSUME IInv, UNCHANGED <<job, patched, temp, last, resume, dropped, displaced, skipped, si>>
    PROVE  IInv'
<1>1. Typed'
  BY DEF IInv, Typed, Addrs
<1>2. OnRecord' /\ Displacement' /\ PausedJobReachable' /\ SessionTrue'
  BY DEF IInv, OnRecord, Displacement, PausedJobReachable, SessionTrue, BreakAddrs, LiveJob, Paused
<1>3. StepAimed' /\ StepStopped'
  BY DEF IInv, StepAimed, StepStopped, Addrs
<1> QED
  BY <1>1, <1>2, <1>3 DEF IInv

LEMMA NextIInv == IInv /\ [DebugNext]_debugVars => IInv'
<1> SUFFICES ASSUME IInv, [DebugNext]_debugVars PROVE IInv'
  OBVIOUS
<1>1. ASSUME NEW win \in Windows, StartDebug(win) PROVE IInv'
  BY <1>1, StartDebugIInv
<1>2. ASSUME NEW win \in Windows, StartPlain(win) PROVE IInv'
  BY <1>2, StartPlainIInv
<1>3. CASE Kill \/ MainReturns
  BY <1>3, EndJobIInv DEF Kill, MainReturns
<1>4. CASE Execute \/ ProbeHit \/ TrapEbreak
  BY <1>4, ExecuteIInv, ProbeHitIInv, TrapEbreakIInv
<1>5. CASE Continue \/ StepLine \/ StepRefused \/ StepInstruction
  BY <1>5, ContinueIInv, StepLineIInv, StepRefusedIInv, StepInstructionIInv
<1>6. ASSUME NEW a \in Addrs, AddBreakpoint(a) PROVE IInv'
  BY <1>6, UnchangedIInv DEF AddBreakpoint
<1>7. CASE UNCHANGED debugVars
  BY <1>7, UnchangedIInv DEF debugVars
<1> QED
  BY <1>1, <1>2, <1>3, <1>4, <1>5, <1>6, <1>7 DEF DebugNext

-----------------------------------------------------------------------------
THEOREM Invariance == DebugSpec => []IInv
  BY InitIInv, NextIInv, PTL DEF DebugSpec

(* A program asleep in the pause trampoline is the one c, ni and si wake,    *)
(* unless a debug run of another window took the session from it.            *)
THEOREM PausedIsReachable == DebugSpec => []PausedJobReachable
<1>1. IInv => PausedJobReachable
  BY DEF IInv
<1> QED
  BY <1>1, Invariance, PTL

(* si executes exactly one instruction of the text, whatever the program.    *)
THEOREM StepsOneInstruction == DebugSpec => []OneInstruction
<1>1. IInv => OneInstruction
  BY DEF IInv, Typed, StepAimed, StepStopped, OneInstruction, Running, Stepable
<1> QED
  BY <1>1, Invariance, PTL

(* The trap handler steps over an instruction of the program only where a    *)
(* debug run of another window threw the record of an ebreak away.           *)
THEOREM NeverSkips == DebugSpec => NothingSkipped
<1>1. IInv /\ [DebugNext]_debugVars => [skipped' /\ ~ skipped => job.pc \in dropped]_debugVars
  <2> SUFFICES ASSUME IInv, DebugNext, skipped' # skipped, skipped', ~ skipped
               PROVE  job.pc \in dropped
    BY DEF debugVars
  <2>1. TrapEbreak
    BY DEF DebugNext, StartDebug, StartPlain, Kill, MainReturns, EndJob, Execute, GoTo, ProbeHit,
           Continue, StepLine, StepRefused, StepInstruction, AddBreakpoint
  <2>2. /\ Code[job.pc].op # "ebreak" /\ job.pc \in patched
        /\ \/ ~ \E b \in temp : b.addr = job.pc
           \/ \E b \in temp : b.addr = job.pc /\ b.orig = "ebreak"
    BY <2>1 DEF TrapEbreak, Fetch
  <2> QED
    BY <2>2 DEF IInv, OnRecord, BreakAddrs
<1> QED
  BY <1>1, Invariance, PTL DEF DebugSpec, NothingSkipped

=============================================================================
