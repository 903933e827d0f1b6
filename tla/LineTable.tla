----------------------------- MODULE LineTable -----------------------------
(***************************************************************************)
(* The debugger's address-to-line table: jit_debug_build_line_map_from_    *)
(* dwarf of tcc_glue.c runs the line program the compiler left, and        *)
(* trap.c keeps the resulting ranges, and the return addresses of probes,  *)
(* in a table of fixed size.                                               *)
(*                                                                         *)
(* A file is real (TRUE) or synthetic (FALSE: "<string>", the prelude).    *)
(* Columns, flags and discriminators are stored and shown only.  The       *)
(* opcodes that only set one register (set_file, advance_line, ...) are    *)
(* part of the row that follows them; the address never decreases inside a *)
(* sequence, which is how the compiler emits it.                           *)
(***************************************************************************)
EXTENDS Integers, Sequences, FiniteSets

CONSTANTS
    TextAddrs,      \* addresses of the text, 1 .. n; a row may lie behind it
    Lines,          \* line numbers
    MaxRows,        \* bound: rows of the line program
    JIT_DEBUG_LINE_MAP_MAX

ASSUME LineAssumption ==
    /\ JIT_DEBUG_LINE_MAP_MAX \in Nat \ {0} /\ MaxRows \in Nat
    /\ TextAddrs \subseteq Nat \ {0} /\ Lines \subseteq Nat

VARIABLES
    addr,       \* the program's address register
    pending,    \* the row whose range is still open, or NoRow
    rows,       \* history: the rows so far
    table,      \* jit_debug_line_map: a sequence of entries
    map_next,   \* jit_debug_line_map_next: the entry overwritten next
    built       \* the line program has ended

lineVars == <<addr, pending, rows, table, map_next, built>>

NoRow == [pc |-> 0, line |-> 0, real |-> FALSE]

LineInit ==
    /\ addr = 1 /\ pending = NoRow /\ rows = <<>>
    /\ table = <<>> /\ map_next = 1 /\ built = FALSE

-----------------------------------------------------------------------------
\* jit_debug_record_line_span: the entry of the same span is replaced unless
\* it is better; otherwise a free entry, otherwise the next in turn
Record(t, e) ==
    LET same == { i \in 1 .. Len(t) : t[i].pc = e.pc /\ t[i].end = e.end } IN
    IF same # {} THEN [i \in 1 .. Len(t) |-> IF i \in same /\ e.quality >= t[i].quality THEN e ELSE t[i]]
    ELSE IF Len(t) < JIT_DEBUG_LINE_MAP_MAX THEN Append(t, e)
    ELSE [t EXCEPT ![map_next] = e]

Overwrites(t, e) ==
    /\ Len(t) = JIT_DEBUG_LINE_MAP_MAX
    /\ \A i \in 1 .. Len(t) : ~(t[i].pc = e.pc /\ t[i].end = e.end)

Store(e) ==
    /\ table' = Record(table, e)
    /\ map_next' = IF Overwrites(table, e) THEN (map_next % JIT_DEBUG_LINE_MAP_MAX) + 1 ELSE map_next

PendingSpan(row, end) == [pc |-> row.pc, end |-> end, line |-> row.line, quality |-> 1]

\* jit_dwarf_emit_pending_range
EmitPending(end) ==
    IF pending # NoRow /\ end > pending.pc THEN Store(PendingSpan(pending, end))
    ELSE UNCHANGED <<table, map_next>>

CommitRowLate(pc, line, real) ==
    /\ ~built /\ Len(rows) < MaxRows /\ pc >= addr
    /\ IF real THEN EmitPending(pc) ELSE UNCHANGED <<table, map_next>>
    /\ pending' = IF real THEN [pc |-> pc, line |-> line, real |-> TRUE] ELSE pending
    /\ rows' = Append(rows, [pc |-> pc, line |-> line, real |-> real])
    /\ addr' = pc
    /\ UNCHANGED built

\* jit_dwarf_commit_row: a row closes the range before it; a synthetic row
\* opens none
CommitRow(pc, line, real) ==
    /\ ~built /\ Len(rows) < MaxRows /\ pc >= addr
    /\ EmitPending(pc)
    /\ pending' = IF real THEN [pc |-> pc, line |-> line, real |-> TRUE] ELSE NoRow
    /\ rows' = Append(rows, [pc |-> pc, line |-> line, real |-> real])
    /\ addr' = pc
    /\ UNCHANGED built

\* DW_LNE_end_sequence, or the end of the unit
EndSequence(pc) ==
    /\ ~built /\ pc >= addr
    /\ EmitPending(pc)
    /\ rows' = Append(rows, [pc |-> pc, line |-> 0, real |-> FALSE])
    /\ pending' = NoRow /\ addr' = pc /\ built' = TRUE

\* debug_probe: jit_debug_record_line_pc_probe of its return address
ProbeLine(pc, line) ==
    /\ built /\ Len(rows) <= MaxRows + 1
    /\ \E i \in 1 .. Len(rows) - 1 :
          rows[i].real /\ rows[i].line = line /\ rows[i].pc <= pc /\ pc < rows[i + 1].pc
    /\ Store([pc |-> pc, end |-> 0, line |-> line, quality |-> 2])
    /\ UNCHANGED <<addr, pending, rows, built>>

LineNext ==
    \/ \E pc \in TextAddrs, line \in Lines, real \in BOOLEAN : CommitRow(pc, line, real)
    \/ \E pc \in TextAddrs : EndSequence(pc)
    \/ \E pc \in TextAddrs, line \in Lines : ProbeLine(pc, line)

-----------------------------------------------------------------------------
\* jit_debug_lookup_line_pc_entry: the innermost range around pc, otherwise
\* the best entry for exactly pc; 0 when there is none
Lookup(pc) ==
    LET ranges == { i \in 1 .. Len(table) : table[i].pc <= pc /\ pc < table[i].end }
        exact  == { i \in 1 .. Len(table) : table[i].pc = pc /\ i \notin ranges }
        Inner(i, j) == \/ table[i].pc > table[j].pc
                       \/ table[i].pc = table[j].pc /\ table[i].end <= table[j].end
    IN  IF ranges # {} THEN table[CHOOSE i \in ranges : \A j \in ranges : Inner(i, j)].line
        ELSE IF exact # {}
        THEN table[CHOOSE i \in exact : \A j \in exact : table[i].quality >= table[j].quality].line
        ELSE 0

\* the line the program's rows give address pc: that of the last row at or
\* before it, if it belongs to a real file
LineOf(pc) ==
    LET before == { i \in 1 .. Len(rows) : rows[i].pc <= pc }
        i == CHOOSE m \in before : \A k \in before : k <= m
    IN  IF before = {} \/ ~rows[i].real THEN 0 ELSE rows[i].line

\* While the table is being filled, overwritten and extended by probes, an
\* address is shown with the line it was compiled from or with none; an
\* address of the prelude or of no row is never shown with a line.
LineNeverWrong ==
    built => \A pc \in TextAddrs : Lookup(pc) \in {LineOf(pc), 0}

=============================================================================
