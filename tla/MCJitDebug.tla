----------------------------- MODULE MCJitDebug -----------------------------
EXTENDS JitDebug

I(op)     == [op |-> op, to |-> 0]
T(op, to) == [op |-> op, to |-> to]

\* a loop with a call into the text, an ebreak of its own behind a probe, a call
\* out of the text, a branch to itself with an ebreak behind it, and the function
\* called
MCCode == << I("probe"), I("plain"), T("call", 12), T("branch", 1), I("probe"),
             I("ebreak"), I("ext"), T("branch", 8), I("ebreak"), T("jump", 11),
             I("exit"), I("plain"), I("ret") >>

=============================================================================
