----------------------------- MODULE MCJitJobs -----------------------------
EXTENDS JitJobs, TLC

\* which kernel block malloc hands out does not matter
PtrSymmetry == Permutations(Ptrs)

=============================================================================
