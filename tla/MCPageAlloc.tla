---------------------------- MODULE MCPageAlloc ----------------------------
EXTENDS PageAlloc

\* Every value of a 6-bit word, so that size + header + rounding wraps.
MCSizes == 0 .. WORD - 1

============================================================================
