---------------------------- MODULE MCGdbMemory -----------------------------
EXTENDS GdbMemory

\* Every memory of up to eight bytes.
SmallMemories == UNION {[1 .. n -> Characters] : n \in 0 .. 8}

\* One byte more than a packet of 1024 characters has room for.
LongMemory == {[p \in 1 .. 1001 |-> "plain"]}
=============================================================================
