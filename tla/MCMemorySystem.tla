---------------------------- MODULE MCMemorySystem ----------------------------
(* Values for the constants of MemoryRefinement and MemoryLatency.         *)
EXTENDS MemoryRefinement, MemoryLatency

\* One client writes, the others read; the address is inside the second dword.
MCWriters == {0}
MCAddressesUnaligned == {7}
MCData == {0, 1}
=============================================================================
