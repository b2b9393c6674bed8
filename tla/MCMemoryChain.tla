---------------------------- MODULE MCMemoryChain ----------------------------
(* Values for the constants of MemoryChain.                                *)
EXTENDS MemoryChain

MCWriters == {1}
MCAddresses == {0}
MCData == {0, 1}
=============================================================================
