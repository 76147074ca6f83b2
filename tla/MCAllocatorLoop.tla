-------------------------- MODULE MCAllocatorLoop --------------------------
(* Instances of AllocatorLoop for TLC: a range of five ports, one of them    *)
(* reserved, so that probes wrap, collide and run out.                       *)
EXTENDS AllocatorLoop

MCUsed == SUBSET (10 .. 14) \cup {{20}}
MCBusy == {{}, {10, 20}, {12, 13}, {14}}
=============================================================================
