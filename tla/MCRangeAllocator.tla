-------------------------- MODULE MCRangeAllocator --------------------------
(* RangeAllocator for TLC: two threads, a file of a few bytes, requests of *)
(* two bytes, every bitfield a meta file can hold.                         *)
EXTENDS RangeAllocator
CONSTANTS t1, t2
=============================================================================
