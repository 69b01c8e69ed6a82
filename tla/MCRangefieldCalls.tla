------------------------- MODULE MCRangefieldCalls -------------------------
(* RangefieldCalls for TLC: files of a few bytes, every map over them.     *)
EXTENDS RangefieldCalls
=============================================================================
