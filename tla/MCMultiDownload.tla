--------------------------- MODULE MCMultiDownload ---------------------------
(* MultiDownload for TLC: a file of a few bytes.                           *)
EXTENDS MultiDownload
=============================================================================
