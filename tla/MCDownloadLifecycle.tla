------------------------ MODULE MCDownloadLifecycle ------------------------
(* DownloadLifecycle for TLC: two io threads, three stream objects.        *)
EXTENDS DownloadLifecycle, TLC
CONSTANTS t1, t2, o1, o2, o3
MCSymmetry == Permutations(Thread) \cup Permutations(Object)
=============================================================================
