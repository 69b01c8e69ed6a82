------------------------ MODULE MCRangefieldThreads ------------------------
(* RangefieldThreads for TLC: three blocks that touch and overlap, two     *)
(* threads.                                                                *)
EXTENDS RangefieldThreads
CONSTANTS t1, t2
MCBlocks    == {<<0, 2>>, <<1, 3>>, <<3, 4>>}
MCQuestions == {<<0, 3>>, <<2, 4>>}
=============================================================================
