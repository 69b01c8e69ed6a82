---------------------------- MODULE MCBodyReader ----------------------------
(* BodyReader for TLC: one or two responses of at most two plain bytes.    *)
EXTENDS BodyReader

Answer(framing, gzip, keep, chunks) ==
  [framing |-> framing, gzip |-> gzip, keep |-> keep, chunks |-> chunks]

(* Two plain bytes, and two plain bytes compressed into one unit between a *)
(* header and a trailer; whole, and cut into two chunks.                   *)
Whole(gzip) == IF gzip THEN <<<<0, 2, 0>>>> ELSE <<<<1, 1>>>>
Cut(gzip)   == IF gzip THEN <<<<0, 2>>, <<0>>>> ELSE <<<<1>>, <<1>>>>
Empty       == << << >> >>

MCAnswers ==
  UNION {{Answer("chunked", g, k, Cut(g)), Answer("length", g, k, Whole(g)),
          Answer("length", FALSE, k, Empty)} : g \in BOOLEAN, k \in BOOLEAN}
    \cup {Answer("close", g, FALSE, Whole(g)) : g \in BOOLEAN}

Exchange(responses, unsent, mode) ==
  [responses |-> responses, unsent |-> unsent, mode |-> mode]

(* One response of which some may be lost, or two. *)
MCAllCases ==
  {Exchange(<<a>>, u, x) : a \in {b \in MCAnswers : b.chunks # Empty},
                           u \in 0 .. 3, x \in {"sync", "async"}}
    \cup {Exchange(<<a, b>>, 0, x) : a \in MCAnswers, b \in MCAnswers,
                                     x \in {"sync", "async"}}

MCCases == {c \in MCAllCases : Readable(c)}
=============================================================================
