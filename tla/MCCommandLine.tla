---------------------------- MODULE MCCommandLine ----------------------------
(***************************************************************************)
(* Command lines put together from a few pieces: names of one letter, the  *)
(* letters being words as well, blanks, separators, and a whole pipeline.  *)
(***************************************************************************)
EXTENDS CommandLine

E1 == <<"e">>
G1 == <<"g">>

CONSTANT MaxPieces  \* bound: pieces in a line

Pieces ==
  { E1, <<"x", "space">>, <<"space">>, <<"tab">>, <<"|">>, <<"&">>,
    E1 \o <<"space", "x", "space", "e", "|">> \o G1 \o <<"tab", "x">>,
    <<"space", "|", "space">> \o G1 \o <<"space">> }

PieceSeqs == UNION {[1 .. n -> Pieces] : n \in 1 .. MaxPieces}
SmallInputs == {FlattenSeq(p) : p \in PieceSeqs}
=============================================================================
