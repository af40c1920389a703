---------------------------- MODULE MCAnalysis ----------------------------
(* Instances of Analysis for TLC: blocks of two sectors of two cells. *)
EXTENDS Analysis

Block(a, b, c, d) == [n \in 0..3 |-> <<a, b, c, d>>[n + 1]]
Sector(a, b) == [n \in 0..1 |-> <<a, b>>[n + 1]]

\* Zeros, a full block, half a sector, a block with a uniform first sector, and
\* one whose second sector is another's first.
MCContents == {Block(0, 0, 0, 0), Block(1, 2, 2, 1), Block(1, 0, 0, 0),
               Block(0, 0, 1, 2), Block(2, 1, 1, 2)}
MCFiles == {<<Sector(1, 2)>>, <<Sector(0, 0), Sector(2, 1)>>, <<Sector(0, 0)>>}
=============================================================================
