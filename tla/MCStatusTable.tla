---------------------------- MODULE MCStatusTable ----------------------------
(* StatusTable with the widths of render.go and names chosen at the        *)
(* boundaries: one byte short of, exactly at and one byte past a width,     *)
(* with a two-byte rune across the cut or making a name fit in runes but    *)
(* not in bytes.  Two outputs.                                              *)
EXTENDS StatusTable

\* n ASCII bytes.
Ascii(n) == [j \in 1..n |-> "a"]

\* n bytes, a two-byte rune at bytes p and p+1, ASCII elsewhere.
RuneAt(n, p) == [j \in 1..n |-> IF j = p THEN "L" ELSE IF j = p + 1 THEN "C" ELSE "a"]

MCAssetWidth == 30
MCComponentWidth == 20
MCReasonWidth == 35

MCAssetNames == {Ascii(30), Ascii(31), RuneAt(31, 27), RuneAt(31, 1)}
MCComponentNames == {Ascii(19), RuneAt(21, 17)}
MCReasons == {<<>>, Ascii(47), RuneAt(36, 32)}
MCMaxRows == 2
=============================================================================
