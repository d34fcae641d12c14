--------------------------- MODULE MCChartRedraw ---------------------------
(* ChartRedraw on a small instance. *)
EXTENDS ChartRedraw, TLC

(* Seven or eight points; the last of eight is the highest and lies beyond *)
(* the reach of a window of six, or is no higher than the others.          *)
Seven == [i \in 1 .. 7 |-> 1]

MCData == {Seven, Append(Seven, 2)}

MCWindows == {6}

Perms == Permutations(Series) \cup Permutations(Sizes)

=============================================================================
