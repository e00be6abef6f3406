------------------------- MODULE MCExecuteParallel -------------------------
(* Bounds for TLC: two by two coordinates around zero, and two in a row. *)
EXTENDS ExecuteParallel

SquareMin == <<-1, 3>>
SquareMax == <<0, 4>>
RowMin == <<0>>
RowMax == <<1>>
=============================================================================
