------------------------------- MODULE MCFace -------------------------------
(* A small instance of Face for TLC. *)
EXTENDS Face

(* Runes at even places are wide, and the ellipsis is. *)
RuneWidth(r) == IF r = Ellipsis \/ (r # Blank /\ r % 2 = 0) THEN 2 ELSE 1
SumOfRunes(s) == FoldLeft(LAMBDA w, r : w + RuneWidth(r), 0, s)

SomeCents == {-250, -100, -7, 0, 5, 10, 99, 100, 1995}
SomeDegrees == {0, 90, 180, 270, -90, 450}
SmallOffsets == {<<0, 0>>, <<-1, 1>>}
=============================================================================
