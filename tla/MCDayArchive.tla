--------------------------- MODULE MCDayArchive ---------------------------
(* Two files of one day, or three of equal size.                           *)
EXTENDS DayArchive, TLC

CONSTANTS f1, f2, f3, a1, a2, c1, c2, r1
TwoFiles == {f1, f2}
ThreeFiles == {f1, f2, f3}
MCSize == [f \in File |-> IF f = f1 THEN 2 ELSE 1]
Equal == [f \in File |-> 1]
OneAppender == {a1}
OneCloser == {c1}
TwoClosers == {c1, c2}
MCMapper == {r1}
NoMapper == {}
Workers == Permutations({a1, a2}) \cup Permutations({c1, c2})
=============================================================================
