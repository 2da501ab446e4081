----------------------------- MODULE MCLab2bList -----------------------------
(* Values of the uninitialised j for the runs of Lab2bList.                 *)
EXTENDS Lab2bList

(* No length taken, one taken, or an access before the array.               *)
RaceJ == {-1, 0, 1}

NegativeJ == {0, -1}
=============================================================================
