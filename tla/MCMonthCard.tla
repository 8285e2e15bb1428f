---------------------------- MODULE MCMonthCard ----------------------------
(* MonthCard on a small instance. *)
EXTENDS MonthCard

CONSTANTS g1, g2

TwoChargers == {g1, g2}

=============================================================================
