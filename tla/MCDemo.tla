------------------------------- MODULE MCDemo -------------------------------
(***************************************************************************)
(* Instances of Demo for TLC.                                              *)
(***************************************************************************)
EXTENDS Demo

\* 28 December of 2025 and 31 January of 2026: days of two years, and a day
\* that some months before do not have.
TurnOfYear == {DateOf(71, 28), DateOf(72, 31)}

\* 31 December of 2025, a day to come on the first of these days, and one of
\* the year before on the second.
NewYearsEve == {DateOf(71, 31)}
=============================================================================
