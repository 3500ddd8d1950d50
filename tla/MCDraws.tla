------------------------------ MODULE MCDraws -------------------------------
(***************************************************************************)
(* Values for Draws, invalid ones among them.                              *)
(***************************************************************************)
EXTENDS Draws

(* Of 4: one below the least rate, never, now and then, always, beyond.    *)
SomeRates  == {-1, 0, 2, 4, 5}
(* Three delays, which no power of two is a multiple of; one; none.        *)
SomeRanges == {<<0, 2>>, <<1, 1>>, <<2, 1>>}
=============================================================================
