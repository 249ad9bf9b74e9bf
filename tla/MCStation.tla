------------------------------ MODULE MCStation ------------------------------
(* Station with wings level and banked by a quarter turn, the nose below    *)
(* the end of the scale and a little up, and a pitch that is no number.     *)
EXTENDS Station

SomeRolls == {0, 1}
SomePitches == {-40, 10, NaN}
SomeGarbage == {7, NaN}
=============================================================================
