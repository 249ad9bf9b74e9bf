---------------------------- MODULE MCSerialLink ----------------------------
(* The serial line with packets of a few bytes, all of different sizes.    *)
EXTENDS SerialLink
=============================================================================
