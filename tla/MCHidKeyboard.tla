--------------------------- MODULE MCHidKeyboard ----------------------------
(* Values of the constants of HidKeyboard for TLC. *)
EXTENDS HidKeyboard, TLC

CONSTANTS key0, key1, other

MCKeys == {key0, key1}
MCOtherKeys == {other}
=============================================================================
