---------------------------- MODULE TouchConfig -----------------------------
(***************************************************************************)
(* The parameters of the touch console of 10.touch_gt1151/src/main.c and   *)
(* the input events it is called with, shared by the console on its own    *)
(* (TouchApp) and by the whole touch path (TouchSystem).                   *)
(***************************************************************************)
EXTENDS Integers

CONSTANTS
    MaxSlots,            \* MAX_SLOTS
    Width, Height,       \* TOUCH_W, TOUCH_H
    MarkFirst            \* the build marks a slot before it updates it

ASSUME MaxSlotsAssumption == MaxSlots \in Nat \ {0}
ASSUME SizeAssumption == Width \in Nat \ {0} /\ Height \in Nat \ {0}
ASSUME OrderAssumption == MarkFirst \in BOOLEAN

Codes == {"slot", "x", "y", "touch", "other"}
=============================================================================
