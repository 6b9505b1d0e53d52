----------------------------- MODULE HidDevice ------------------------------
(***************************************************************************)
(* What the USB keyboard and the USB mouse (17.hid_keyboard, 18.hid_mouse) *)
(* have in common: the board's inputs, a message queue between the input   *)
(* callback and main, the report main has in hand, and a bus whose host    *)
(* fetches it.                                                             *)
(***************************************************************************)
EXTENDS Integers, Sequences

CONSTANTS
    QueueSize,     \* K_MSGQ_DEFINE(..., 2, 1)
    MaxEdges       \* bound: presses and releases in a behaviour

ASSUME QueueAssumption == QueueSize \in Nat \ {0}
ASSUME BoundAssumption == MaxEdges \in Nat

VARIABLES
    pressed,       \* board: the inputs held down
    pc,            \* main: next step
    report,        \* main: its report
    suspended,     \* USB: bus suspended
    host,          \* host: what the reports it fetched tell it
    edges          \* bound: edges so far
=============================================================================
