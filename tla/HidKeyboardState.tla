-------------------------- MODULE HidKeyboardState --------------------------
(***************************************************************************)
(* The state of the USB keyboard of 17.hid_keyboard/src/main.c, and what   *)
(* is to hold of it; HidKeyboard has the steps.                            *)
(*                                                                         *)
(* Each key owns fields of the report nobody else writes (KEY_0..KEY_2 one *)
(* key code each, KEY_3 the modifier and three key codes), so a report is  *)
(* the set of the keys whose fields are set.                               *)
(***************************************************************************)
EXTENDS HidDevice

CONSTANTS
    Keys,          \* the keys of the report (INPUT_KEY_0 .. INPUT_KEY_3)
    OtherKeys,     \* keys main does not recognise
    RemoteWakeup   \* CONFIG_SAMPLE_USBD_REMOTE_WAKEUP

ASSUME KeysAssumption == Keys \cap OtherKeys = {}
ASSUME WakeupAssumption == RemoteWakeup \in BOOLEAN

AllKeys == Keys \cup OtherKeys

VARIABLES          \* report: the keys whose fields are set; host: the same
    kb_msgq,       \* key events put and not yet taken
    press,         \* main: the event taken is a press
    kb_ready,      \* USB: interface ready (kb_ready)
    wakeup,        \* USB: wakeup requested and not yet answered
    missed,        \* history: keys whose last edge found the queue full
    upToDate       \* history: the last change of the report reached the host

\* Every variable has its type.
KeyboardTypeOK ==
    /\ pressed \subseteq AllKeys /\ report \subseteq Keys /\ host \subseteq Keys
    /\ kb_msgq \in Seq([code : AllKeys, value : BOOLEAN]) /\ Len(kb_msgq) <= QueueSize
    /\ pc \in {"get", "ready", "bus", "submit", "blocked"}
    /\ press \in BOOLEAN /\ kb_ready \in BOOLEAN /\ suspended \in BOOLEAN
    /\ wakeup \in BOOLEAN /\ missed \subseteq AllKeys /\ upToDate \in BOOLEAN
    /\ edges \in 0..MaxEdges

\* When main has nothing left to do and its last report was fetched, the host
\* holds exactly the keys that are held on the board, whatever was unplugged,
\* suspended or submitted in vain before; the only keys that may be stuck are
\* those whose very last edge found the queue of two full.
HostSeesKeys ==
    kb_msgq = <<>> /\ pc = "get" /\ upToDate =>
        \A k \in Keys \ missed : k \in host <=> k \in pressed
=============================================================================
