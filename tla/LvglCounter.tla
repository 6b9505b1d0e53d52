---------------------------- MODULE LvglCounter -----------------------------
(***************************************************************************)
(* The counter of 11.lvgl/src/main.c: main's loop shows count/100 in a     *)
(* label whenever count is a multiple of 100, runs LVGL, increments count  *)
(* and sleeps 10 ms.  The interrupt of the button sets count to 0 between  *)
(* any two accesses of main, the callback of a click sets it to 0 while    *)
(* LVGL runs.  ++count is a load and a store.                              *)
(***************************************************************************)
EXTENDS LvglCounterState

vars == <<place, count, loaded, label, armed, click, elapsed, undone, age, reset>>
history == <<elapsed, undone, age, reset>>

NoLabel == -1

Init ==
    /\ place = "start" /\ count = 0 /\ loaded = 0 /\ label = NoLabel
    /\ armed = FALSE /\ click = FALSE
    /\ elapsed = 0 /\ undone = FALSE /\ age = 0 /\ reset = FALSE

(***************************************************************************)
(* main before its loop.                                                   *)
(***************************************************************************)

\* The display is not ready, or the button cannot be set up.
Return ==
    /\ place = "start" /\ place' = "ended"
    /\ UNCHANGED <<count, loaded, label, armed, click, history>>

\* Without a button on the board its interrupt is left alone.
SetUpButton ==
    /\ place = "start" /\ place' = "widgets"
    /\ armed' \in BOOLEAN
    /\ UNCHANGED <<count, loaded, label, click, history>>

\* The widgets are made and LVGL runs for the first time.
SetUpWidgets ==
    /\ place = "widgets" /\ place' = "check"
    /\ UNCHANGED <<count, loaded, label, armed, click, history>>

(***************************************************************************)
(* The loop.                                                               *)
(***************************************************************************)

\* Bug for comparison: the label is set in the last round of a second.
MutSecondOver == count % Period = Period-1

SecondOver == count % Period = 0

SetLabel ==
    /\ place = "check" /\ SecondOver
    /\ place' = "handle"
    /\ label' = count \div Period /\ age' = 0 /\ reset' = FALSE
    /\ UNCHANGED <<count, loaded, armed, click, elapsed, undone>>

LeaveLabel ==
    /\ place = "check" /\ ~SecondOver
    /\ place' = "handle"
    /\ UNCHANGED <<count, loaded, label, armed, click, history>>

\* count is reset.
ResetTo0 == count' = 0 /\ elapsed' = 0 /\ age' = 0 /\ reset' = TRUE

\* lv_timer_handler: a click calls lv_btn_click_callback.
Handle ==
    /\ place = "handle" /\ place' = "load"
    /\ click' = FALSE
    /\ IF click THEN ResetTo0 /\ undone' = FALSE ELSE UNCHANGED <<count, history>>
    /\ UNCHANGED <<loaded, label, armed>>

Load ==
    /\ place = "load" /\ place' = "store"
    /\ loaded' = count
    /\ UNCHANGED <<count, label, armed, click, history>>

\* Bug for comparison: the counter sticks to its last value.
MutStore ==
    /\ place = "store" /\ place' = "sleep"
    /\ count' = (IF loaded = Wrap-1 THEN loaded ELSE loaded+1)
    /\ elapsed' = (elapsed+1) % Wrap /\ age' = age+1
    /\ UNCHANGED <<loaded, label, armed, click, undone, reset>>

Store ==
    /\ place = "store" /\ place' = "sleep"
    /\ count' = (loaded+1) % Wrap
    /\ elapsed' = (elapsed+1) % Wrap /\ age' = age+1
    /\ UNCHANGED <<loaded, label, armed, click, undone, reset>>

\* k_sleep is over.
Wake ==
    /\ place = "sleep" /\ place' = "check"
    /\ UNCHANGED <<count, loaded, label, armed, click, history>>

Main ==
    SetUpButton \/ SetUpWidgets \/ SetLabel \/ LeaveLabel \/ Handle \/ Load \/ Store \/ Wake

(***************************************************************************)
(* The user.                                                               *)
(***************************************************************************)

\* The button is pressed: its interrupt.
button_isr_callback ==
    /\ armed
    /\ ResetTo0
    /\ undone' = (place = "store")
    /\ UNCHANGED <<place, loaded, label, armed, click>>

Click ==
    /\ ~click /\ click' = TRUE
    /\ UNCHANGED <<place, count, loaded, label, armed, history>>

Next == Main \/ Return \/ button_isr_callback \/ Click

Spec == Init /\ [][Next]_vars

(***************************************************************************)
(* Properties (see also LvglCounterState).                                 *)
(***************************************************************************)

\* Every variable has its type.
TypeOK ==
    /\ place \in {"start", "widgets", "check", "handle", "load", "store", "sleep", "ended"}
    /\ count \in 0..Wrap-1 /\ loaded \in 0..Wrap-1 /\ elapsed \in 0..Wrap-1
    /\ label \in {NoLabel} \cup 0 .. (Wrap-1) \div Period
    /\ armed \in BOOLEAN /\ click \in BOOLEAN /\ undone \in BOOLEAN /\ reset \in BOOLEAN
    /\ age \in 0..Period
=============================================================================
