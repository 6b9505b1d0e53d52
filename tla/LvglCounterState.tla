-------------------------- MODULE LvglCounterState --------------------------
(***************************************************************************)
(* The state of the counter of 11.lvgl/src/main.c, and what is to hold of  *)
(* it; LvglCounter has the steps.                                          *)
(***************************************************************************)
EXTENDS Integers

CONSTANTS
    Period,       \* 100 rounds of the loop: a second
    Wrap          \* 2^32, scaled down: not a multiple of Period either

ASSUME PeriodAssumption == Period \in Nat \ {0}
ASSUME WrapAssumption == Wrap \in Nat /\ Wrap > Period

VARIABLES
    place,        \* where main is
    count,        \* count
    loaded,       \* the value of count that ++count has loaded
    label,        \* the number in count_label
    armed,        \* the button's interrupt is enabled
    click,        \* the user clicked the button widget; LVGL does not know yet
    elapsed,      \* history: rounds since the last reset
    undone,       \* history: the last reset hit between load and store
    age,          \* history: rounds since the label was set or count reset
    reset         \* history: count was reset since the label was set

\* 11.lvgl/Kconfig:9, "Reset counter when sw0 is pressed": count is the number
\* of rounds since the last reset, by the button or a click, whenever it came -
\* except that a reset between the load and the store of ++count is undone.
CountsFromReset == count = elapsed \/ undone

\* README.rst:13, the counter "increments every second": when main sleeps, the
\* label shows the second of the round just shown, unless count was reset since
\* it was set; and it is set again within a second of the last reset, so it
\* never stays on an old number.
LabelKeepsUp ==
    place = "sleep" =>
        /\ age <= Period
        /\ ~reset => label = ((count + Wrap-1) % Wrap) \div Period
=============================================================================
