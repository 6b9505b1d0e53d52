------------------------------ MODULE TouchApp ------------------------------
(***************************************************************************)
(* The touch console of 10.touch_gt1151/src/main.c: touch_cb keeps the     *)
(* state of every slot and marks it dirty, the callback of a 50 ms timer   *)
(* prints the dirty slots and clears the marks.                            *)
(*                                                                         *)
(* touch_cb runs in the thread of the input subsystem, the timer callback  *)
(* in an interrupt: it may run between any two stores of touch_cb, never   *)
(* the other way round.  The two share slots without a lock, an atomic     *)
(* access or a volatile qualifier, so C lets a build carry out the two     *)
(* stores of an update (the state, the mark) in either order.              *)
(***************************************************************************)
EXTENDS TouchConfig

Slots == 0 .. MaxSlots-1

\* The input events the callback is called with.
Inputs == [code : Codes, value : Int]

VARIABLES
    slots,        \* slots[].x, .y and .down
    dirty,        \* slots[].dirty
    current,      \* current_slot
    cb,           \* touch_cb: the store it has still to do
    shown         \* console: the last line printed for each slot

vars == <<slots, dirty, current, cb, shown>>

States == [x : 0 .. Width-1, y : 0 .. Height-1, down : BOOLEAN]
Idle == [slot |-> -1]

\* The line printed for a slot: an UP line has no coordinates.
Up == [down |-> FALSE]
Line(st) == IF st.down THEN st ELSE Up

\* Bug for comparison: no upper limit.
MutClamp(v, hi) == IF v < 0 THEN 0 ELSE v
Clamp(v, hi) == IF v < 0 THEN 0 ELSE IF v > hi THEN hi ELSE v

Init ==
    /\ slots = [s \in Slots |-> [x |-> 0, y |-> 0, down |-> FALSE]]
    /\ dirty = [s \in Slots |-> FALSE]
    /\ current = 0
    /\ cb = Idle
    /\ shown = [s \in Slots |-> Up]

(***************************************************************************)
(* touch_cb, up to the first of its two stores.                            *)
(***************************************************************************)

Mark(s) == dirty' = [dirty EXCEPT ![s] = TRUE] /\ UNCHANGED slots
Store(s, st) == slots' = [slots EXCEPT ![s] = st] /\ UNCHANGED dirty

\* The first store of an update that gives the current slot the state st.
FirstStore(st) ==
    /\ IF MarkFirst THEN Mark(current) ELSE Store(current, st)
    /\ cb' = [slot |-> current, state |-> st]

\* INPUT_ABS_MT_SLOT: a number outside the table selects its nearest end.
SelectSlot(e) ==
    /\ cb = Idle /\ e.code = "slot"
    /\ current' = Clamp(e.value, MaxSlots-1)
    /\ UNCHANGED <<slots, dirty, cb, shown>>

MoveX(e) ==
    /\ cb = Idle /\ e.code = "x"
    /\ FirstStore([slots[current] EXCEPT !.x = Clamp(e.value, Width-1)])
    /\ UNCHANGED <<current, shown>>

MoveY(e) ==
    /\ cb = Idle /\ e.code = "y"
    /\ FirstStore([slots[current] EXCEPT !.y = Clamp(e.value, Height-1)])
    /\ UNCHANGED <<current, shown>>

\* INPUT_BTN_TOUCH changes the current slot only, and only if it differs.
Touch(e) ==
    /\ cb = Idle /\ e.code = "touch"
    /\ (e.value # 0) # slots[current].down
    /\ FirstStore([slots[current] EXCEPT !.down = (e.value # 0)])
    /\ UNCHANGED <<current, shown>>

Ignore(e) ==
    /\ cb = Idle
    /\ \/ e.code = "other"
       \/ e.code = "touch" /\ (e.value # 0) = slots[current].down
    /\ UNCHANGED vars

touch_cb(e) == SelectSlot(e) \/ MoveX(e) \/ MoveY(e) \/ Touch(e) \/ Ignore(e)

\* touch_cb's other store, and its return.
SecondStore ==
    /\ cb # Idle
    /\ IF MarkFirst THEN Store(cb.slot, cb.state) ELSE Mark(cb.slot)
    /\ cb' = Idle
    /\ UNCHANGED <<current, shown>>

(***************************************************************************)
(* print_timer_cb: an interrupt, so all of it is one step.                 *)
(***************************************************************************)

\* Bug for comparison: the marks are cleared without printing UP slots.
MutPrintTick ==
    /\ \E s \in Slots : dirty[s]
    /\ shown' = [s \in Slots |-> IF dirty[s] /\ slots[s].down
                                 THEN Line(slots[s]) ELSE shown[s]]
    /\ dirty' = [s \in Slots |-> FALSE]
    /\ UNCHANGED <<slots, current, cb>>

print_timer_cb ==
    /\ \E s \in Slots : dirty[s]
    /\ shown' = [s \in Slots |-> IF dirty[s] THEN Line(slots[s]) ELSE shown[s]]
    /\ dirty' = [s \in Slots |-> FALSE]
    /\ UNCHANGED <<slots, current, cb>>

Next == (\E e \in Inputs : touch_cb(e)) \/ SecondStore \/ print_timer_cb

Spec == Init /\ [][Next]_vars

(***************************************************************************)
(* Properties.                                                             *)
(***************************************************************************)

\* Every variable has its type; coordinates are on the display.
TypeOK ==
    /\ slots \in [Slots -> States]
    /\ dirty \in [Slots -> BOOLEAN]
    /\ current \in Slots
    /\ cb \in {Idle} \cup [slot : Slots, state : States]
    /\ shown \in [Slots -> States \cup {Up}]

\* Comment on the mark (main.c:56, "updated in this period"): whenever the
\* timer interrupts touch_cb, a slot whose state is not what the console shows
\* is marked, unless touch_cb is in the middle of updating that very slot.
NoUpdateLost ==
    \A s \in Slots :
        \/ shown[s] = Line(slots[s])
        \/ dirty[s]
        \/ cb.slot = s
=============================================================================
