---------------------------- MODULE TouchSystem -----------------------------
(***************************************************************************)
(* The touch path end to end: the GT1151 driver (GT1151) reports the       *)
(* contacts of a frame as input events, the queue of the input subsystem   *)
(* (CONFIG_INPUT_QUEUE_MAX_MSGS, 512 in 10.touch_gt1151/prj.conf) carries  *)
(* them, and the input thread calls the console's callback (TouchApp) with *)
(* one event at a time.  The driver puts with K_NO_WAIT: an event that     *)
(* finds the queue full is dropped, so a frame can arrive incomplete.      *)
(***************************************************************************)
EXTENDS TouchConfig, Sequences

CONSTANTS
    Modes, HasAltAddr, Repulses, Boards, Contacts,
    Frames, MaxFrames, MaxFaults,        \* GT1151
    QueueSize                            \* CONFIG_INPUT_QUEUE_MAX_MSGS

\* A contact has a track number (4 bits) and 16-bit coordinates.
ASSUME ContactsAssumption ==
    \A c \in Contacts : /\ c.id \in Nat /\ c.id < 16
                        /\ c.x \in Nat /\ c.x < 65536
                        /\ c.y \in Nat /\ c.y < 65536
ASSUME FramesAssumption == Frames \subseteq Seq(Contacts)
ASSUME QueueAssumption == QueueSize \in Nat \ {0}

VARIABLES
    mode, bus, ready, frames, armed, attached, queued, pc, addr, points, buf,
    reported, faults, nacks,             \* GT1151
    slots, dirty, current, cb, shown,    \* TouchApp
    queue,      \* input subsystem: events put and not yet taken
    whole       \* history: all events of the last reported frame were put

Driver == INSTANCE GT1151 WITH MaxTouchPoints <- MaxSlots
App == INSTANCE TouchApp

dvars == <<mode, bus, ready, frames, armed, attached, queued, pc, addr, points, buf,
           reported, faults, nacks>>
avars == <<slots, dirty, current, cb, shown>>
qvars == <<queue, whole>>
vars == <<dvars, avars, qvars>>

Event(code, value) == [code |-> code, value |-> value]

\* Bug for comparison: the slot is selected after the coordinates.
MutContactEvents(c) ==
    <<Event("x", c.x), Event("y", c.y)>> \o
    (IF MaxSlots > 1 THEN <<Event("slot", c.id % MaxSlots)>> ELSE <<>>)

\* The events of one contact; its slot is named only if there are several.
ContactEvents(c) ==
    (IF MaxSlots > 1 THEN <<Event("slot", c.id % MaxSlots)>> ELSE <<>>)
    \o <<Event("x", c.x), Event("y", c.y)>>

\* The number of events of one contact.
PerContact == IF MaxSlots > 1 THEN 3 ELSE 2

\* The events of a frame: its contacts in order, then one BTN_TOUCH.
FrameEvents(contacts) ==
    LET last == PerContact * Len(contacts) + 1
        contact(k) == contacts[((k-1) \div PerContact) + 1]
        place(k) == ((k-1) % PerContact) + 1
    IN  [k \in 1 .. last |->
            IF k = last THEN Event("touch", IF contacts = <<>> THEN 0 ELSE 1)
            ELSE ContactEvents(contact(k))[place(k)]]

\* Putting events one by one: those that find the queue full are dropped.
\* Nothing is taken in between, so the dropped ones are the last ones.
Put(q, events) == q \o SubSeq(events, 1, Driver!Smaller(Len(events), QueueSize - Len(q)))

Init == Driver!Init /\ App!Init /\ queue = <<>> /\ whole = TRUE

DriverStep ==
    /\ Driver!Environment \/ Driver!GTInit \/ Driver!Handler
    /\ UNCHANGED <<avars, qvars>>

\* The driver's report, and what the input subsystem makes of it.
Report ==
    /\ Driver!ReportFrame
    /\ queue' = Put(queue, FrameEvents(buf.contacts))
    /\ whole' = (Len(queue') - Len(queue) = Len(FrameEvents(buf.contacts)))
    /\ UNCHANGED avars

\* The input thread takes an event and calls touch_cb.
Deliver ==
    /\ queue # <<>>
    /\ App!touch_cb(Head(queue))
    /\ queue' = Tail(queue)
    /\ UNCHANGED <<dvars, whole>>

\* touch_cb goes on.
Callback == App!SecondStore /\ UNCHANGED <<dvars, qvars>>

\* The print timer fires.
PrintTick == App!print_timer_cb /\ UNCHANGED <<dvars, qvars>>

Next == DriverStep \/ Report \/ Deliver \/ Callback \/ PrintTick

Spec == Init /\ [][Next]_vars

\* The driver's fairness; the input thread runs, the print timer fires.
LiveSpec ==
    /\ Spec
    /\ WF_vars(DriverStep /\ Driver!GTInit)
    /\ WF_vars((DriverStep /\ Driver!Handler) \/ Report)
    /\ WF_vars(DriverStep /\ Driver!Repulse)
    /\ WF_vars(DriverStep /\ Driver!Tick)
    /\ WF_vars(Deliver \/ Callback)
    /\ WF_vars(PrintTick)

(***************************************************************************)
(* Properties.                                                             *)
(***************************************************************************)

\* Every event was handled and every change printed.
AtRest == queue = <<>> /\ cb = App!Idle /\ \A s \in App!Slots : ~dirty[s]

LastFrame == reported[Len(reported)].contacts
SlotOf(c) == c.id % MaxSlots
Position(c) == [x |-> App!Clamp(c.x, Width-1), y |-> App!Clamp(c.y, Height-1)]

\* Events of a frame carry all of it, whatever was dropped before: at rest
\* after a frame that found room in the queue, the console shows the contact
\* reported last as DOWN at its position, and after a release the slot touched
\* last as UP, however many earlier frames arrived truncated or twice.
LastContactShown ==
    AtRest /\ whole /\ reported # <<>> =>
        IF LastFrame = <<>>
        THEN shown[current] = App!Up
        ELSE LET c == LastFrame[Len(LastFrame)]
             IN  /\ shown[SlotOf(c)].down
                 /\ Position(c) = [x |-> shown[SlotOf(c)].x, y |-> shown[SlotOf(c)].y]

\* The console settles: once no more frames come it shows the slots' state for
\* ever, so that no change is left in a slot the timer does not look at again.
ConsoleSettles == <>[](\A s \in App!Slots : shown[s] = App!Line(slots[s]))

\* Comment on the mark (main.c:56, "updated in this period"), whatever frames
\* and truncated frames touch_cb is fed: a slot the console does not show as it
\* is, is marked or being updated when the timer interrupts.
NoUpdateLost == App!NoUpdateLost
=============================================================================
