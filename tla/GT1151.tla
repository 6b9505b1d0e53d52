------------------------------- MODULE GT1151 -------------------------------
(***************************************************************************)
(* The GT1151 touch driver (driver/gt1151/input_gt1151.c) and the part of  *)
(* the touch controller it talks to.                                       *)
(*                                                                         *)
(* The controller latches one frame (the list of contacts it sees) into    *)
(* its registers, raises the status bit, pulses INT, and latches the next  *)
(* frame only after the status register was written with 0 ("Clear status  *)
(* AFTER reading the frame (latch next frame)", input_gt1151.c:110).       *)
(*                                                                         *)
(* The driver is one work item.  Each I2C transfer is a step of its own:   *)
(* the bus transfer blocks, so the controller and the interrupt run in     *)
(* between.  Reporting a frame is one step: it takes no I2C transfer and   *)
(* the system work queue is a cooperative thread that puts with K_NO_WAIT. *)
(***************************************************************************)
EXTENDS Integers, Sequences

CONSTANTS
    MaxTouchPoints,   \* CONFIG_INPUT_GT1151_MAX_TOUCH_POINTS
    Modes,            \* the ways to be told of a frame that are built:
                      \*   with CONFIG_INPUT_GT1151_INTERRUPT or without
    HasAltAddr,       \* the devicetree node has alt-addr
    Repulses,         \* the controller pulses INT again while a frame is unread
    Boards,           \* the chips that may answer at the two I2C addresses
    Contacts,         \* the contacts a finger can produce
    Frames,           \* the frames (sequences of contacts) that can be latched
    MaxFrames,        \* bound: frames the controller latches in a behaviour
    MaxFaults         \* bound: I2C transfers that fail in a behaviour

Addrs == {"primary", "alt"}                  \* cfg->bus.addr, cfg->alt_addr
Chips == {"gt115x", "other", "none"}         \* what answers at an address

ASSUME MaxTouchPointsAssumption == MaxTouchPoints \in Nat \ {0}
ASSUME ConfigAssumption == /\ Modes \subseteq {"interrupt", "polling"}
                           /\ HasAltAddr \in BOOLEAN
                           /\ Repulses \in BOOLEAN
ASSUME BoardsAssumption == Boards \subseteq [Addrs -> Chips]
ASSUME FramesAssumption == Frames \subseteq Seq(Contacts)
ASSUME BoundsAssumption == MaxFrames \in Nat /\ MaxFaults \in Nat

VARIABLES
    mode,       \* build: "interrupt" or "polling"
    bus,        \* board: the chip behind each I2C address
    ready,      \* controller: status bit 7
    frames,     \* controller: every frame latched so far; the last one is in
                \*   the status count and the point registers
    armed,      \* GPIO: INT configured edge-to-active (FALSE: disabled)
    attached,   \* GPIO callback added, or polling timer started
    queued,     \* work queue: the work item is queued
    pc,         \* driver: next step
    addr,       \* driver: data->actual_address
    points,     \* driver: number of contacts to read, from the status
    buf,        \* driver: contacts read, and (history) the frame they are of
    reported,   \* history: the frames reported to the input subsystem
    faults,     \* history: failed I2C transfers
    nacks       \* history: status clears among them

controller == <<mode, bus, ready, frames>>
signals == <<armed, attached, queued>>
history == <<reported, faults, nacks>>
vars == <<mode, bus, ready, frames, armed, attached, queued, pc, addr, points, buf,
          reported, faults, nacks>>

PCs == {"init", "arm", "probe", "probe_alt", "attach", "failed", "idle",
        "disable", "status", "points", "clear", "report", "enable"}

\* gt1151_init succeeded: the work handler may run.
Operational == pc \in {"idle", "disable", "status", "points", "clear",
                       "report", "enable"}

Smaller(a, b) == IF a <= b THEN a ELSE b

Image(n, c) == [frame |-> n, contacts |-> c]

Init ==
    /\ mode \in Modes
    /\ bus \in Boards
    /\ ready = FALSE
    /\ frames = <<>>
    /\ armed = FALSE /\ attached = FALSE /\ queued = FALSE
    /\ pc = "init"
    /\ addr = "primary"
    /\ points = 0
    /\ buf = Image(0, <<>>)
    /\ reported = <<>>
    /\ faults = 0 /\ nacks = 0

(***************************************************************************)
(* The controller and the sources of work.                                 *)
(***************************************************************************)

\* An active edge on INT runs isr_handler, which submits the work item, only
\* if the pin interrupt is enabled and the callback is attached.  An edge on a
\* disabled pin is not remembered.
EdgeIsSeen == mode = "interrupt" /\ armed /\ attached

Latch(f) ==
    /\ pc # "init"                      \* reset released
    /\ \E a \in Addrs : bus[a] = "gt115x"
    /\ ~ready
    /\ Len(frames) < MaxFrames
    /\ ready' = TRUE
    /\ frames' = Append(frames, f)
    /\ queued' = (queued \/ EdgeIsSeen)
    /\ UNCHANGED <<mode, bus, armed, attached, pc, addr, points, buf, history>>

\* The controller repeats the INT pulse of a frame nobody read yet.
Repulse ==
    /\ Repulses /\ ready /\ EdgeIsSeen /\ ~queued
    /\ queued' = TRUE
    /\ UNCHANGED <<controller, armed, attached, pc, addr, points, buf, history>>

\* timer_handler: submitting a queued work item changes nothing.
Tick ==
    /\ mode = "polling" /\ attached /\ ~queued
    /\ queued' = TRUE
    /\ UNCHANGED <<controller, armed, attached, pc, addr, points, buf, history>>

(***************************************************************************)
(* gt1151_init.                                                            *)
(***************************************************************************)

\* The I2C bus and GPIO checks, pin configuration and reset.
InitPins ==
    /\ pc = "init"
    /\ pc' = IF mode = "interrupt" THEN "arm" ELSE "probe"
    /\ UNCHANGED <<controller, signals, addr, points, buf, history>>

\* INT is enabled before the callback exists.
InitInt ==
    /\ pc = "arm"
    /\ armed' = TRUE
    /\ pc' = "probe"
    /\ UNCHANGED <<controller, attached, queued, addr, points, buf, history>>

\* Every early return of gt1151_init that is not the probe's.
InitFails ==
    /\ pc \in {"init", "arm"} \/ (pc = "attach" /\ mode = "interrupt")
    /\ pc' = "failed"
    /\ UNCHANGED <<controller, signals, addr, points, buf, history>>

\* Bug for comparison: any chip that answers is accepted.
MutAnyChipIdentified(a) == bus[a] # "none"
\* The product ID read at address a starts with "115".
Identified(a) == bus[a] = "gt115x"

\* try_probe_address at address a, going to "next" when no GT115x answers.
Probe(a, next) ==
    /\ addr' = a
    /\ \/ /\ pc' = IF Identified(a) THEN "attach" ELSE next
          /\ UNCHANGED faults
       \/ /\ faults < MaxFaults          \* reg_read fails twice
          /\ faults' = faults + 1
          /\ pc' = next
    /\ UNCHANGED <<controller, signals, points, buf, reported, nacks>>

ProbePrimary ==
    pc = "probe" /\ Probe("primary", IF HasAltAddr THEN "probe_alt" ELSE "failed")

ProbeAlt == pc = "probe_alt" /\ Probe("alt", "failed")

\* gpio_add_callback, or k_timer_start.
Attach ==
    /\ pc = "attach"
    /\ attached' = TRUE
    /\ pc' = "idle"
    /\ UNCHANGED <<controller, armed, queued, addr, points, buf, history>>

(***************************************************************************)
(* work_handler and gt1151_process_frame.                                  *)
(***************************************************************************)

I2CFault == faults < MaxFaults /\ faults' = faults + 1

\* Bug for comparison: INT is not enabled again after the batch.
MutLoopExit == "idle"
\* What follows the drain loop: re-enable INT, or return (polling).
LoopExit == IF mode = "interrupt" THEN "enable" ELSE "idle"

\* The work queue takes the item and calls the handler; a submit from here on
\* queues it again.
StartWork ==
    /\ pc = "idle" /\ queued
    /\ queued' = FALSE
    /\ pc' = IF mode = "interrupt" THEN "disable" ELSE "status"
    /\ UNCHANGED <<controller, armed, attached, addr, points, buf, history>>

DisableInt ==
    /\ pc = "disable"
    /\ armed' = FALSE
    /\ pc' = "status"
    /\ UNCHANGED <<controller, attached, queued, addr, points, buf, history>>

\* Bug for comparison: the count is not capped.
MutAnnounced == Len(frames[Len(frames)])
\* The count of contacts a set status announces, capped.
Announced == Smaller(Len(frames[Len(frames)]), MaxTouchPoints)

ReadNoFrame ==
    /\ pc = "status" /\ Identified(addr)
    /\ ~ready
    /\ pc' = LoopExit
    /\ UNCHANGED <<controller, signals, addr, points, buf, history>>

ReadFrame ==
    /\ pc = "status" /\ Identified(addr)
    /\ ready
    /\ points' = Announced
    /\ buf' = Image(Len(frames), <<>>)
    /\ pc' = IF points' > 0 THEN "points" ELSE "clear"
    /\ UNCHANGED <<controller, signals, addr, history>>

ReadPoints ==
    /\ pc = "points" /\ Identified(addr)
    /\ buf' = Image(Len(frames), SubSeq(frames[Len(frames)], 1, points))
    /\ pc' = "clear"
    /\ UNCHANGED <<controller, signals, addr, points, history>>

\* Bug for comparison: the result of the reads is ignored too.
MutReadFails ==
    /\ pc \in {"status", "points"} /\ I2CFault
    /\ pc' = "clear"
    /\ UNCHANGED <<controller, signals, addr, points, buf, reported, nacks>>

\* Either read fails: the handler leaves the loop, the frame stays latched.
ReadFails ==
    /\ pc \in {"status", "points"} /\ I2CFault
    /\ pc' = LoopExit
    /\ UNCHANGED <<controller, signals, addr, points, buf, reported, nacks>>

\* Bug for comparison: the status is never acknowledged.
MutStatusNotCleared ==
    /\ pc = "clear" /\ pc' = "report"
    /\ UNCHANGED <<controller, signals, addr, points, buf, history>>

ClearStatus ==
    /\ pc = "clear" /\ Identified(addr)
    /\ ready' = FALSE
    /\ pc' = "report"
    /\ UNCHANGED <<mode, bus, frames, signals, addr, points, buf, history>>

\* The result of the write is ignored: the frame is reported all the same.
ClearFails ==
    /\ pc = "clear"
    /\ I2CFault
    /\ nacks' = nacks + 1
    /\ pc' = "report"
    /\ UNCHANGED <<controller, signals, addr, points, buf, reported>>

\* The events of the contacts and the closing BTN_TOUCH; back to the loop.
ReportFrame ==
    /\ pc = "report"
    /\ reported' = Append(reported, buf)
    /\ pc' = "status"
    /\ UNCHANGED <<controller, signals, addr, points, buf, faults, nacks>>

EnableInt ==
    /\ pc = "enable"
    /\ armed' = TRUE
    /\ pc' = "idle"
    /\ UNCHANGED <<controller, attached, queued, addr, points, buf, history>>

GTInit == InitPins \/ InitInt \/ InitFails \/ ProbePrimary \/ ProbeAlt \/ Attach
Transfer == \/ ReadNoFrame \/ ReadFrame \/ ReadPoints \/ ReadFails
            \/ ClearStatus \/ ClearFails
Handler == StartWork \/ DisableInt \/ Transfer \/ EnableInt
Environment == (\E f \in Frames : Latch(f)) \/ Repulse \/ Tick

Next == Environment \/ GTInit \/ Handler \/ ReportFrame

Spec == Init /\ [][Next]_vars

\* The work queue thread, the bus and the periodic sources of work do not
\* stop for ever; nothing forces a finger to touch the panel.
Fairness == /\ WF_vars(GTInit)
            /\ WF_vars(Handler \/ ReportFrame)
            /\ WF_vars(Repulse)
            /\ WF_vars(Tick)

LiveSpec == Spec /\ Fairness

(***************************************************************************)
(* Properties.                                                             *)
(***************************************************************************)

Images == [frame : 0..MaxFrames, contacts : Seq(Contacts)]

\* Every variable has its type, and the bounds hold.
TypeOK ==
    /\ mode \in Modes /\ bus \in Boards
    /\ ready \in BOOLEAN
    /\ frames \in Seq(Frames) /\ Len(frames) <= MaxFrames
    /\ armed \in BOOLEAN /\ attached \in BOOLEAN /\ queued \in BOOLEAN
    /\ pc \in PCs
    /\ addr \in Addrs
    /\ points \in 0..MaxTouchPoints
    /\ buf \in Images
    /\ reported \in Seq(Images)
    /\ faults \in 0..MaxFaults
    /\ nacks \in Nat /\ nacks <= faults

\* The contacts of a frame that fit the driver's build-time limit.
Kept(f) == SubSeq(f, 1, Smaller(Len(f), MaxTouchPoints))

LastReported == IF reported = <<>> THEN 0 ELSE reported[Len(reported)].frame

\* process_frame reads the count, then the points, in two transfers, and the
\* controller runs in between: what is reported is still one frame as it was
\* latched, never the count of one frame with the contacts of another.
FramesWhole ==
    \A k \in 1..Len(reported) :
        /\ reported[k].frame \in 1..Len(frames)
        /\ reported[k].contacts = Kept(frames[reported[k].frame])

\* However transfers fail and edges fall into the disabled window, no frame
\* the controller handed over is skipped and none is reported out of order.
NoFrameSkipped ==
    /\ \A k \in 1..Len(reported) :
          reported[k].frame - (IF k = 1 THEN 0 ELSE reported[k-1].frame) \in 0..1
    /\ reported # <<>> => reported[1].frame = 1

\* A frame is reported a second time only because the write that clears its
\* status failed: at most once for each such write.
RepeatsAreNacks == Len(reported) - LastReported <= nacks

Channel == INSTANCE FrameChannel WITH
             sent <- frames, delivered <- reported,
             spare <- nacks - (Len(reported) - LastReported),
             Limit <- MaxTouchPoints, Capacity <- 2

\* The driver implements the channel: no more than two frames are in flight
\* (one in the registers, one read and acknowledged but not reported), and
\* every step that reports is the delivery of the next frame or a repetition
\* paid for by a failed clear.
ImplementsChannel == Channel!Spec

\* Once initialised the driver talks to the address a GT115x identified
\* itself at, whatever else is on the bus and whichever probe failed.
TalksToController == Operational => bus[addr] = "gt115x"

\* Every frame latched is reported in the end, although edges in the disabled
\* window and before the callback is attached are lost, and reads may fail.
EveryFrameReported ==
    \A n \in 1..MaxFrames :
        Len(frames) >= n ~> (LastReported >= n \/ pc = "failed")
=============================================================================
