------------------------------ MODULE UvcStream ------------------------------
(***************************************************************************)
(* The main thread of 19.uvc/src/main.c, which carries buffers from the    *)
(* video source to the USB video class and back.  It sleeps on one poll    *)
(* signal that both devices raise when they are done with a buffer, moves  *)
(* at most one buffer in each direction, and resets the signal.            *)
(*                                                                         *)
(* The two video devices are external: each works on the buffers enqueued  *)
(* to it in order, in its own thread, and hands them out in that order.    *)
(***************************************************************************)
EXTENDS Integers, Sequences, SequencesExt

CONSTANTS
    Buffers,       \* CONFIG_VIDEO_BUFFER_POOL_NUM_MAX
    SourceSignals, \* video_set_signal succeeds on the video source
    MaxFrames,     \* bound: frames the source produces
    MaxFaults      \* bound: calls that fail

ASSUME BuffersAssumption == Buffers \in Nat \ {0}
ASSUME SourceSignalsAssumption == SourceSignals \in BOOLEAN
ASSUME BoundsAssumption == MaxFrames \in Nat /\ MaxFaults \in Nat

VARIABLES
    pc,         \* main: next step
    selected,   \* UVC: the host has selected a format
    allocated,  \* main: buffers allocated and enqueued so far
    timed,      \* main: timeout is 1 ms, not K_FOREVER
    streaming,  \* source: video_stream_start was called
    toFill,     \* source: buffers to fill
    filled,     \* source: buffers it is done with
    toSend,     \* UVC: buffers to send
    sent,       \* UVC: buffers it is done with
    raised,     \* the poll signal
    produced,   \* history: frames produced
    received,   \* history: frames the host has got
    faults      \* history: calls that failed

queues == <<toFill, filled, toSend, sent>>
vars == <<pc, selected, allocated, timed, streaming, toFill, filled, toSend,
          sent, raised, produced, received, faults>>

\* A buffer and the frame in it (0: none yet).
Buffer(b, f) == [buf |-> b, frame |-> f]

Init ==
    /\ pc = "format" /\ selected = FALSE /\ allocated = 0
    /\ timed = FALSE /\ streaming = FALSE
    /\ toFill = <<>> /\ filled = <<>> /\ toSend = <<>> /\ sent = <<>>
    /\ raised = FALSE
    /\ produced = 0 /\ received = <<>> /\ faults = 0

(***************************************************************************)
(* main.                                                                   *)
(***************************************************************************)

\* An early return of main for a call that fails at one of the steps.
Return(steps) ==
    /\ pc \in steps /\ faults < MaxFaults
    /\ faults' = faults + 1
    /\ pc' = "returned"
    /\ UNCHANGED <<selected, allocated, timed, streaming, queues, raised, produced, received>>

\* video_get_format answers -EAGAIN until the host has selected a format.
GetFormat ==
    /\ pc = "format" /\ selected
    /\ pc' = "alloc"
    /\ UNCHANGED <<selected, allocated, timed, streaming, queues, raised, produced,
                   received, faults>>

\* Bug for comparison: the new buffers are enqueued at the USB class.
MutAllocate ==
    /\ pc = "alloc"
    /\ allocated' = allocated + 1
    /\ toSend' = Append(toSend, Buffer(allocated', 0))
    /\ pc' = IF allocated' = Buffers THEN "signal" ELSE "alloc"
    /\ UNCHANGED <<selected, timed, streaming, toFill, filled, sent, raised, produced,
                   received, faults>>

\* One turn of the allocation loop.
Allocate ==
    /\ pc = "alloc"
    /\ allocated' = allocated + 1
    /\ toFill' = Append(toFill, Buffer(allocated', 0))
    /\ pc' = IF allocated' = Buffers THEN "signal" ELSE "alloc"
    /\ UNCHANGED <<selected, timed, streaming, filled, toSend, sent, raised, produced,
                   received, faults>>

\* Without a signal of the source, main polls every millisecond.
SetSignals ==
    /\ pc = "signal"
    /\ timed' = ~SourceSignals
    /\ pc' = "start"
    /\ UNCHANGED <<selected, allocated, streaming, queues, raised, produced, received, faults>>

StreamStart ==
    /\ pc = "start"
    /\ streaming' = TRUE
    /\ pc' = "poll"
    /\ UNCHANGED <<selected, allocated, timed, queues, raised, produced, received, faults>>

\* Bug for comparison: the 1 ms timeout is not used.
MutPoll ==
    /\ pc = "poll" /\ raised
    /\ pc' = "filled"
    /\ UNCHANGED <<selected, allocated, timed, streaming, queues, raised, produced,
                   received, faults>>

\* k_poll returns 0 or, after a timeout, -EAGAIN.
Poll ==
    /\ pc = "poll" /\ (raised \/ timed)
    /\ pc' = "filled"
    /\ UNCHANGED <<selected, allocated, timed, streaming, queues, raised, produced,
                   received, faults>>

\* Bug for comparison: the newest buffer is dequeued.
MutPickFilled == IF filled = <<>> THEN <<>> ELSE <<Last(filled)>>
\* video_dequeue of the source: the buffer to carry, if there is one.
PickFilled == IF filled = <<>> THEN <<>> ELSE <<Head(filled)>>

CarryFilled ==
    /\ pc = "filled"
    /\ toSend' = toSend \o PickFilled
    /\ filled' = IF filled = <<>> THEN <<>> ELSE Tail(filled)
    /\ pc' = "sent"
    /\ UNCHANGED <<selected, allocated, timed, streaming, toFill, sent, raised, produced,
                   received, faults>>

\* Bug for comparison: a buffer that was sent is dequeued and forgotten.
MutCarrySent ==
    /\ pc = "sent"
    /\ sent' = IF sent = <<>> THEN <<>> ELSE Tail(sent)
    /\ pc' = "reset"
    /\ UNCHANGED <<selected, allocated, timed, streaming, toFill, filled, toSend, raised,
                   produced, received, faults>>

CarrySent ==
    /\ pc = "sent"
    /\ toFill' = IF sent = <<>> THEN toFill ELSE Append(toFill, Head(sent))
    /\ sent' = IF sent = <<>> THEN <<>> ELSE Tail(sent)
    /\ pc' = "reset"
    /\ UNCHANGED <<selected, allocated, timed, streaming, filled, toSend, raised, produced,
                   received, faults>>

\* The dequeue succeeded and the enqueue at the other device did not: main
\* returns with the buffer, which is in neither device any more.
CarryFails ==
    /\ \/ pc = "filled" /\ filled # <<>> /\ filled' = Tail(filled) /\ UNCHANGED sent
       \/ pc = "sent" /\ sent # <<>> /\ sent' = Tail(sent) /\ UNCHANGED filled
    /\ faults < MaxFaults
    /\ faults' = faults + 1
    /\ pc' = "returned"
    /\ UNCHANGED <<selected, allocated, timed, streaming, toFill, toSend, raised, produced,
                   received>>

\* k_poll_signal_reset, whatever was raised since the dequeues.
Reset ==
    /\ pc = "reset"
    /\ raised' = FALSE
    /\ pc' = "poll"
    /\ UNCHANGED <<selected, allocated, timed, streaming, queues, produced, received, faults>>

Setup == GetFormat \/ Allocate \/ SetSignals \/ StreamStart
Loop == Poll \/ CarryFilled \/ CarrySent \/ Reset

(***************************************************************************)
(* The devices and the host.                                               *)
(***************************************************************************)

SelectFormat ==
    /\ ~selected
    /\ selected' = TRUE
    /\ UNCHANGED <<pc, allocated, timed, streaming, queues, raised, produced, received, faults>>

\* The source is done with its first buffer.
Fill ==
    /\ streaming /\ toFill # <<>> /\ produced < MaxFrames
    /\ produced' = produced + 1
    /\ filled' = Append(filled, Buffer(Head(toFill).buf, produced'))
    /\ toFill' = Tail(toFill)
    /\ raised' = (raised \/ SourceSignals)
    /\ UNCHANGED <<pc, selected, allocated, timed, streaming, toSend, sent, received, faults>>

\* UVC is done with its first buffer: the host has the frame.
Send ==
    /\ toSend # <<>>
    /\ received' = Append(received, Head(toSend).frame)
    /\ sent' = Append(sent, Head(toSend))
    /\ toSend' = Tail(toSend)
    /\ raised' = TRUE
    /\ UNCHANGED <<pc, selected, allocated, timed, streaming, toFill, filled, produced, faults>>

Devices == SelectFormat \/ Fill \/ Send

Next == \/ Setup \/ Loop \/ Devices \/ CarryFails
        \/ Return({"format", "alloc", "signal", "start", "poll"})

\* Main and the devices run; the host need not select a format.
Spec == /\ Init /\ [][Next]_vars
        /\ WF_vars(Setup) /\ WF_vars(Loop) /\ WF_vars(Fill) /\ WF_vars(Send)

(***************************************************************************)
(* Properties.                                                             *)
(***************************************************************************)

Held == {toFill, filled, toSend, sent}
Everywhere == toFill \o filled \o toSend \o sent

\* Every variable has its type.
TypeOK ==
    /\ pc \in {"format", "alloc", "signal", "start", "poll", "filled", "sent",
               "reset", "returned"}
    /\ selected \in BOOLEAN /\ timed \in BOOLEAN /\ streaming \in BOOLEAN
    /\ raised \in BOOLEAN
    /\ allocated \in 0..Buffers
    /\ \A q \in Held : q \in Seq([buf : 1..Buffers, frame : 0..MaxFrames])
    /\ produced \in 0..MaxFrames /\ received \in Seq(1..MaxFrames)
    /\ faults \in 0..MaxFaults

\* No buffer is lost between the two devices or queued twice, so the stream
\* never runs out of them; main may keep one, and no more, by returning with it
\* after a refused enqueue.
BuffersKept ==
    /\ IsInjective([i \in 1..Len(Everywhere) |-> Everywhere[i].buf])
    /\ \/ Len(Everywhere) = allocated
       \/ pc = "returned" /\ Len(Everywhere) = allocated - 1

\* The host gets the frames in the order the source made them, without a gap,
\* although main moves at most one buffer in each direction for a signal.
FramesInOrder == received = [n \in 1..Len(received) |-> n]

\* With the 1 ms timeout every frame the source makes gets to the host,
\* however signals and resets fall, unless a call fails.
FramesArrive ==
    \A n \in 1..MaxFrames :
        produced >= n ~> (n <= Len(received) \/ pc = "returned")

\* README.rst:14 ("Any software on the host can then access the video stream"):
\* the stream never comes to a standstill, with main waiting for ever for a
\* signal while both devices wait for buffers that main has not picked up.
StreamNeverStalls ==
    ~(pc = "poll" /\ ~timed /\ ~raised /\ toFill = <<>> /\ toSend = <<>>)
=============================================================================
