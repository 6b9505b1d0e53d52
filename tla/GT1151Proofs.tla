---------------------------- MODULE GT1151Proofs ----------------------------
(***************************************************************************)
(* Proofs about the touch driver (GT1151), for every value of the          *)
(* constants: types, whole frames in order, repetitions accounted for, and *)
(* the step simulation of FrameChannel.                                    *)
(***************************************************************************)
EXTENDS GT1151, SequenceTheorems, TLAPS

(***************************************************************************)
(* The inductive invariant.  NoFrameSkipped and RepeatsAreNacks speak of   *)
(* what was reported; to be inductive they need to know where the next     *)
(* report comes from: the relation between the frame in the registers, the *)
(* frame in buf and the one reported last, at every step of the handler.   *)
(***************************************************************************)

\* Failed clears whose frame was not repeated yet.
Spare == nacks - (Len(reported) - LastReported)

\* Outside the report: the registers hold the next frame to report, or the
\* one reported last if its clear failed.
Between ==
    pc # "report" =>
        /\ ~ready => LastReported = Len(frames)
        /\ ready => \/ LastReported = Len(frames) - 1
                    \/ LastReported = Len(frames) /\ Spare >= 1

\* While the handler reads a frame the status stays set, and what it has read
\* is of the frame in the registers.
Reading ==
    /\ pc \in {"points", "clear"} => ready /\ points = Announced
    /\ pc = "clear" => buf = Image(Len(frames), Kept(frames[Len(frames)]))

\* At the report: buf holds the frame after the one reported last, or that
\* frame again; the registers are cleared, hold the next frame, or still hold
\* the frame in buf after a failed clear.
Reporting ==
    pc = "report" =>
        /\ buf.frame \in 1..Len(frames)
        /\ buf.contacts = Kept(frames[buf.frame])
        /\ \/ buf.frame = LastReported + 1
           \/ buf.frame = LastReported /\ Spare >= 1
        /\ \/ ~ready /\ buf.frame = Len(frames)
           \/ ready /\ buf.frame = Len(frames) - 1
           \/ /\ ready /\ buf.frame = Len(frames)
              /\ Spare >= (IF buf.frame = LastReported THEN 2 ELSE 1)

Registers == ready => Len(frames) > 0

\* TypeOK is inductive only with what the reads rely on: a set status has a
\* frame behind it, and stays set until the handler clears it.
Typed == TypeOK /\ Registers /\ Reading

\* What the properties say of the frames reported so far.
Delivered == FramesWhole /\ NoFrameSkipped /\ RepeatsAreNacks

IInv == Typed /\ Between /\ Reporting /\ Delivered

(***************************************************************************)
(* Lemmas about the operators.                                             *)
(***************************************************************************)

\* The contacts that fit the limit are a prefix of the frame: their number is
\* the count the status announces, capped.
LEMMA PrefixFacts ==
    ASSUME NEW f \in Frames
    PROVE  /\ Smaller(Len(f), MaxTouchPoints) \in 0..MaxTouchPoints
           /\ SubSeq(f, 1, Smaller(Len(f), MaxTouchPoints)) \in Seq(Contacts)
           /\ Smaller(Len(f), MaxTouchPoints) = 0 => Kept(f) = <<>>
<1>1. f \in Seq(Contacts) /\ Len(f) \in Nat
  BY FramesAssumption
<1>2. Smaller(Len(f), MaxTouchPoints) \in 0..MaxTouchPoints
  BY <1>1, MaxTouchPointsAssumption DEF Smaller
<1>3. Smaller(Len(f), MaxTouchPoints) <= Len(f)
  BY <1>1, MaxTouchPointsAssumption DEF Smaller
<1>4. SubSeq(f, 1, Smaller(Len(f), MaxTouchPoints)) \in Seq(Contacts)
  BY <1>1, <1>2, <1>3, MaxTouchPointsAssumption
<1>5. Smaller(Len(f), MaxTouchPoints) = 0 => SubSeq(f, 1, 0) = <<>>
  BY <1>1
<1> QED
  BY <1>2, <1>4, <1>5 DEF Kept

(***************************************************************************)
(* Types.                                                                  *)
(***************************************************************************)

LEMMA InitTyped == Init => Typed
<1> SUFFICES ASSUME Init PROVE Typed
  OBVIOUS
<1>1. <<>> \in Seq(Contacts) /\ <<>> \in Seq(Frames) /\ <<>> \in Seq(Images)
  OBVIOUS
<1>2. buf \in Images
  BY <1>1, BoundsAssumption DEF Init, Image, Images
<1>3. Len(frames) <= MaxFrames
  BY EmptySeq, BoundsAssumption DEF Init
<1>4. points \in 0..MaxTouchPoints /\ faults \in 0..MaxFaults
      /\ nacks \in Nat /\ nacks <= faults
  BY BoundsAssumption, MaxTouchPointsAssumption DEF Init
<1>5. TypeOK
  BY <1>1, <1>2, <1>3, <1>4 DEF Init, TypeOK, PCs, Addrs
<1> QED
  BY <1>5 DEF Init, Typed, Registers, Reading

LEMMA StepTyped == Typed /\ [Next]_vars => Typed'
<1> SUFFICES ASSUME Typed, [Next]_vars
             PROVE  Typed'
  OBVIOUS
<1> USE BoundsAssumption, MaxTouchPointsAssumption
    DEF Typed, TypeOK, Registers, Reading, PCs, Announced, Images,
        controller, signals, history
<1>1. ASSUME NEW f \in Frames, Latch(f)
      PROVE  Typed'
  BY <1>1 DEF Latch, EdgeIsSeen
<1>2. CASE Repulse
  BY <1>2 DEF Repulse
<1>3. CASE Tick
  BY <1>3 DEF Tick
<1>4. CASE GTInit
  <2>1. CASE InitPins
    BY <2>1 DEF InitPins
  <2>2. CASE InitInt
    BY <2>2 DEF InitInt
  <2>3. CASE InitFails
    BY <2>3 DEF InitFails
  <2>4. CASE ProbePrimary
    BY <2>4 DEF ProbePrimary, Probe, Addrs
  <2>5. CASE ProbeAlt
    BY <2>5 DEF ProbeAlt, Probe, Addrs
  <2>6. CASE Attach
    BY <2>6 DEF Attach
  <2> QED
    BY <1>4, <2>1, <2>2, <2>3, <2>4, <2>5, <2>6 DEF GTInit
<1>5. CASE StartWork
  BY <1>5 DEF StartWork
<1>6. CASE DisableInt
  BY <1>6 DEF DisableInt
<1>7. CASE EnableInt
  BY <1>7 DEF EnableInt
<1>8. CASE ReadNoFrame
  BY <1>8 DEF ReadNoFrame, LoopExit
<1>9. CASE ReadFails
  BY <1>9 DEF ReadFails, I2CFault, LoopExit
<1>10. ASSUME ready
       PROVE  /\ frames[Len(frames)] \in Frames
              /\ Len(frames) \in 0..MaxFrames
  BY <1>10
<1>11. CASE ReadFrame
  BY <1>11, <1>10, PrefixFacts DEF ReadFrame, Image
<1>12. CASE ReadPoints
  BY <1>12, <1>10, PrefixFacts DEF ReadPoints, Image, Kept
<1>13. CASE ClearStatus
  BY <1>13 DEF ClearStatus
<1>14. CASE ClearFails
  BY <1>14 DEF ClearFails, I2CFault
<1>15. CASE ReportFrame
  BY <1>15 DEF ReportFrame
<1>16. CASE UNCHANGED vars
  BY <1>16 DEF vars
<1> QED
  BY <1>1, <1>2, <1>3, <1>4, <1>5, <1>6, <1>7, <1>8, <1>9, <1>11, <1>12,
     <1>13, <1>14, <1>15, <1>16
  DEF Next, Environment, Handler, Transfer

\* Every variable keeps its type: gt1151_init, work_handler and the sources
\* of work never leave it, for every configuration and bound.
THEOREM TypeCorrect == Spec => []TypeOK
<1>1. Typed => TypeOK
  BY DEF Typed
<1> QED
  BY <1>1, InitTyped, StepTyped, PTL DEF Spec

(***************************************************************************)
(* Whole frames, in order, repeated only after a failed clear.             *)
(***************************************************************************)

\* Steps that report nothing leave what was reported last.
LEMMA LastFacts ==
    ASSUME TypeOK
    PROVE  /\ LastReported \in Nat
           /\ Len(reported) \in Nat
           /\ reported' = reported => LastReported' = LastReported
<1>1. reported # <<>> => reported[Len(reported)] \in Images
  BY DEF TypeOK
<1> QED
  BY <1>1, BoundsAssumption DEF TypeOK, Images, LastReported

\* The report step appends buf.
LEMMA ReportFacts ==
    ASSUME TypeOK, ReportFrame
    PROVE  /\ Len(reported') = Len(reported) + 1
           /\ reported'[Len(reported) + 1] = buf
           /\ \A k \in 1..Len(reported) : reported'[k] = reported[k]
           /\ LastReported' = buf.frame
           /\ reported' # <<>>
<1>1. reported \in Seq(Images) /\ buf \in Images
  BY DEF TypeOK
<1>2. reported' = Append(reported, buf)
  BY DEF ReportFrame
<1> QED
  BY <1>1, <1>2 DEF LastReported

\* Latching appends to the frames and leaves the earlier ones as they are.
LEMMA LatchFacts ==
    ASSUME TypeOK, NEW f \in Frames, Latch(f)
    PROVE  /\ Len(frames') = Len(frames) + 1
           /\ \A n \in 1..Len(frames) : frames'[n] = frames[n]
  BY DEF TypeOK, Latch

LEMMA StepDelivered == IInv /\ [Next]_vars => (Between /\ Reporting /\ Delivered)'
<1> SUFFICES ASSUME IInv, [Next]_vars
             PROVE  (Between /\ Reporting /\ Delivered)'
  OBVIOUS
<1> USE DEF IInv, Typed, Delivered, controller, signals, history
<1>1. /\ Len(frames) \in Nat /\ Len(reported) \in Nat /\ LastReported \in Nat
      /\ nacks \in Nat /\ buf.frame \in Nat
  BY LastFacts, BoundsAssumption DEF TypeOK, Images
<1>2. ASSUME NEW f \in Frames, Latch(f)
      PROVE  (Between /\ Reporting /\ Delivered)'
  <2>1. Len(frames') = Len(frames) + 1 /\ LastReported' = LastReported
        /\ \A n \in 1..Len(frames) : frames'[n] = frames[n]
    BY <1>2, LatchFacts, LastFacts DEF Latch
  <2>2. Between' /\ Reporting'
    BY <1>1, <1>2, <2>1 DEF Latch, Between, Reporting, Spare, Kept
  <2>3. Delivered'
    BY <1>1, <1>2, <2>1
    DEF Latch, FramesWhole, NoFrameSkipped, RepeatsAreNacks, Kept
  <2> QED
    BY <2>2, <2>3
<1>3. CASE ReportFrame
  <2>1. LastReported' = buf.frame /\ Len(reported') = Len(reported) + 1
    BY <1>3, ReportFacts
  <2>2. Between' /\ Reporting'
    BY <1>1, <1>3, <2>1 DEF ReportFrame, Between, Reporting, Spare
  <2>3. FramesWhole'
    <3>1. UNCHANGED frames
      BY <1>3 DEF ReportFrame
    <3>2. ASSUME NEW k \in 1..Len(reported')
          PROVE  /\ reported'[k].frame \in 1..Len(frames)
                 /\ reported'[k].contacts = Kept(frames[reported'[k].frame])
      <4>1. CASE k = Len(reported) + 1
        <5>1. reported'[k] = buf
          BY <1>3, <4>1, ReportFacts
        <5> QED
          BY <1>3, <5>1 DEF ReportFrame, Reporting
      <4>2. CASE k \in 1..Len(reported)
        <5>1. reported'[k] = reported[k]
          BY <1>3, <4>2, ReportFacts
        <5> QED
          BY <4>2, <5>1 DEF FramesWhole
      <4> QED
        BY <1>1, <2>1, <4>1, <4>2
    <3> QED
      BY <3>1, <3>2 DEF FramesWhole, Kept
  <2>4. NoFrameSkipped'
    <3>1. /\ buf.frame - LastReported \in 0..1
          /\ buf.frame > 0
      BY <1>1, <1>3 DEF ReportFrame, Reporting
    <3>2. reported = <<>> => /\ LastReported = 0 /\ Len(reported) = 0
                             /\ reported'[1] = buf /\ buf.frame = 1
      BY <1>1, <1>3, <3>1, ReportFacts, EmptySeq DEF LastReported
    <3>3. reported # <<>> => /\ Len(reported) > 0
                             /\ LastReported = reported[Len(reported)].frame
                             /\ reported'[1] = reported[1]
      <4>1. reported \in Seq(Images)
        BY DEF TypeOK
      <4> QED
        BY <1>1, <1>3, <4>1, ReportFacts, EmptySeq DEF LastReported
    <3>4. ASSUME NEW k \in 1..Len(reported')
          PROVE  reported'[k].frame
                   - (IF k = 1 THEN 0 ELSE reported'[k-1].frame) \in 0..1
      <4>1. CASE k = Len(reported) + 1
        BY <1>1, <1>3, <3>1, <3>2, <3>3, <4>1, ReportFacts
      <4>2. CASE k \in 1..Len(reported)
        <5>1. reported[k].frame
                - (IF k = 1 THEN 0 ELSE reported[k-1].frame) \in 0..1
          BY <4>2 DEF NoFrameSkipped
        <5>2. reported'[k] = reported[k]
              /\ (k # 1 => reported'[k-1] = reported[k-1])
          BY <1>1, <1>3, <4>2, ReportFacts
        <5> QED
          BY <5>1, <5>2
      <4> QED
        BY <1>1, <1>3, <4>1, <4>2, ReportFacts
    <3> QED
      BY <3>2, <3>3, <3>4 DEF NoFrameSkipped
  <2>5. RepeatsAreNacks'
    BY <1>1, <1>3, <2>1 DEF ReportFrame, Reporting, RepeatsAreNacks, Spare
  <2> QED
    BY <2>2, <2>3, <2>4, <2>5
<1>4. CASE ReadFrame \/ ReadPoints \/ ReadNoFrame \/ ReadFails
  <2>1. /\ UNCHANGED <<ready, frames, reported, nacks>>
        /\ pc # "report" /\ pc' # "report"
    BY <1>4 DEF ReadFrame, ReadPoints, ReadNoFrame, ReadFails, LoopExit
  <2> QED
    BY <1>1, <2>1, LastFacts DEF Between, Reporting, Spare, FramesWhole,
       NoFrameSkipped, RepeatsAreNacks, Kept
<1>5. CASE ClearStatus \/ ClearFails
  <2>1. /\ pc = "clear" /\ pc' = "report"
        /\ UNCHANGED <<frames, reported, buf>>
        /\ \/ ~ready' /\ nacks' = nacks
           \/ ready' = ready /\ nacks' = nacks + 1
    BY <1>5 DEF ClearStatus, ClearFails
  <2>2. LastReported' = LastReported
    BY <2>1, LastFacts
  <2>3. /\ buf.frame = Len(frames)
        /\ buf.contacts = Kept(frames[Len(frames)])
        /\ ready /\ Len(frames) > 0
    BY <2>1 DEF Reading, Registers, Image
  <2>4. Spare' = Spare + (nacks' - nacks) /\ Spare \in Int
    BY <1>1, <2>1, <2>2 DEF Spare
  <2>5. Between'
    BY <2>1 DEF Between
  <2>6. Reporting'
    <3>1. \/ LastReported = Len(frames) - 1
          \/ LastReported = Len(frames) /\ Spare >= 1
      BY <2>1, <2>3 DEF Between
    <3>2. buf.contacts' = Kept(frames[buf.frame])'
      BY <2>1, <2>3 DEF Kept
    <3>3. CASE ~ready' /\ nacks' = nacks
      BY <1>1, <2>1, <2>2, <2>3, <2>4, <3>1, <3>2, <3>3 DEF Reporting
    <3>4. CASE ready' = ready /\ nacks' = nacks + 1
      <4>1. /\ buf.frame' = Len(frames') /\ Len(frames') > 0 /\ ready'
            /\ buf.frame' \in 1..Len(frames')
        BY <1>1, <2>1, <2>3, <3>4
      <4>2. \/ buf.frame' = LastReported' + 1 /\ Spare' >= 1
            \/ buf.frame' = LastReported' /\ Spare' >= 2
        <5>1. Spare' = Spare + 1 /\ Spare >= 0
          BY <1>1, <2>4, <3>4 DEF RepeatsAreNacks, Spare
        <5> QED
          BY <1>1, <2>1, <2>2, <2>3, <2>4, <3>1, <5>1
      <4> QED
        BY <1>1, <2>1, <2>2, <2>4, <3>2, <4>1, <4>2 DEF Reporting
    <3> QED
      BY <2>1, <3>3, <3>4
  <2>7. Delivered'
    BY <1>1, <2>1, <2>2 DEF FramesWhole, NoFrameSkipped, RepeatsAreNacks, Kept
  <2> QED
    BY <2>5, <2>6, <2>7
<1>6. CASE Repulse \/ Tick \/ GTInit \/ StartWork \/ DisableInt \/ EnableInt
  <2>1. /\ UNCHANGED <<ready, frames, reported, nacks, buf>>
        /\ pc' = "report" <=> pc = "report"
    BY <1>6 DEF Repulse, Tick, GTInit, InitPins, InitInt, InitFails,
       ProbePrimary, ProbeAlt, Probe, Attach, StartWork, DisableInt, EnableInt
  <2> QED
    BY <1>1, <2>1, LastFacts DEF Between, Reporting, Spare, FramesWhole,
       NoFrameSkipped, RepeatsAreNacks, Kept
<1>7. CASE UNCHANGED vars
  BY <1>1, <1>7, LastFacts DEF vars, Between, Reporting, Spare, FramesWhole,
     NoFrameSkipped, RepeatsAreNacks, Kept
<1> QED
  BY <1>2, <1>3, <1>4, <1>5, <1>6, <1>7
  DEF Next, Environment, Handler, Transfer

LEMMA InvariantHolds == Spec => []IInv
<1>1. Init => IInv
  <2> SUFFICES ASSUME Init PROVE IInv
    OBVIOUS
  <2>1. Typed
    BY InitTyped
  <2>2. LastReported = 0 /\ Len(reported) = 0 /\ Len(frames) = 0
    BY EmptySeq DEF Init, LastReported
  <2> QED
    BY <2>1, <2>2 DEF IInv, Init, Between, Reporting, Delivered, Spare,
       FramesWhole, NoFrameSkipped, RepeatsAreNacks
<1>2. IInv /\ [Next]_vars => IInv'
  BY StepTyped, StepDelivered DEF IInv
<1> QED
  BY <1>1, <1>2, PTL DEF Spec

\* Whatever transfers fail and wherever the controller runs between them, what
\* gt1151_process_frame reports is one frame as it was latched.
THEOREM FramesStayWhole == Spec => []FramesWhole
<1>1. IInv => FramesWhole
  BY DEF IInv, Delivered
<1> QED
  BY <1>1, InvariantHolds, PTL

\* The read-then-clear protocol of gt1151_process_frame skips no frame and
\* reports none out of order.
THEOREM FramesInOrder == Spec => []NoFrameSkipped
<1>1. IInv => NoFrameSkipped
  BY DEF IInv, Delivered
<1> QED
  BY <1>1, InvariantHolds, PTL

\* Ignoring the result of the clear (input_gt1151.c:111) costs at most one
\* repetition for each clear that fails.
THEOREM RepeatsAccounted == Spec => []RepeatsAreNacks
<1>1. IInv => RepeatsAreNacks
  BY DEF IInv, Delivered
<1> QED
  BY <1>1, InvariantHolds, PTL

(***************************************************************************)
(* The address.                                                            *)
(***************************************************************************)

\* The probe leaves the address of the chip that identified itself.
Probed == pc = "attach" \/ Operational => bus[addr] = "gt115x"

\* After a successful gt1151_init every transfer goes to the chip that gave a
\* GT115x product ID, on any board and whichever probe failed.
THEOREM AddressIsController == Spec => []TalksToController
<1> USE DEF Probed, Operational, controller, signals, history
<1>1. Init => Probed
  BY DEF Init
<1>2. Probed /\ [Next]_vars => Probed'
  <2> SUFFICES ASSUME Probed, [Next]_vars
               PROVE  Probed'
    OBVIOUS
  <2>1. ASSUME NEW f \in Frames, Latch(f)
        PROVE  Probed'
    BY <2>1 DEF Latch
  <2>2. CASE Repulse \/ Tick
    BY <2>2 DEF Repulse, Tick
  <2>3. CASE ProbePrimary
    BY <2>3 DEF ProbePrimary, Probe, Identified
  <2>4. CASE ProbeAlt
    BY <2>4 DEF ProbeAlt, Probe, Identified
  <2>5. CASE InitPins \/ InitInt \/ InitFails \/ Attach
    BY <2>5 DEF InitPins, InitInt, InitFails, Attach
  <2>6. CASE StartWork \/ DisableInt \/ EnableInt \/ ReportFrame
    BY <2>6 DEF StartWork, DisableInt, EnableInt, ReportFrame
  <2>7. CASE Transfer
    BY <2>7 DEF Transfer, ReadNoFrame, ReadFrame, ReadPoints, ReadFails,
       ClearStatus, ClearFails, LoopExit
  <2>8. CASE UNCHANGED vars
    BY <2>8 DEF vars
  <2> QED
    BY <2>1, <2>2, <2>3, <2>4, <2>5, <2>6, <2>7, <2>8
    DEF Next, Environment, GTInit, Handler
<1>3. Probed => TalksToController
  BY DEF TalksToController
<1> QED
  BY <1>1, <1>2, <1>3, PTL DEF Spec

(***************************************************************************)
(* The driver implements the channel.                                      *)
(***************************************************************************)

LEMMA InitImplements == Init => Channel!Init
<1> SUFFICES ASSUME Init PROVE Channel!Init
  OBVIOUS
<1>1. LastReported = 0 /\ Len(reported) = 0
  BY EmptySeq DEF Init, LastReported
<1>2. nacks = 0
  BY DEF Init
<1>3. nacks - (Len(reported) - LastReported) = 0
  BY <1>1, <1>2
<1> QED
  BY <1>3 DEF Init, Channel!Init

LEMMA StepImplements == IInv /\ [Next]_vars => [Channel!Next]_(Channel!vars)
<1> SUFFICES ASSUME IInv, [Next]_vars
             PROVE  [Channel!Next]_(Channel!vars)
  OBVIOUS
<1> USE DEF IInv, Typed, controller, signals, history
<1>1. /\ Len(frames) \in Nat /\ Len(reported) \in Nat /\ LastReported \in Nat
      /\ nacks \in Nat /\ buf.frame \in Nat
  BY LastFacts, BoundsAssumption DEF TypeOK, Images
<1>2. Channel!Last = LastReported
  BY DEF Channel!Last, LastReported
<1>3. ASSUME UNCHANGED <<frames, reported, nacks>>
      PROVE  UNCHANGED Channel!vars
  BY <1>3, LastFacts DEF Channel!vars
<1>4. ASSUME NEW f \in Frames, Latch(f)
      PROVE  Channel!Send
  <2>1. Len(frames) - LastReported < 2
    BY <1>1, <1>4 DEF Latch, Between, Reporting
  <2>2. LastReported' = LastReported
    BY <1>4, LastFacts DEF Latch
  <2> QED
    BY <1>2, <1>4, <2>1, <2>2 DEF Latch, Channel!Send
<1>5. CASE ReportFrame
  <2>1. /\ LastReported' = buf.frame /\ Len(reported') = Len(reported) + 1
        /\ reported' = Append(reported, buf)
        /\ UNCHANGED <<frames, nacks>>
    BY <1>5, ReportFacts DEF ReportFrame
  <2>2. buf = [frame |-> buf.frame, contacts |-> Channel!Capped(frames[buf.frame])]
    <3>1. buf.contacts = Channel!Capped(frames[buf.frame])
      BY <1>5 DEF ReportFrame, Reporting, Kept, Smaller, Channel!Capped
    <3>2. buf = [frame |-> buf.frame, contacts |-> buf.contacts]
      BY DEF TypeOK, Images
    <3> QED
      BY <3>1, <3>2
  <2>3. reported' = Channel!Delivery(buf.frame)
    BY <2>1, <2>2 DEF Channel!Delivery
  <2>4. CASE buf.frame = LastReported + 1
    <3>1. Channel!Last < Len(frames)
      BY <1>1, <1>2, <1>5, <2>4 DEF ReportFrame, Reporting
    <3>2. (nacks - (Len(reported) - LastReported))'
            = nacks - (Len(reported) - LastReported)
      BY <1>1, <2>1, <2>4
    <3> QED
      BY <1>2, <2>1, <2>3, <2>4, <3>1, <3>2 DEF Channel!Next, Channel!Deliver
  <2>5. CASE buf.frame = LastReported /\ Spare >= 1
    <3>1. Channel!Last > 0
      BY <1>1, <1>2, <1>5, <2>5 DEF ReportFrame, Reporting
    <3>2. /\ nacks - (Len(reported) - LastReported) > 0
          /\ (nacks - (Len(reported) - LastReported))'
               = nacks - (Len(reported) - LastReported) - 1
      BY <1>1, <2>1, <2>5 DEF Spare
    <3> QED
      BY <1>2, <2>1, <2>3, <2>5, <3>1, <3>2 DEF Channel!Next, Channel!Repeat
  <2> QED
    BY <1>5, <2>4, <2>5 DEF ReportFrame, Reporting
<1>6. CASE ClearFails
  <2>1. UNCHANGED <<frames, reported>> /\ nacks' = nacks + 1
    BY <1>6 DEF ClearFails
  <2>2. (nacks - (Len(reported) - LastReported))'
          = nacks - (Len(reported) - LastReported) + 1
    BY <1>1, <2>1, LastFacts
  <2> QED
    BY <2>1, <2>2 DEF Channel!Next, Channel!LoseAck
<1>7. CASE Repulse \/ Tick \/ GTInit \/ StartWork \/ DisableInt \/ EnableInt
  BY <1>3, <1>7 DEF Repulse, Tick, GTInit, InitPins, InitInt, InitFails,
     ProbePrimary, ProbeAlt, Probe, Attach, StartWork, DisableInt, EnableInt
<1>8. CASE ReadNoFrame \/ ReadFrame \/ ReadPoints \/ ReadFails \/ ClearStatus
  BY <1>3, <1>8 DEF ReadNoFrame, ReadFrame, ReadPoints, ReadFails, ClearStatus
<1>9. CASE UNCHANGED vars
  BY <1>3, <1>9 DEF vars
<1> QED
  BY <1>4, <1>5, <1>6, <1>7, <1>8, <1>9
  DEF Next, Environment, Handler, Transfer, Channel!Next

\* The driver implements the lossless, ordered channel of FrameChannel that
\* holds two frames: every step of the driver is a step of the channel or
\* changes nothing the channel shows.
THEOREM Implementation == Spec => ImplementsChannel
<1> QED
  BY InitImplements, StepImplements, InvariantHolds, PTL
  DEF Spec, ImplementsChannel, Channel!Spec
=============================================================================
