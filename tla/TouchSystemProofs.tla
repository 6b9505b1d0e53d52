------------------------- MODULE TouchSystemProofs --------------------------
(***************************************************************************)
(* Proofs about the touch console (TouchApp) and the touch path            *)
(* (TouchSystem), for any number of slots, any display, any queue and any  *)
(* frames: types, no update lost, and a frame that found room in the queue *)
(* is what the console shows.                                              *)
(***************************************************************************)
EXTENDS TouchSystem, TLAPS

USE DEF App!Slots, App!Idle

(***************************************************************************)
(* The console, whatever events it is called with.                         *)
(***************************************************************************)

\* Limiting a value gives one of the range, and leaves those of the range.
LEMMA ClampFacts ==
    ASSUME NEW v \in Int, NEW n \in Nat \ {0}
    PROVE  App!Clamp(v, n-1) \in 0 .. n-1 /\ (v \in 0 .. n-1 => App!Clamp(v, n-1) = v)
  BY DEF App!Clamp

\* touch_cb keeps the table, the slot and the store it has still to do.
LEMMA CallbackTyped ==
    ASSUME App!TypeOK, NEW e \in App!Inputs, App!touch_cb(e)
    PROVE  App!TypeOK'
<1> USE MaxSlotsAssumption, SizeAssumption, OrderAssumption
<1>1. ASSUME NEW st \in App!States, App!FirstStore(st), UNCHANGED <<current, shown>>
      PROVE  App!TypeOK'
  BY <1>1 DEF App!FirstStore, App!Mark, App!Store, App!TypeOK
<1>2. slots[current] \in App!States /\ e.value \in Int
  BY DEF App!TypeOK, App!Inputs
<1>3. CASE App!SelectSlot(e)
  BY <1>2, <1>3, ClampFacts DEF App!SelectSlot, App!TypeOK
<1>4. CASE App!MoveX(e)
  <2>1. [slots[current] EXCEPT !.x = App!Clamp(e.value, Width-1)] \in App!States
    BY <1>2, ClampFacts DEF App!States
  <2> QED
    BY <1>1, <1>4, <2>1 DEF App!MoveX
<1>5. CASE App!MoveY(e)
  <2>1. [slots[current] EXCEPT !.y = App!Clamp(e.value, Height-1)] \in App!States
    BY <1>2, ClampFacts DEF App!States
  <2> QED
    BY <1>1, <1>5, <2>1 DEF App!MoveY
<1>6. CASE App!Touch(e)
  <2>1. [slots[current] EXCEPT !.down = (e.value # 0)] \in App!States
    BY <1>2 DEF App!States
  <2> QED
    BY <1>1, <1>6, <2>1 DEF App!Touch
<1>7. CASE App!Ignore(e)
  BY <1>7 DEF App!Ignore, App!vars, App!TypeOK
<1> QED
  BY <1>3, <1>4, <1>5, <1>6, <1>7 DEF App!touch_cb

\* So do the rest of touch_cb, the print timer and the steps of others.
LEMMA ConsoleTyped ==
    ASSUME App!TypeOK, App!SecondStore \/ App!print_timer_cb \/ UNCHANGED avars
    PROVE  App!TypeOK'
<1> USE MaxSlotsAssumption
<1>1. CASE App!SecondStore
  <2>1. cb.slot \in App!Slots /\ cb.state \in App!States
    BY <1>1 DEF App!SecondStore, App!TypeOK
  <2> QED
    BY <1>1, <2>1 DEF App!SecondStore, App!Mark, App!Store, App!TypeOK
<1>2. CASE App!print_timer_cb
  BY <1>2 DEF App!print_timer_cb, App!TypeOK, App!Line
<1>3. CASE UNCHANGED avars
  BY <1>3 DEF avars, App!TypeOK
<1> QED
  BY <1>1, <1>2, <1>3

\* The table before any event.
LEMMA ConsoleInit == App!Init => App!TypeOK /\ NoUpdateLost
  BY MaxSlotsAssumption, SizeAssumption
  DEF App!Init, App!TypeOK, App!States, App!Up, App!Line, NoUpdateLost, App!NoUpdateLost

\* The console keeps its types whatever events touch_cb is given: current_slot
\* never leaves the table, no coordinate leaves the display.
THEOREM ConsoleTypeCorrect == App!Spec => []App!TypeOK
<1>1. App!TypeOK /\ [App!Next]_App!vars => App!TypeOK'
  BY CallbackTyped, ConsoleTyped DEF App!Next, App!vars, avars
<1> QED
  BY <1>1, ConsoleInit, PTL DEF App!Spec

\* The first store of an update gives the slot no mark, but touch_cb will.
LEMMA FirstStoreKeeps ==
    ASSUME ~MarkFirst, App!TypeOK, NoUpdateLost,
           NEW st, App!FirstStore(st), cb = App!Idle, UNCHANGED shown
    PROVE  NoUpdateLost'
<1>1. /\ slots' = [slots EXCEPT ![current] = st]
      /\ dirty' = dirty /\ cb'.slot = current
  BY DEF App!FirstStore, App!Store
<1>2. ASSUME NEW s \in App!Slots
      PROVE  shown'[s] = App!Line(slots'[s]) \/ dirty'[s] \/ cb'.slot = s
  <2>1. CASE s = current
    BY <1>1, <2>1
  <2>2. CASE s # current
    <3>1. slots'[s] = slots[s] /\ App!Idle.slot # s
      BY <1>1, <2>2, MaxSlotsAssumption DEF App!TypeOK
    <3>2. shown[s] = App!Line(slots[s]) \/ dirty[s]
      BY <3>1 DEF NoUpdateLost, App!NoUpdateLost
    <3> QED
      BY <1>1, <3>1, <3>2 DEF App!Line
  <2> QED
    BY <2>1, <2>2
<1> QED
  BY <1>2 DEF NoUpdateLost, App!NoUpdateLost

\* No event touch_cb is called with makes it lose an update.
LEMMA CallbackKeeps ==
    ASSUME ~MarkFirst, App!TypeOK, NoUpdateLost, NEW e, App!touch_cb(e)
    PROVE  NoUpdateLost'
<1>1. CASE App!SelectSlot(e) \/ App!Ignore(e)
  <2>1. UNCHANGED <<slots, dirty, cb, shown>>
    BY <1>1 DEF App!SelectSlot, App!Ignore, App!vars
  <2> QED
    BY <2>1 DEF NoUpdateLost, App!NoUpdateLost, App!Line
<1>2. CASE App!MoveX(e) \/ App!MoveY(e) \/ App!Touch(e)
  BY <1>2, FirstStoreKeeps DEF App!MoveX, App!MoveY, App!Touch
<1> QED
  BY <1>1, <1>2 DEF App!touch_cb

\* Nor does the mark, which comes with the end of the update, or the timer,
\* which prints what it clears.
LEMMA ConsoleKeeps ==
    ASSUME ~MarkFirst, App!TypeOK, NoUpdateLost,
           App!SecondStore \/ App!print_timer_cb \/ UNCHANGED avars
    PROVE  NoUpdateLost'
<1>1. CASE App!SecondStore
  <2>1. /\ slots' = slots /\ shown' = shown
        /\ dirty' = [dirty EXCEPT ![cb.slot] = TRUE]
    BY <1>1 DEF App!SecondStore, App!Mark
  <2>2. ASSUME NEW s \in App!Slots
        PROVE  shown'[s] = App!Line(slots'[s]) \/ dirty'[s] \/ cb'.slot = s
    <3>1. shown[s] = App!Line(slots[s]) \/ dirty[s] \/ cb.slot = s
      BY DEF NoUpdateLost, App!NoUpdateLost
    <3>2. dirty \in [App!Slots -> BOOLEAN]
      BY DEF App!TypeOK
    <3> QED
      BY <2>1, <3>1, <3>2 DEF App!Line
  <2> QED
    BY <2>2 DEF NoUpdateLost, App!NoUpdateLost
<1>2. CASE App!print_timer_cb
  <2>1. /\ slots' = slots /\ cb' = cb
        /\ shown' = [s \in App!Slots |->
                        IF dirty[s] THEN App!Line(slots[s]) ELSE shown[s]]
    BY <1>2 DEF App!print_timer_cb
  <2>2. ASSUME NEW s \in App!Slots
        PROVE  shown'[s] = App!Line(slots'[s]) \/ dirty'[s] \/ cb'.slot = s
    BY <2>1 DEF NoUpdateLost, App!NoUpdateLost, App!Line
  <2> QED
    BY <2>2 DEF NoUpdateLost, App!NoUpdateLost
<1>3. CASE UNCHANGED avars
  BY <1>3 DEF avars, NoUpdateLost, App!NoUpdateLost, App!Line
<1> QED
  BY <1>1, <1>2, <1>3

\* In a build that updates a slot before it marks it, the console loses no
\* update, whatever events it is given.
THEOREM ConsoleKeepsUpdates == ~MarkFirst /\ App!Spec => []NoUpdateLost
<1> SUFFICES ASSUME ~MarkFirst
             PROVE  App!Spec => []NoUpdateLost
  OBVIOUS
<1>1. App!TypeOK /\ NoUpdateLost /\ [App!Next]_App!vars => NoUpdateLost'
  BY CallbackKeeps, ConsoleKeeps DEF App!Next, App!vars, avars
<1> QED
  BY <1>1, ConsoleInit, ConsoleTypeCorrect, PTL DEF App!Spec

(***************************************************************************)
(* The events of a frame.                                                  *)
(***************************************************************************)

\* The number of a contact's slot is one of the table, its coordinates are
\* numbers.
LEMMA ContactFacts ==
    ASSUME NEW c \in Contacts
    PROVE  /\ c.x \in Int /\ c.y \in Int /\ SlotOf(c) \in App!Slots
           /\ \A k \in 1 .. PerContact : ContactEvents(c)[k] \in App!Inputs
           /\ MaxSlots > 1 => /\ PerContact = 3
                              /\ ContactEvents(c)[1] = Event("slot", SlotOf(c))
                              /\ ContactEvents(c)[2] = Event("x", c.x)
                              /\ ContactEvents(c)[3] = Event("y", c.y)
           /\ MaxSlots = 1 => /\ PerContact = 2
                              /\ ContactEvents(c)[1] = Event("x", c.x)
                              /\ ContactEvents(c)[2] = Event("y", c.y)
<1>2. c.x \in Int /\ c.y \in Int /\ c.id \in Int
  BY ContactsAssumption
<1>3. SlotOf(c) \in App!Slots /\ SlotOf(c) \in Int
  BY <1>2, MaxSlotsAssumption DEF SlotOf
<1>4. /\ Event("slot", SlotOf(c)) \in App!Inputs
      /\ Event("x", c.x) \in App!Inputs /\ Event("y", c.y) \in App!Inputs
  BY <1>2, <1>3 DEF Event, App!Inputs, App!Codes
<1>5. CASE MaxSlots > 1
  <2>1. PerContact = 3
    BY <1>5 DEF PerContact
  <2>2. /\ ContactEvents(c)[1] = Event("slot", SlotOf(c))
        /\ ContactEvents(c)[2] = Event("x", c.x)
        /\ ContactEvents(c)[3] = Event("y", c.y)
    BY <1>5 DEF ContactEvents, SlotOf
  <2> QED
    BY <1>2, <1>3, <1>4, <1>5, <2>1, <2>2
<1>6. CASE MaxSlots = 1
  <2>1. PerContact = 2
    BY <1>6 DEF PerContact
  <2>2. ContactEvents(c)[1] = Event("x", c.x) /\ ContactEvents(c)[2] = Event("y", c.y)
    BY <1>6 DEF ContactEvents
  <2> QED
    BY <1>2, <1>3, <1>4, <1>6, <2>1, <2>2
<1> QED
  BY <1>5, <1>6, MaxSlotsAssumption

\* A function on an initial segment is a sequence.
LEMMA SegmentIsSeq ==
    ASSUME NEW S, NEW n \in Nat, NEW f \in [1 .. n -> S]
    PROVE  f \in Seq(S) /\ Len(f) = n /\ DOMAIN f = 1 .. n
  OBVIOUS

\* The last events of a frame are those of its last contact and BTN_TOUCH.
LEMMA FrameFacts ==
    ASSUME NEW f \in Seq(Contacts)
    PROVE  LET F == FrameEvents(f)
               N == Len(F)
               c == f[Len(f)]
           IN  /\ F \in Seq(App!Inputs) /\ N \in Nat \ {0} /\ DOMAIN F = 1 .. N
               /\ F[N] = Event("touch", IF f = <<>> THEN 0 ELSE 1)
               /\ f # <<>> =>
                    /\ c \in Contacts /\ N >= 3
                    /\ F[N-1] = Event("y", c.y) /\ F[N-2] = Event("x", c.x)
                    /\ MaxSlots > 1 => N >= 4 /\ F[N-3] = Event("slot", SlotOf(c))
<1> DEFINE F == FrameEvents(f)
           n == Len(f)
           N == PerContact * n + 1
           c == f[n]
           contact(k) == f[((k-1) \div PerContact) + 1]
           place(k) == ((k-1) % PerContact) + 1
<1>1. n \in Nat /\ (f # <<>> => n >= 1) /\ \A i \in 1 .. n : f[i] \in Contacts
  OBVIOUS
<1>2. PerContact \in {2, 3} /\ (MaxSlots > 1 => PerContact = 3)
                           /\ (MaxSlots = 1 => PerContact = 2)
  BY DEF PerContact
<1>3. N \in Nat \ {0} /\ \A k \in 1 .. N-1 : ((k-1) \div PerContact) + 1 \in 1 .. n
                                             /\ place(k) \in 1 .. PerContact
  <2>1. CASE PerContact = 2
    BY <1>1, <2>1
  <2>2. CASE PerContact = 3
    BY <1>1, <2>2
  <2> QED
    BY <1>2, <2>1, <2>2
<1>4. \A k \in 1 .. N-1 : ContactEvents(contact(k))[place(k)] \in App!Inputs
  <2> SUFFICES ASSUME NEW k \in 1 .. N-1
               PROVE  ContactEvents(contact(k))[place(k)] \in App!Inputs
    OBVIOUS
  <2>1. contact(k) \in Contacts /\ place(k) \in 1 .. PerContact
    BY <1>1, <1>3
  <2> HIDE DEF contact, place
  <2> QED
    BY <2>1, ContactFacts
<1>5. Event("touch", IF f = <<>> THEN 0 ELSE 1) \in App!Inputs
  BY DEF Event, App!Inputs, App!Codes
<1>6. F = [k \in 1 .. N |-> IF k = N THEN Event("touch", IF f = <<>> THEN 0 ELSE 1)
                            ELSE ContactEvents(contact(k))[place(k)]]
  BY DEF FrameEvents
<1> HIDE DEF F, N, contact, place
<1>7. F \in [1 .. N -> App!Inputs]
  <2>1. ASSUME NEW k \in 1 .. N
        PROVE  (IF k = N THEN Event("touch", IF f = <<>> THEN 0 ELSE 1)
                ELSE ContactEvents(contact(k))[place(k)]) \in App!Inputs
    <3>1. k # N => k \in 1 .. N-1
      BY <1>3
    <3> QED
      BY <1>4, <1>5, <3>1
  <2> QED
    BY <1>6, <2>1
<1>8. F \in Seq(App!Inputs) /\ Len(F) = N /\ DOMAIN F = 1 .. N
  BY <1>3, <1>7, SegmentIsSeq
<1>9. F[N] = Event("touch", IF f = <<>> THEN 0 ELSE 1)
  BY <1>3, <1>6
<1>10. ASSUME f # <<>>
       PROVE  /\ c \in Contacts /\ N >= 3
              /\ F[N-1] = Event("y", c.y) /\ F[N-2] = Event("x", c.x)
              /\ MaxSlots > 1 => N >= 4 /\ F[N-3] = Event("slot", SlotOf(c))
  <2>1. n >= 1 /\ c \in Contacts
    BY <1>1, <1>10
  <2>2. \A k \in 1 .. N-1 : F[k] = ContactEvents(contact(k))[place(k)]
    BY <1>3, <1>6
  <2>3. CASE MaxSlots > 1
    <3>1. N = 3*n + 1 /\ N >= 4
      BY <1>1, <1>2, <2>1, <2>3 DEF N
    <3>2. /\ N-1 \in 1 .. N-1 /\ contact(N-1) = c /\ place(N-1) = 3
          /\ N-2 \in 1 .. N-1 /\ contact(N-2) = c /\ place(N-2) = 2
          /\ N-3 \in 1 .. N-1 /\ contact(N-3) = c /\ place(N-3) = 1
      BY <1>1, <1>2, <2>1, <2>3, <3>1 DEF contact, place
    <3>3. /\ ContactEvents(c)[1] = Event("slot", SlotOf(c))
          /\ ContactEvents(c)[2] = Event("x", c.x)
          /\ ContactEvents(c)[3] = Event("y", c.y)
      BY <2>1, <2>3, ContactFacts
    <3> QED
      BY <2>1, <2>2, <3>1, <3>2, <3>3
  <2>4. CASE MaxSlots = 1
    <3>1. N = 2*n + 1 /\ N >= 3
      BY <1>1, <1>2, <2>1, <2>4 DEF N
    <3>2. /\ N-1 \in 1 .. N-1 /\ contact(N-1) = c /\ place(N-1) = 2
          /\ N-2 \in 1 .. N-1 /\ contact(N-2) = c /\ place(N-2) = 1
      BY <1>1, <1>2, <2>1, <2>4, <3>1 DEF contact, place
    <3>3. ContactEvents(c)[1] = Event("x", c.x) /\ ContactEvents(c)[2] = Event("y", c.y)
      BY <2>1, <2>4, ContactFacts
    <3> QED
      BY <2>1, <2>2, <2>4, <3>1, <3>2, <3>3
  <2> QED
    BY <2>3, <2>4, MaxSlotsAssumption
<1> QED
  BY <1>3, <1>8, <1>9, <1>10 DEF F


(***************************************************************************)
(* The touch path: what the driver holds and what waits in the queue.      *)
(***************************************************************************)

Read == [frame : Nat, contacts : Seq(Contacts)]

\* The driver reads, keeps and reports sequences of contacts.  The frame in the
\* point registers when it reads them is still the one (buf.frame) whose count
\* it read, and what it has read when it acknowledges and reports is that frame,
\* as it was latched, up to the slots there are.
DriverReads ==
    /\ frames \in Seq(Frames)
    /\ ready => frames # <<>>
    /\ pc = "points" => ready /\ buf.frame = Len(frames) /\ points = Driver!Announced
    /\ pc \in {"clear", "report"} =>
         buf.frame \in 1 .. Len(frames) /\ buf.contacts = Driver!Kept(frames[buf.frame])
    /\ buf \in Read
    /\ reported \in Seq(Read)

\* The queue holds input events, and no more than it has room for.
QueueHolds == queue \in Seq(App!Inputs) /\ Len(queue) <= QueueSize

\* The frame latched last is a sequence of contacts.
LEMMA LatchedFrame ==
    ASSUME DriverReads, frames # <<>>
    PROVE  /\ Len(frames) \in 1 .. Len(frames)
           /\ frames[Len(frames)] \in Seq(Contacts)
           /\ Driver!Announced \in 0 .. Len(frames[Len(frames)])
           /\ Driver!Kept(frames[Len(frames)])
                = SubSeq(frames[Len(frames)], 1, Driver!Announced)
<1>1. Len(frames) \in 1 .. Len(frames)
  BY DEF DriverReads
<1>2. frames[Len(frames)] \in Seq(Contacts)
  BY <1>1, FramesAssumption DEF DriverReads
<1>3. Len(frames[Len(frames)]) \in Nat
  BY <1>2
<1> QED
  BY <1>1, <1>2, <1>3, MaxSlotsAssumption DEF Driver!Announced, Driver!Smaller, Driver!Kept

\* The first events or contacts of a sequence.
LEMMA FirstOnes ==
    ASSUME NEW S, NEW s \in Seq(S), NEW n \in 0 .. Len(s)
    PROVE  /\ SubSeq(s, 1, n) \in Seq(S) /\ Len(SubSeq(s, 1, n)) = n
           /\ \A i \in 1 .. n : SubSeq(s, 1, n)[i] = s[i]
  OBVIOUS

\* Every step of the driver but the report keeps DriverReads.
LEMMA DriverStepReads ==
    ASSUME DriverReads, DriverStep
    PROVE  DriverReads'
<1>1. CASE Driver!Environment
  <2>1. ASSUME NEW f \in Frames, Driver!Latch(f)
        PROVE  DriverReads'
    <3>1. /\ ~ready /\ ready' /\ frames' = Append(frames, f)
          /\ UNCHANGED <<pc, points, buf, reported>>
      BY <2>1 DEF Driver!Latch, Driver!history
    <3>2. /\ frames' \in Seq(Frames) /\ frames' # <<>> /\ Len(frames') = Len(frames) + 1
          /\ Len(frames) \in Nat /\ \A i \in 1 .. Len(frames) : frames'[i] = frames[i]
      BY <3>1 DEF DriverReads
    <3>3. pc' # "points"
      BY <3>1 DEF DriverReads
    <3>4. ASSUME pc' \in {"clear", "report"}
          PROVE  /\ buf'.frame \in 1 .. Len(frames')
                 /\ buf'.contacts = Driver!Kept(frames'[buf'.frame])
      <4>1. /\ buf.frame \in 1 .. Len(frames)
            /\ buf.contacts = Driver!Kept(frames[buf.frame])
        BY <3>1, <3>4 DEF DriverReads
      <4> QED
        BY <3>1, <3>2, <4>1
    <3> QED
      BY <3>1, <3>2, <3>3, <3>4 DEF DriverReads
  <2>2. CASE Driver!Repulse \/ Driver!Tick
    BY <2>2 DEF Driver!Repulse, Driver!Tick, Driver!controller, Driver!history,
                Driver!Announced, DriverReads
  <2> QED
    BY <1>1, <2>1, <2>2 DEF Driver!Environment
<1>2. CASE Driver!GTInit
  BY <1>2 DEF Driver!GTInit, Driver!InitPins, Driver!InitInt, Driver!InitFails,
              Driver!ProbePrimary, Driver!ProbeAlt, Driver!Probe, Driver!Attach,
              Driver!controller, Driver!history, Driver!Announced, DriverReads
<1>3. CASE Driver!Handler
  <2>1. CASE Driver!StartWork \/ Driver!DisableInt \/ Driver!EnableInt
    BY <2>1 DEF Driver!StartWork, Driver!DisableInt, Driver!EnableInt,
                Driver!controller, Driver!history, Driver!Announced, DriverReads
  <2>2. CASE Driver!ReadNoFrame \/ Driver!ReadFails \/ Driver!ClearFails
    BY <2>2 DEF Driver!ReadNoFrame, Driver!ReadFails, Driver!ClearFails,
                Driver!LoopExit, Driver!controller, Driver!history,
                Driver!Announced, DriverReads
  <2>3. CASE Driver!ReadFrame
    <3>1. /\ ready /\ UNCHANGED <<ready, frames, reported>>
          /\ points' = Driver!Announced
          /\ buf' = Driver!Image(Len(frames), <<>>)
      BY <2>3 DEF Driver!ReadFrame, Driver!controller, Driver!history
    <3>2. /\ Len(frames) \in 1 .. Len(frames) /\ frames[Len(frames)] \in Seq(Contacts)
          /\ Driver!Announced \in 0 .. Len(frames[Len(frames)])
          /\ Driver!Kept(frames[Len(frames)])
               = SubSeq(frames[Len(frames)], 1, Driver!Announced)
      BY <3>1, LatchedFrame DEF DriverReads
    <3>3. Driver!Announced' = Driver!Announced
      BY <3>1 DEF Driver!Announced
    <3>4. buf' \in Read /\ buf'.frame = Len(frames) /\ buf'.contacts = <<>>
      BY <3>1, <3>2 DEF Driver!Image, Read
    <3>5. pc' = "points" \/ (pc' = "clear" /\ ~(Driver!Announced > 0))
      BY <2>3 DEF Driver!ReadFrame
    <3>6. ASSUME pc' = "clear"
          PROVE  buf'.contacts = Driver!Kept(frames[Len(frames)])
      <4>1. Driver!Announced = 0
        BY <3>2, <3>5, <3>6
      <4>2. SubSeq(frames[Len(frames)], 1, 0) = <<>>
        BY <3>2
      <4> QED
        BY <3>2, <3>4, <4>1, <4>2
    <3> QED
      BY <3>1, <3>2, <3>3, <3>4, <3>5, <3>6 DEF DriverReads
  <2>4. CASE Driver!ReadPoints
    <3>1. /\ pc = "points" /\ pc' = "clear" /\ UNCHANGED <<ready, frames, reported>>
          /\ buf' = Driver!Image(Len(frames), SubSeq(frames[Len(frames)], 1, points))
      BY <2>4 DEF Driver!ReadPoints, Driver!controller, Driver!history
    <3>2. /\ frames # <<>> /\ points = Driver!Announced
          /\ Len(frames) \in 1 .. Len(frames) /\ frames[Len(frames)] \in Seq(Contacts)
          /\ points \in 0 .. Len(frames[Len(frames)])
          /\ Driver!Kept(frames[Len(frames)]) = SubSeq(frames[Len(frames)], 1, points)
      BY <3>1, LatchedFrame DEF DriverReads
    <3>3. SubSeq(frames[Len(frames)], 1, points) \in Seq(Contacts)
      BY <3>2, FirstOnes
    <3>4. /\ buf' \in Read /\ buf'.frame = Len(frames)
          /\ buf'.contacts = Driver!Kept(frames[Len(frames)])
      BY <3>1, <3>2, <3>3 DEF Driver!Image, Read
    <3> QED
      BY <3>1, <3>2, <3>4 DEF DriverReads
  <2>5. CASE Driver!ClearStatus
    BY <2>5 DEF Driver!ClearStatus, Driver!history, DriverReads
  <2> QED
    BY <1>3, <2>1, <2>2, <2>3, <2>4, <2>5 DEF Driver!Handler, Driver!Transfer
<1> QED
  BY <1>1, <1>2, <1>3 DEF DriverStep

\* So does the report, which makes the contacts read the last frame reported.
LEMMA ReportReads ==
    ASSUME DriverReads, Driver!ReportFrame
    PROVE  /\ DriverReads' /\ reported' # <<>>
           /\ LastFrame' = buf.contacts /\ buf.contacts \in Seq(Contacts)
<1>1. /\ reported' = Append(reported, buf) /\ pc' = "status"
      /\ UNCHANGED <<ready, frames, points, buf>>
  BY DEF Driver!ReportFrame, Driver!controller
<1>2. /\ reported' \in Seq(Read) /\ reported' # <<>>
      /\ reported'[Len(reported')] = buf
  BY <1>1 DEF DriverReads
<1>3. buf.contacts \in Seq(Contacts)
  BY DEF DriverReads, Read
<1> QED
  BY <1>1, <1>2, <1>3 DEF DriverReads, LastFrame

\* A sequence put behind another.
LEMMA Behind ==
    ASSUME NEW S, NEW q \in Seq(S), NEW t \in Seq(S)
    PROVE  /\ q \o t \in Seq(S) /\ Len(q \o t) = Len(q) + Len(t)
           /\ \A i \in 1 .. Len(t) : (q \o t)[Len(q) + i] = t[i]
<1>1. q \o t \in Seq(S) /\ Len(q \o t) = Len(q) + Len(t)
  OBVIOUS
<1>2. ASSUME NEW i \in 1 .. Len(t)
      PROVE  (q \o t)[Len(q) + i] = t[i]
  <2>1. Len(q) \in Nat /\ Len(t) \in Nat /\ Len(q) + i \in 1 .. Len(q) + Len(t)
    OBVIOUS
  <2> QED
    BY <2>1
<1> QED
  BY <1>1, <1>2

\* What a full queue leaves of a frame's events: the first ones.
LEMMA PutFacts ==
    ASSUME NEW S, NEW q \in Seq(S), Len(q) <= QueueSize, NEW events \in Seq(S)
    PROVE  LET r == Put(q, events)
               n == Len(r) - Len(q)
           IN  /\ r \in Seq(S) /\ Len(r) <= QueueSize /\ n \in 0 .. Len(events)
               /\ \A i \in 1 .. n : r[Len(q) + i] = events[i]
<1> DEFINE m == Driver!Smaller(Len(events), QueueSize - Len(q))
           t == SubSeq(events, 1, m)
<1>1. Len(q) \in Nat /\ Len(events) \in Nat /\ QueueSize \in Nat
  BY QueueAssumption
<1>2. m \in 0 .. Len(events) /\ Len(q) + m <= QueueSize
  BY <1>1 DEF Driver!Smaller
<1>3. t \in Seq(S) /\ Len(t) = m /\ \A i \in 1 .. m : t[i] = events[i]
  BY <1>2, FirstOnes
<1>4. Put(q, events) = q \o t
  BY DEF Put
<1> HIDE DEF m, t
<1>5. /\ q \o t \in Seq(S) /\ Len(q \o t) = Len(q) + m
      /\ \A i \in 1 .. m : (q \o t)[Len(q) + i] = t[i]
  BY <1>3, Behind
<1> QED
  BY <1>1, <1>2, <1>3, <1>4, <1>5

\* What the path holds at any moment; the console's part of it does not
\* depend on the frames.
PathHolds == App!TypeOK /\ DriverReads /\ QueueHolds

\* The event the input thread takes is an input, the rest stays in order.
LEMMA TakenFacts ==
    ASSUME QueueHolds, queue # <<>>
    PROVE  /\ Len(queue) \in Nat \ {0}
           /\ Head(queue) \in App!Inputs /\ Head(queue) = queue[1]
           /\ Tail(queue) \in Seq(App!Inputs) /\ Len(Tail(queue)) = Len(queue) - 1
           /\ \A i \in 1 .. Len(queue) - 1 : Tail(queue)[i] = queue[i+1]
  BY DEF QueueHolds

LEMMA PathInit == Init => PathHolds
<1> SUFFICES ASSUME Init
             PROVE  PathHolds
  OBVIOUS
<1>1. App!TypeOK
  BY ConsoleInit DEF Init
<1>2. DriverReads
  BY DEF Init, Driver!Init, Driver!Image, DriverReads, Read
<1>3. QueueHolds
  BY QueueAssumption DEF Init, QueueHolds
<1> QED
  BY <1>1, <1>2, <1>3 DEF PathHolds

LEMMA PathStep == PathHolds /\ [Next]_vars => PathHolds'
<1> SUFFICES ASSUME PathHolds, [Next]_vars
             PROVE  PathHolds'
  OBVIOUS
<1> USE DEF PathHolds
<1>1. ASSUME UNCHANGED dvars
      PROVE  DriverReads'
  BY <1>1 DEF dvars, Driver!Announced, DriverReads
<1>2. ASSUME UNCHANGED qvars
      PROVE  QueueHolds'
  BY <1>2 DEF qvars, QueueHolds
<1>3. CASE DriverStep
  BY <1>2, <1>3, DriverStepReads, ConsoleTyped DEF DriverStep
<1>4. CASE Report
  <2>1. QueueHolds'
    <3>1. FrameEvents(buf.contacts) \in Seq(App!Inputs)
      BY <1>4, ReportReads, FrameFacts DEF Report
    <3> QED
      BY <1>4, <3>1, PutFacts DEF Report, QueueHolds
  <2> QED
    BY <1>4, <2>1, ReportReads, ConsoleTyped DEF Report
<1>5. CASE Deliver
  <2>1. QueueHolds' /\ App!TypeOK'
    BY <1>5, TakenFacts, CallbackTyped, QueueAssumption DEF Deliver, QueueHolds
  <2> QED
    BY <1>1, <1>5, <2>1 DEF Deliver
<1>6. CASE Callback \/ PrintTick
  BY <1>1, <1>2, <1>6, ConsoleTyped DEF Callback, PrintTick
<1>7. CASE UNCHANGED vars
  BY <1>1, <1>2, <1>7, ConsoleTyped DEF vars
<1> QED
  BY <1>3, <1>4, <1>5, <1>6, <1>7 DEF Next

\* Whatever the driver reads and the queue drops: the console keeps its types, the
\* driver reads the points of the frame whose count it read, and acknowledges and
\* reports that frame contact for contact as it was latched, up to the slots there
\* are; the queue never overfills.
THEOREM PathCorrect == Spec => []PathHolds
  BY PathInit, PathStep, PTL DEF Spec

\* In a build that updates a slot before it marks it, no interleaving of the
\* print timer with the callback loses an update, whatever the driver reports
\* and the queue drops.
THEOREM UpdatesAreKept == ~MarkFirst /\ Spec => []NoUpdateLost
<1> SUFFICES ASSUME ~MarkFirst
             PROVE  Spec => []NoUpdateLost
  OBVIOUS
<1>1. PathHolds /\ NoUpdateLost /\ [Next]_vars => NoUpdateLost'
  BY CallbackKeeps, ConsoleKeeps
  DEF PathHolds, Next, vars, DriverStep, Report, Deliver, Callback, PrintTick
<1>2. Init => NoUpdateLost
  BY ConsoleInit DEF Init
<1> QED
  BY <1>1, <1>2, PathCorrect, PTL DEF Spec

(***************************************************************************)
(* The frame reported last, on its way through the queue to the console.   *)
(***************************************************************************)

\* The number of events of frame f that still wait; what waited before them
\* is not counted.
Coming(f) == Driver!Smaller(Len(queue), Len(FrameEvents(f)))

\* The last events in the queue are the last ones of frame f.
InQueue(f) ==
    \A i \in 0 .. Coming(f) - 1 :
        queue[Len(queue) - i] = FrameEvents(f)[Len(FrameEvents(f)) - i]

\* The events of frame f's last contact that were taken did their work, when
\* n events still wait.
DrawnUpTo(f, n) ==
    IF f = <<>>
    THEN n = 0 => ~slots[current].down
    ELSE LET c == f[Len(f)]
         IN  /\ n <= 3 => current = SlotOf(c)
             /\ n <= 2 => slots[SlotOf(c)].x = App!Clamp(c.x, Width-1)
             /\ n <= 1 => slots[SlotOf(c)].y = App!Clamp(c.y, Height-1)
             /\ n = 0  => slots[SlotOf(c)].down

\* A frame that found room in the queue is on its way.
Arriving ==
    whole /\ reported # <<>> => InQueue(LastFrame) /\ DrawnUpTo(LastFrame, Coming(LastFrame))

\* An event that moves the slot or selects one.
LEMMA MoveDoes ==
    ASSUME ~MarkFirst, App!TypeOK, NEW v \in Int, NEW code \in {"slot", "x", "y"},
           App!touch_cb(Event(code, v))
    PROVE  /\ code = "slot" => current' = App!Clamp(v, MaxSlots-1)
           /\ code # "slot" => current' = current
           /\ code = "x" => slots'[current].x = App!Clamp(v, Width-1)
           /\ code = "y" => /\ slots'[current].x = slots[current].x
                           /\ slots'[current].y = App!Clamp(v, Height-1)
<1> DEFINE e == Event(code, v)
<1>1. e.code = code /\ e.value = v
  BY DEF Event
<1> HIDE DEF e
<1>2. App!SelectSlot(e) \/ App!MoveX(e) \/ App!MoveY(e)
  BY <1>1 DEF App!touch_cb, App!Touch, App!Ignore, e
<1>3. slots[current] \in App!States
  BY DEF App!TypeOK
<1>4. ASSUME NEW st, App!FirstStore(st)
      PROVE  slots'[current] = st
  BY <1>4 DEF App!FirstStore, App!Store, App!TypeOK
<1>5. CASE App!SelectSlot(e)
  BY <1>1, <1>5 DEF App!SelectSlot
<1>6. CASE App!MoveX(e)
  <2>1. slots'[current] = [slots[current] EXCEPT !.x = App!Clamp(v, Width-1)]
    BY <1>1, <1>4, <1>6 DEF App!MoveX
  <2> QED
    BY <1>1, <1>3, <1>6, <2>1 DEF App!MoveX, App!States
<1>7. CASE App!MoveY(e)
  <2>1. slots'[current] = [slots[current] EXCEPT !.y = App!Clamp(v, Height-1)]
    BY <1>1, <1>4, <1>7 DEF App!MoveY
  <2> QED
    BY <1>1, <1>3, <1>7, <2>1 DEF App!MoveY, App!States
<1> QED
  BY <1>2, <1>5, <1>6, <1>7

\* BTN_TOUCH leaves the selected slot where it is, pressed or released.
LEMMA TouchDoes ==
    ASSUME ~MarkFirst, App!TypeOK, NEW v \in Int, App!touch_cb(Event("touch", v))
    PROVE  /\ current' = current
           /\ slots'[current].x = slots[current].x
           /\ slots'[current].y = slots[current].y
           /\ v # 0 => slots'[current].down
           /\ v = 0 => ~slots'[current].down
<1> DEFINE e == Event("touch", v)
<1>1. e.code = "touch" /\ e.value = v
  BY DEF Event
<1> HIDE DEF e
<1>2. App!Touch(e) \/ App!Ignore(e)
  BY <1>1 DEF App!touch_cb, App!SelectSlot, App!MoveX, App!MoveY, e
<1>3. slots[current] \in App!States
  BY DEF App!TypeOK
<1>4. CASE App!Touch(e)
  <2>1. slots'[current] = [slots[current] EXCEPT !.down = (v # 0)] /\ current' = current
    BY <1>1, <1>4 DEF App!Touch, App!FirstStore, App!Store, App!TypeOK
  <2> QED
    BY <1>3, <2>1 DEF App!States
<1>5. CASE App!Ignore(e)
  BY <1>1, <1>5 DEF App!Ignore, App!vars
<1> QED
  BY <1>2, <1>4, <1>5

\* Each event of a frame draws its part: the n-th last event taken, n-1 wait.
LEMMA EventDraws ==
    ASSUME ~MarkFirst, App!TypeOK, NEW f \in Seq(Contacts),
           NEW n \in 1 .. Len(FrameEvents(f)), DrawnUpTo(f, n),
           App!touch_cb(FrameEvents(f)[Len(FrameEvents(f)) - (n-1)])
    PROVE  DrawnUpTo(f, n-1)'
<1> DEFINE F == FrameEvents(f)
           N == Len(F)
           c == f[Len(f)]
           s == SlotOf(c)
<1>1. F \in Seq(App!Inputs) /\ N \in Nat \ {0} /\ N - (n-1) \in 1 .. N
  BY FrameFacts
<1>2. F[N - (n-1)] \in App!Inputs
  BY <1>1
<1>3. current \in App!Slots /\ slots[current] \in App!States
  BY DEF App!TypeOK
<1>4. current' \in App!Slots
  BY <1>2, CallbackTyped DEF App!TypeOK
<1>5. CASE f = <<>>
  <2>1. n = 1 => F[N] = Event("touch", 0)
    BY <1>5, FrameFacts
  <2>2. ASSUME n = 1
        PROVE  ~slots'[current'].down
    <3>1. N - (n-1) = N
      BY <1>1, <2>2
    <3>2. App!touch_cb(Event("touch", 0))
      BY <2>1, <2>2, <3>1
    <3> QED
      BY <3>2, TouchDoes
  <2> QED
    BY <1>5, <2>2 DEF DrawnUpTo
<1>6. CASE f # <<>>
  <2>1. c \in Contacts /\ s \in App!Slots /\ c.x \in Int /\ c.y \in Int /\ s \in Int
    BY <1>6, FrameFacts, ContactFacts, MaxSlotsAssumption
  <2>2. MaxSlots = 1 => current' = s
    BY <1>4, <2>1
  <2>3. /\ n <= 3 => current = s
        /\ n <= 2 => slots[s].x = App!Clamp(c.x, Width-1)
        /\ n <= 1 => slots[s].y = App!Clamp(c.y, Height-1)
    BY <1>6 DEF DrawnUpTo
  <2>4. SUFFICES /\ n-1 <= 3 => current' = s
                 /\ n-1 <= 2 => slots'[s].x = App!Clamp(c.x, Width-1)
                 /\ n-1 <= 1 => slots'[s].y = App!Clamp(c.y, Height-1)
                 /\ n-1 = 0  => slots'[s].down
    BY <1>6 DEF DrawnUpTo
  <2>5. CASE n = 1
    <3>1. F[N] = Event("touch", 1)
      BY <1>6, FrameFacts
    <3>2. N - (n-1) = N
      BY <1>1, <2>5
    <3>3. App!touch_cb(Event("touch", 1))
      BY <3>1, <3>2
    <3> QED
      BY <2>3, <2>5, <3>3, TouchDoes
  <2>6. CASE n = 2
    <3>1. F[N-1] = Event("y", c.y)
      BY <1>6, FrameFacts
    <3> QED
      BY <1>1, <1>3, <2>1, <2>3, <2>6, <3>1, MoveDoes
  <2>7. CASE n = 3
    <3>1. F[N-2] = Event("x", c.x)
      BY <1>6, FrameFacts
    <3> QED
      BY <1>1, <1>3, <2>1, <2>3, <2>7, <3>1, MoveDoes
  <2>8. CASE n >= 4
    <3>1. MaxSlots > 1 /\ n = 4 => current' = s
      <4>1. MaxSlots > 1 => F[N-3] = Event("slot", s)
        BY <1>6, FrameFacts
      <4> QED
        BY <1>1, <2>1, <4>1, ClampFacts, MoveDoes, MaxSlotsAssumption
    <3> QED
      BY <2>2, <2>8, <3>1, MaxSlotsAssumption
  <2> QED
    BY <1>1, <2>5, <2>6, <2>7, <2>8
<1> QED
  BY <1>5, <1>6

\* A report that finds room for the whole frame f puts all of it at the end.
LEMMA ReportArrives ==
    ASSUME PathHolds, Report, NEW f \in Seq(Contacts), f = buf.contacts, whole'
    PROVE  InQueue(f)' /\ DrawnUpTo(f, Coming(f))'
<1> DEFINE F == FrameEvents(f)
           N == Len(F)
<1>1. F \in Seq(App!Inputs) /\ N \in Nat \ {0}
  BY FrameFacts
<1>2. /\ queue' = Put(queue, F) /\ Len(queue') - Len(queue) = N
      /\ UNCHANGED <<slots, current>>
  BY DEF Report, avars
<1>3. queue \in Seq(App!Inputs) /\ Len(queue) <= QueueSize /\ Len(queue) \in Nat
  BY DEF PathHolds, QueueHolds
<1> HIDE DEF F
<1>4. /\ Len(queue') = Len(queue) + N
      /\ \A i \in 1 .. N : queue'[Len(queue) + i] = F[i]
  <2>1. /\ Put(queue, F) \in Seq(App!Inputs)
        /\ \A i \in 1 .. Len(Put(queue, F)) - Len(queue) :
              Put(queue, F)[Len(queue) + i] = F[i]
    BY <1>1, <1>3, PutFacts
  <2>2. Len(queue') \in Nat
    BY <1>2, <2>1
  <2> QED
    BY <1>1, <1>2, <1>3, <2>1, <2>2
<1>5. Coming(f)' = N
  BY <1>1, <1>3, <1>4 DEF Coming, Driver!Smaller, F
<1>6. InQueue(f)'
  <2>1. ASSUME NEW i \in 0 .. N-1
        PROVE  queue'[Len(queue') - i] = F[N - i]
    <3>1. N - i \in 1 .. N /\ Len(queue') - i = Len(queue) + (N - i)
      BY <1>1, <1>3, <1>4
    <3> QED
      BY <1>4, <3>1
  <2> QED
    BY <1>5, <2>1 DEF InQueue, F
<1>7. DrawnUpTo(f, N)'
  <2>1. CASE f = <<>>
    BY <1>1, <2>1 DEF DrawnUpTo
  <2>2. CASE f # <<>>
    <3>1. /\ N >= 3 /\ (MaxSlots > 1 => N >= 4) /\ f[Len(f)] \in Contacts
      BY <1>1, <2>2, FrameFacts DEF F
    <3>2. SlotOf(f[Len(f)]) \in App!Slots /\ current \in App!Slots
      BY <3>1, ContactFacts DEF PathHolds, App!TypeOK
    <3>3. N <= 3 => current = SlotOf(f[Len(f)])
      BY <1>1, <3>1, <3>2, MaxSlotsAssumption
    <3> QED
      BY <1>1, <1>2, <2>2, <3>1, <3>3 DEF DrawnUpTo
  <2> QED
    BY <2>1, <2>2
<1> QED
  BY <1>5, <1>6, <1>7

\* An event taken is one of frame f's, or one that waited before them.
LEMMA DeliverArrives ==
    ASSUME ~MarkFirst, PathHolds, Deliver, NEW f \in Seq(Contacts),
           InQueue(f), DrawnUpTo(f, Coming(f))
    PROVE  InQueue(f)' /\ DrawnUpTo(f, Coming(f))'
<1> DEFINE F == FrameEvents(f)
           N == Len(F)
<1>1. F \in Seq(App!Inputs) /\ N \in Nat \ {0}
  BY FrameFacts
<1>2. /\ Len(queue) \in Nat \ {0} /\ App!touch_cb(queue[1])
      /\ Len(queue') = Len(queue) - 1
      /\ \A i \in 1 .. Len(queue) - 1 : queue'[i] = queue[i+1]
  BY TakenFacts DEF PathHolds, Deliver
<1> HIDE DEF F
<1>3. PICK n \in 1 .. N :
          /\ n = Coming(f)
          /\ Len(queue) <= N => n = Len(queue) /\ Coming(f)' = n-1
          /\ Len(queue) > N => n = N /\ Coming(f)' = N
  <2>1. CASE Len(queue) <= N
    <3>1. Len(queue) \in 1 .. N /\ Coming(f) = Len(queue)
      BY <1>1, <1>2, <2>1 DEF Coming, Driver!Smaller, F
    <3>2. Coming(f)' = Len(queue) - 1
      BY <1>1, <1>2, <2>1 DEF Coming, Driver!Smaller, F
    <3> QED
      BY <1>1, <1>2, <3>1, <3>2
  <2>2. CASE Len(queue) > N
    <3>1. N \in 1 .. N /\ Coming(f) = N
      BY <1>1, <1>2, <2>2 DEF Coming, Driver!Smaller, F
    <3>2. Coming(f)' = N
      BY <1>1, <1>2, <2>2 DEF Coming, Driver!Smaller, F
    <3> QED
      BY <1>1, <1>2, <2>2, <3>1, <3>2
  <2> QED
    BY <1>1, <1>2, <2>1, <2>2
<1>4. InQueue(f)'
  <2>1. ASSUME NEW i \in 0 .. n-1, i # Len(queue) - 1
        PROVE  queue'[Len(queue') - i] = F[N - i]
    <3>1. Len(queue') - i \in 1 .. Len(queue) - 1
      BY <1>2, <1>3, <2>1
    <3>2. queue'[Len(queue') - i] = queue[Len(queue) - i]
      BY <1>2, <3>1
    <3> QED
      BY <1>3, <3>2 DEF InQueue, F
  <2>2. \A i \in 0 .. Coming(f)' - 1 : i \in 0 .. n-1 /\ i # Len(queue) - 1
    BY <1>1, <1>2, <1>3
  <2> QED
    BY <2>1, <2>2 DEF InQueue, F
<1>5. DrawnUpTo(f, Coming(f))'
  <2>1. CASE Len(queue) <= N
    <3>1. n = Len(queue) /\ n-1 \in 0 .. n-1 /\ Len(queue) - (n-1) = 1
      BY <1>2, <1>3, <2>1
    <3>2. queue[1] = F[N - (n-1)]
      BY <1>3, <3>1 DEF InQueue, F
    <3>3. App!touch_cb(F[N - (n-1)]) /\ App!TypeOK
      BY <1>2, <3>2 DEF PathHolds
    <3>4. DrawnUpTo(f, n-1)'
      BY <1>3, <3>3, EventDraws DEF F
    <3> QED
      BY <1>3, <2>1, <3>4 DEF DrawnUpTo
  <2>2. CASE Len(queue) > N
    <3>1. n = N /\ Coming(f)' = N
      BY <1>1, <1>2, <1>3, <2>2
    <3>2. CASE f = <<>>
      BY <1>1, <3>1, <3>2 DEF DrawnUpTo
    <3>3. CASE f # <<>>
      <4>1. /\ N >= 3 /\ (MaxSlots > 1 => N >= 4) /\ f[Len(f)] \in Contacts
        BY <3>3, FrameFacts DEF F
      <4>2. queue[1] \in App!Inputs /\ App!TypeOK
        BY <1>2, TakenFacts DEF PathHolds
      <4>3. SlotOf(f[Len(f)]) \in App!Slots /\ current' \in App!Slots
        BY <1>2, <4>1, <4>2, ContactFacts, CallbackTyped DEF App!TypeOK
      <4>4. N <= 3 => current' = SlotOf(f[Len(f)])
        BY <1>1, <4>1, <4>3, MaxSlotsAssumption
      <4> QED
        BY <1>1, <3>1, <3>3, <4>1, <4>4 DEF DrawnUpTo
    <3> QED
      BY <3>2, <3>3
  <2> QED
    BY <1>1, <1>2, <2>1, <2>2
<1> QED
  BY <1>4, <1>5

\* The frame reported last is a sequence of contacts.
LEMMA ReportedFrame ==
    ASSUME PathHolds, reported # <<>>
    PROVE  LastFrame \in Seq(Contacts)
<1>1. Len(reported) \in 1 .. Len(reported) /\ reported \in Seq(Read)
  BY DEF PathHolds, DriverReads
<1>2. reported[Len(reported)] \in Read
  BY <1>1
<1> QED
  BY <1>2 DEF LastFrame, Read

\* Every step of the path keeps the last whole frame on its way.
LEMMA ArrivingStep ==
    ASSUME ~MarkFirst, PathHolds, Arriving, [Next]_vars
    PROVE  Arriving'
<1>1. CASE Report
  <2>1. PICK f \in Seq(Contacts) : f = buf.contacts /\ LastFrame' = f
    BY <1>1, ReportReads DEF PathHolds, Report
  <2> QED
    BY <1>1, <2>1, ReportArrives DEF Arriving
<1>2. reported # <<>> => LastFrame \in Seq(Contacts)
  BY ReportedFrame
<1>3. CASE Deliver
  <2>1. UNCHANGED <<reported, whole>>
    BY <1>3 DEF Deliver, dvars
  <2> SUFFICES ASSUME whole, reported # <<>>
               PROVE  (InQueue(LastFrame) /\ DrawnUpTo(LastFrame, Coming(LastFrame)))'
    BY <2>1 DEF Arriving
  <2>2. PICK f \in Seq(Contacts) : f = LastFrame /\ f = LastFrame'
    BY <1>2, <2>1 DEF LastFrame
  <2>3. InQueue(f)' /\ DrawnUpTo(f, Coming(f))'
    BY <1>3, <2>2, DeliverArrives DEF Arriving
  <2> QED
    BY <2>2, <2>3
<1>4. ASSUME UNCHANGED <<slots, current, queue, whole, reported>>
      PROVE  Arriving'
  BY <1>4 DEF Arriving, LastFrame, InQueue, DrawnUpTo, Coming
<1>5. CASE DriverStep
  <2>1. UNCHANGED reported
    BY <1>5 DEF DriverStep, Driver!Environment, Driver!Latch, Driver!Repulse,
                Driver!Tick, Driver!GTInit, Driver!InitPins, Driver!InitInt,
                Driver!InitFails, Driver!ProbePrimary, Driver!ProbeAlt, Driver!Probe,
                Driver!Attach, Driver!Handler, Driver!StartWork, Driver!DisableInt,
                Driver!Transfer, Driver!ReadNoFrame, Driver!ReadFrame,
                Driver!ReadPoints, Driver!ReadFails, Driver!ClearStatus,
                Driver!ClearFails, Driver!EnableInt, Driver!history
  <2> QED
    BY <1>4, <1>5, <2>1 DEF DriverStep, avars, qvars
<1>6. CASE Callback
  BY <1>4, <1>6 DEF Callback, App!SecondStore, App!Mark, dvars, qvars
<1>7. CASE PrintTick
  BY <1>4, <1>7 DEF PrintTick, App!print_timer_cb, dvars, qvars
<1>8. CASE UNCHANGED vars
  BY <1>4, <1>8 DEF vars, dvars, avars, qvars
<1> QED
  BY <1>1, <1>3, <1>5, <1>6, <1>7, <1>8 DEF Next

\* A frame that arrived is what a console at rest shows: no event is left that
\* could draw anything else, and no mark of a change not printed.
LEMMA ArrivedIsShown == PathHolds /\ NoUpdateLost /\ Arriving => LastContactShown
<1> SUFFICES ASSUME PathHolds, NoUpdateLost, Arriving, AtRest, whole, reported # <<>>
             PROVE  IF LastFrame = <<>>
                    THEN shown[current] = App!Up
                    ELSE LET c == LastFrame[Len(LastFrame)]
                         IN  /\ shown[SlotOf(c)].down
                             /\ Position(c) = [x |-> shown[SlotOf(c)].x,
                                               y |-> shown[SlotOf(c)].y]
  BY DEF LastContactShown
<1>1. \A s \in App!Slots : shown[s] = App!Line(slots[s])
  <2>1. \A s \in App!Slots : ~dirty[s] /\ cb.slot # s
    BY MaxSlotsAssumption DEF AtRest
  <2> QED
    BY <2>1 DEF NoUpdateLost, App!NoUpdateLost
<1>2. LastFrame \in Seq(Contacts)
  BY ReportedFrame
<1>3. Len(FrameEvents(LastFrame)) \in Nat
  BY <1>2, FrameFacts
<1>4. Coming(LastFrame) = 0
  BY <1>3 DEF Coming, Driver!Smaller, AtRest
<1>5. DrawnUpTo(LastFrame, 0)
  BY <1>4 DEF Arriving
<1>6. CASE LastFrame = <<>>
  BY <1>1, <1>5, <1>6 DEF DrawnUpTo, PathHolds, App!TypeOK, App!Line
<1>7. CASE LastFrame # <<>>
  <2> DEFINE c == LastFrame[Len(LastFrame)]
             s == SlotOf(c)
  <2>1. c \in Contacts
    BY <1>2, <1>7, FrameFacts
  <2>2. s \in App!Slots
    BY <2>1, ContactFacts
  <2>3. /\ slots[s].x = App!Clamp(c.x, Width-1) /\ slots[s].y = App!Clamp(c.y, Height-1)
        /\ slots[s].down
    BY <1>5, <1>7 DEF DrawnUpTo
  <2>4. shown[s] = slots[s]
    BY <1>1, <2>2, <2>3 DEF App!Line
  <2> QED
    BY <1>7, <2>3, <2>4 DEF Position
<1> QED
  BY <1>6, <1>7

\* In a build that updates a slot before it marks it: whatever was reported,
\* dropped or interrupted before, the console at rest shows the last contact
\* of a frame that found room in the queue, or its release.
THEOREM LastContactIsShown == ~MarkFirst /\ Spec => []LastContactShown
<1> SUFFICES ASSUME ~MarkFirst
             PROVE  Spec => []LastContactShown
  OBVIOUS
<1>1. Init => Arriving
  BY DEF Init, Driver!Init, Arriving
<1>2. PathHolds /\ Arriving /\ [Next]_vars => Arriving'
  BY ArrivingStep
<1>3. Spec => []NoUpdateLost
  BY UpdatesAreKept
<1> QED
  BY <1>1, <1>2, <1>3, ArrivedIsShown, PathCorrect, PTL DEF Spec
=============================================================================
