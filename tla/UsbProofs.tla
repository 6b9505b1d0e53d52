------------------------------ MODULE UsbProofs ------------------------------
(***************************************************************************)
(* Proofs about the two bulk data paths over USB: the camera bridge        *)
(* (UvcStream), for any number of buffers and frames, with and without the *)
(* signal of the source, and the echo function (WebUSBEcho), for any       *)
(* packets.  The two are programs of their own.                            *)
(***************************************************************************)
EXTENDS UvcStream, WebUSBEchoState, TLAPS

Echo == INSTANCE WebUSBEcho

USE BuffersAssumption, SourceSignalsAssumption, BoundsAssumption

(***************************************************************************)
(* The camera bridge.                                                      *)
(***************************************************************************)

Entry == [buf : 1..Buffers, frame : 0..MaxFrames]

\* The queues hold buffers, and main allocates no more than there are.
Typed ==
    /\ pc \in {"format", "alloc", "signal", "start", "poll", "filled", "sent",
               "reset", "returned"}
    /\ allocated \in 0..Buffers /\ (pc \in {"format", "alloc"} => allocated < Buffers)
    /\ toFill \in Seq(Entry) /\ filled \in Seq(Entry)
    /\ toSend \in Seq(Entry) /\ sent \in Seq(Entry)
    /\ produced \in 0..MaxFrames /\ received \in Seq(Nat)
    /\ faults \in 0..MaxFaults

\* Received frames, the ones on their way to the host and the ones main has not
\* carried yet follow each other, up to the last one the source made.  Main may
\* return with one of them, and carries none after that.
Ordered ==
    /\ Len(received) + Len(toSend) + Len(filled) <= produced
    /\ \A i \in 1..Len(received) : received[i] = i
    /\ \A i \in 1..Len(toSend) : toSend[i].frame = Len(received) + i
    /\ pc # "returned" =>
         /\ Len(received) + Len(toSend) + Len(filled) = produced
         /\ \A i \in 1..Len(filled) : filled[i].frame = Len(received) + Len(toSend) + i

\* Taking the first element of a queue.
LEMMA TakeFacts ==
    ASSUME NEW S, NEW q \in Seq(S), q # <<>>
    PROVE  /\ Head(q) \in S /\ Head(q) = q[1] /\ Tail(q) \in Seq(S)
           /\ Len(q) \in Nat /\ Len(q) >= 1 /\ Len(Tail(q)) = Len(q)-1
           /\ \A i \in 1..Len(Tail(q)) : Tail(q)[i] = q[i+1]
  OBVIOUS

\* Adding an element to a queue.
LEMMA AddFacts ==
    ASSUME NEW S, NEW q \in Seq(S), NEW e \in S
    PROVE  /\ Append(q, e) \in Seq(S) /\ q \o <<e>> = Append(q, e)
           /\ Len(q) \in Nat /\ Len(Append(q, e)) = Len(q)+1
           /\ \A i \in 1..Len(q) : Append(q, e)[i] = q[i]
           /\ Append(q, e)[Len(q)+1] = e
  OBVIOUS

\* The queues keep holding buffers.
LEMMA TypedKept == Typed /\ [Next]_vars => Typed'
<1> SUFFICES ASSUME Typed, [Next]_vars
             PROVE  Typed'
  OBVIOUS
<1> USE DEF Typed, queues
<1>1. ASSUME NEW steps, Return(steps)
      PROVE  Typed'
  BY <1>1 DEF Return
<1>2. CASE GetFormat
  BY <1>2 DEF GetFormat
<1>3. CASE Allocate
  <2>1. Buffer(allocated', 0) \in Entry
    BY <1>3 DEF Allocate, Buffer, Entry
  <2> QED
    BY <1>3, <2>1, AddFacts DEF Allocate
<1>4. CASE SetSignals \/ StreamStart \/ Poll \/ Reset
  BY <1>4 DEF SetSignals, StreamStart, Poll, Reset
<1>5. CASE CarryFilled
  <2>1. CASE filled = <<>>
    BY <1>5, <2>1 DEF CarryFilled, PickFilled
  <2>2. CASE filled # <<>>
    BY <1>5, <2>2, TakeFacts, AddFacts DEF CarryFilled, PickFilled
  <2> QED
    BY <2>1, <2>2
<1>6. CASE CarrySent
  <2>1. CASE sent = <<>>
    BY <1>6, <2>1 DEF CarrySent
  <2>2. CASE sent # <<>>
    BY <1>6, <2>2, TakeFacts, AddFacts DEF CarrySent
  <2> QED
    BY <2>1, <2>2
<1>7. CASE SelectFormat
  BY <1>7 DEF SelectFormat
<1>8. CASE Fill
  <2>0. Head(toFill) \in Entry /\ Tail(toFill) \in Seq(Entry)
    BY <1>8, TakeFacts DEF Fill
  <2>1. Head(toFill).buf \in 1..Buffers
    BY <2>0 DEF Entry
  <2>2. produced' \in 0..MaxFrames
    BY <1>8 DEF Fill
  <2>3. Buffer(Head(toFill).buf, produced') \in Entry
    BY <2>1, <2>2 DEF Buffer, Entry
  <2> QED
    BY <1>8, <2>0, <2>2, <2>3, AddFacts DEF Fill
<1>9. CASE Send
  <2>1. Head(toSend) \in Entry /\ Tail(toSend) \in Seq(Entry)
    BY <1>9, TakeFacts DEF Send
  <2>2. Head(toSend).frame \in Nat
    BY <2>1 DEF Entry
  <2>3. received' \in Seq(Nat) /\ sent' \in Seq(Entry) /\ toSend' \in Seq(Entry)
    BY <1>9, <2>1, <2>2, AddFacts DEF Send
  <2> QED
    BY <1>9, <2>3 DEF Send
<1>10. CASE CarryFails
  <2>1. filled' \in Seq(Entry) /\ sent' \in Seq(Entry)
    <3>1. /\ filled \in Seq(Entry) /\ sent \in Seq(Entry)
          /\ filled # <<>> => Tail(filled) \in Seq(Entry)
          /\ sent # <<>> => Tail(sent) \in Seq(Entry)
      BY TakeFacts
    <3> QED
      BY <1>10, <3>1 DEF CarryFails
  <2> QED
    BY <1>10, <2>1 DEF CarryFails
<1>11. CASE UNCHANGED vars
  BY <1>11 DEF vars
<1> QED
  BY <1>1, <1>2, <1>3, <1>4, <1>5, <1>6, <1>7, <1>8, <1>9, <1>10, <1>11
     DEF Next, Setup, Loop, Devices

\* The frames keep their order.
LEMMA OrderedKept == Typed /\ Ordered /\ [Next]_vars => Ordered'
<1> SUFFICES ASSUME Typed, Ordered, [Next]_vars
             PROVE  Ordered'
  OBVIOUS
<1> USE DEF queues
<1>1. ASSUME UNCHANGED <<produced, received, toSend, filled>>,
             pc' # "returned" => pc # "returned"
      PROVE  Ordered'
  BY <1>1 DEF Ordered
<1>2. /\ filled \in Seq(Entry) /\ toSend \in Seq(Entry) /\ received \in Seq(Nat)
      /\ toFill \in Seq(Entry)
  BY DEF Typed
<1>3. CASE Setup \/ Poll \/ CarrySent \/ Reset \/ SelectFormat
  BY <1>1, <1>3 DEF Setup, GetFormat, Allocate, SetSignals, StreamStart, Poll,
                    CarrySent, Reset, SelectFormat
<1>4. ASSUME NEW steps, Return(steps)
      PROVE  Ordered'
  BY <1>1, <1>4 DEF Return
<1>5. CASE CarryFilled
  <2>1. CASE filled = <<>>
    <3>1. UNCHANGED <<produced, received, toSend, filled>> /\ pc # "returned"
      BY <1>2, <1>5, <2>1 DEF CarryFilled, PickFilled
    <3> QED
      BY <1>1, <3>1
  <2>2. CASE filled # <<>>
    <3> DEFINE e == Head(filled)
    <3>1. /\ e \in Entry /\ e = filled[1]
          /\ Len(filled) \in Nat /\ Len(filled) >= 1 /\ Len(Tail(filled)) = Len(filled)-1
          /\ \A i \in 1..Len(Tail(filled)) : Tail(filled)[i] = filled[i+1]
      BY <1>2, <2>2, TakeFacts
    <3>2. /\ toSend \o <<e>> = Append(toSend, e)
          /\ Len(toSend) \in Nat /\ Len(Append(toSend, e)) = Len(toSend)+1
          /\ \A i \in 1..Len(toSend) : Append(toSend, e)[i] = toSend[i]
          /\ Append(toSend, e)[Len(toSend)+1] = e
      BY <1>2, <3>1, AddFacts
    <3>3. /\ toSend' = Append(toSend, e) /\ filled' = Tail(filled)
          /\ UNCHANGED <<produced, received>> /\ pc # "returned"
      BY <1>5, <2>2, <3>2 DEF CarryFilled, PickFilled
    <3>4. Len(received) \in Nat
      BY <1>2
    <3> HIDE DEF e
    <3>5. e.frame = Len(received) + Len(toSend) + 1
      BY <3>1, <3>3 DEF Ordered
    <3>6. ASSUME NEW i \in 1..Len(toSend')
          PROVE  toSend'[i].frame = Len(received) + i
      <4>1. CASE i = Len(toSend)+1
        BY <3>2, <3>3, <3>5, <4>1
      <4>2. CASE i \in 1..Len(toSend)
        BY <3>2, <3>3, <4>2 DEF Ordered
      <4> QED
        BY <3>2, <3>3, <4>1, <4>2
    <3>7. ASSUME NEW i \in 1..Len(filled')
          PROVE  filled'[i].frame = Len(received) + Len(toSend') + i
      <4>1. i+1 \in 1..Len(filled) /\ filled'[i] = filled[i+1]
        BY <3>1, <3>3
      <4>2. filled[i+1].frame = Len(received) + Len(toSend) + (i+1)
        BY <3>3, <4>1 DEF Ordered
      <4> QED
        BY <3>2, <3>3, <3>4, <4>1, <4>2
    <3>8. Len(received) + Len(toSend') + Len(filled') = produced
      <4>1. Len(toSend') = Len(toSend)+1 /\ Len(filled') = Len(filled)-1
        BY <3>1, <3>2, <3>3
      <4>2. Len(received) + Len(toSend) + Len(filled) = produced
        BY <3>3 DEF Ordered
      <4> QED
        BY <3>1, <3>2, <3>4, <4>1, <4>2
    <3>9. \A i \in 1..Len(received) : received[i] = i
      BY DEF Ordered
    <3>10. produced \in Nat
      BY DEF Typed
    <3> QED
      BY <3>3, <3>6, <3>7, <3>8, <3>9, <3>10 DEF Ordered
  <2> QED
    BY <2>1, <2>2
<1>6. CASE Fill
  <2> DEFINE e == Buffer(Head(toFill).buf, produced')
  <2>1. /\ filled' = Append(filled, e) /\ produced' = produced+1
        /\ UNCHANGED <<pc, received, toSend>>
    BY <1>6 DEF Fill
  <2>2. e \in Entry /\ e.frame = produced+1
    <3>0. Head(toFill) \in Entry
      BY <1>2, <1>6, TakeFacts DEF Fill
    <3>1. Head(toFill).buf \in 1..Buffers
      BY <3>0 DEF Entry
    <3>2. produced' \in 0..MaxFrames
      BY <1>6 DEF Fill, Typed
    <3> QED
      BY <2>1, <3>1, <3>2 DEF Buffer, Entry
  <2> HIDE DEF e
  <2>3. /\ Len(filled) \in Nat /\ Len(Append(filled, e)) = Len(filled)+1
        /\ \A i \in 1..Len(filled) : Append(filled, e)[i] = filled[i]
        /\ Append(filled, e)[Len(filled)+1] = e
    BY <1>2, <2>2, AddFacts
  <2>4. Len(received) \in Nat /\ Len(toSend) \in Nat
    BY <1>2
  <2>5. ASSUME pc # "returned", NEW i \in 1..Len(filled')
        PROVE  filled'[i].frame = Len(received) + Len(toSend) + i
    <3>1. CASE i = Len(filled)+1
      BY <2>1, <2>2, <2>3, <2>4, <2>5, <3>1 DEF Ordered
    <3>2. CASE i \in 1..Len(filled)
      BY <2>1, <2>3, <2>5, <3>2 DEF Ordered
    <3> QED
      BY <2>1, <2>3, <3>1, <3>2
  <2>6. /\ Len(received) + Len(toSend) + Len(filled') <= produced+1
        /\ pc # "returned" => Len(received) + Len(toSend) + Len(filled') = produced+1
    <3>1. produced \in Nat
      BY DEF Typed
    <3>2. Len(filled') = Len(filled)+1
      BY <2>1, <2>3
    <3>3. /\ Len(received) + Len(toSend) + Len(filled) <= produced
          /\ pc # "returned" => Len(received) + Len(toSend) + Len(filled) = produced
      BY DEF Ordered
    <3> QED
      BY <2>3, <2>4, <3>1, <3>2, <3>3
  <2> QED
    BY <2>1, <2>5, <2>6 DEF Ordered
<1>7. CASE Send
  <2> DEFINE f == Head(toSend).frame
  <2>1. /\ toSend # <<>> /\ toSend' = Tail(toSend) /\ received' = Append(received, f)
        /\ UNCHANGED <<pc, produced, filled>>
    BY <1>7 DEF Send
  <2>2. /\ Head(toSend) \in Entry /\ Head(toSend) = toSend[1]
        /\ Len(toSend) \in Nat /\ Len(toSend) >= 1 /\ Len(Tail(toSend)) = Len(toSend)-1
        /\ \A i \in 1..Len(Tail(toSend)) : Tail(toSend)[i] = toSend[i+1]
    BY <1>2, <2>1, TakeFacts
  <2>3. f \in Nat
    BY <2>2 DEF Entry
  <2>4. f = Len(received)+1
    BY <2>2 DEF Ordered
  <2> HIDE DEF f
  <2>5. /\ Len(received) \in Nat /\ Len(Append(received, f)) = Len(received)+1
        /\ \A i \in 1..Len(received) : Append(received, f)[i] = received[i]
        /\ Append(received, f)[Len(received)+1] = f
    BY <1>2, <2>3, AddFacts
  <2>6. Len(filled) \in Nat /\ produced \in Nat
    BY <1>2 DEF Typed
  <2>7. \A i \in 1..Len(received') : received'[i] = i
    BY <2>1, <2>4, <2>5 DEF Ordered
  <2>8. ASSUME NEW i \in 1..Len(toSend')
        PROVE  toSend'[i].frame = Len(received') + i
    <3>1. i+1 \in 1..Len(toSend) /\ toSend'[i] = toSend[i+1]
      BY <2>1, <2>2
    <3>2. toSend[i+1].frame = Len(received) + (i+1)
      BY <3>1 DEF Ordered
    <3> QED
      BY <2>1, <2>5, <3>1, <3>2
  <2>9. Len(received') + Len(toSend') = Len(received) + Len(toSend)
    BY <2>1, <2>2, <2>5
  <2> QED
    BY <2>1, <2>6, <2>7, <2>8, <2>9 DEF Ordered
<1>8. CASE CarryFails
  <2>1. CASE UNCHANGED filled
    BY <1>1, <1>8, <2>1 DEF CarryFails
  <2>2. CASE filled # <<>> /\ filled' = Tail(filled)
    <3>1. /\ Len(received) \in Nat /\ Len(toSend) \in Nat /\ produced \in Nat
          /\ Len(filled) \in Nat /\ Len(filled') = Len(filled)-1
      BY <1>2, <2>2, TakeFacts DEF Typed
    <3>2. UNCHANGED <<produced, received, toSend>> /\ pc' = "returned"
      BY <1>8 DEF CarryFails
    <3> QED
      BY <3>1, <3>2 DEF Ordered
  <2> QED
    BY <1>8, <2>1, <2>2 DEF CarryFails
<1>9. CASE UNCHANGED vars
  BY <1>1, <1>9 DEF vars
<1> QED
  BY <1>3, <1>4, <1>5, <1>6, <1>7, <1>8, <1>9 DEF Next, Loop, Devices

\* The two together hold in every state.
LEMMA InOrder == Spec => [](Typed /\ Ordered)
<1>1. Init => Typed /\ Ordered
  BY DEF Init, Typed, Ordered
<1> QED
  BY <1>1, TypedKept, OrderedKept, PTL DEF Spec

\* Every queue holds buffers with a frame of the source, and main, the devices
\* and the host keep their types.
THEOREM TypeCorrect == Spec => []TypeOK
<1> DEFINE Flags == /\ selected \in BOOLEAN /\ timed \in BOOLEAN
                    /\ streaming \in BOOLEAN /\ raised \in BOOLEAN
<1>1. Init => Flags
  BY DEF Init
<1>2. Flags /\ [Next]_vars => Flags'
  BY DEF Next, Setup, Loop, Devices, CarryFails, GetFormat, Allocate, SetSignals,
         StreamStart, Poll, CarryFilled, PickFilled, CarrySent, Reset, Return,
         SelectFormat, Fill, Send, vars
<1>3. Typed /\ Ordered => received \in Seq(1..MaxFrames)
  <2> SUFFICES ASSUME Typed, Ordered
               PROVE  received \in Seq(1..MaxFrames)
    OBVIOUS
  <2>1. /\ received \in Seq(Nat) /\ Len(received) \in Nat
        /\ Len(toSend) \in Nat /\ Len(filled) \in Nat
        /\ produced \in 0..MaxFrames
    BY DEF Typed
  <2>2. Len(received) \in 0..MaxFrames
    BY <2>1 DEF Ordered
  <2>3. \A i \in 1..Len(received) : received[i] \in 1..MaxFrames
    BY <2>2 DEF Ordered
  <2>4. received \in [1..Len(received) -> 1..MaxFrames]
    BY <2>1, <2>3
  <2> QED
    BY <2>1, <2>4
<1>4. Typed /\ Ordered /\ Flags => TypeOK
  BY <1>3 DEF Typed, Entry, TypeOK, Held
<1>5. Spec => []Flags
  BY <1>1, <1>2, PTL DEF Spec
<1> QED
  BY <1>4, <1>5, InOrder, PTL

\* The host receives the frames as the source made them, first to last, without
\* a gap, a swap or a repetition.
THEOREM FramesKeepOrder == Spec => []FramesInOrder
<1>1. Typed /\ Ordered => FramesInOrder
  <2> SUFFICES ASSUME Typed, Ordered
               PROVE  received = [n \in 1..Len(received) |-> n]
    BY DEF FramesInOrder
  <2>1. received \in Seq(Nat) /\ \A i \in 1..Len(received) : received[i] = i
    BY DEF Typed, Ordered
  <2> QED
    BY <2>1
<1> QED
  BY <1>1, InOrder, PTL

(***************************************************************************)
(* Where the buffers are.                                                  *)
(***************************************************************************)

Places == 1..4
Queues(a, b, c, d) == [p \in Places |-> IF p = 1 THEN a ELSE IF p = 2 THEN b
                                        ELSE IF p = 3 THEN c ELSE d]
All == Queues(toFill, filled, toSend, sent)

\* No buffer is in two places.
Apart(all) ==
    \A p, q \in Places : \A i \in 1..Len(all[p]), j \in 1..Len(all[q]) :
        all[p][i].buf = all[q][j].buf => p = q /\ i = j

\* The buffers are the first n ones.
Below(all, n) == \A p \in Places : \A i \in 1..Len(all[p]) : all[p][i].buf <= n

\* The head of one queue, by now with the frame of e, goes to the end of another.
Moved(all, new, from, to, e) ==
    /\ from # to /\ all[from] # <<>> /\ e.buf = Head(all[from]).buf
    /\ new[from] = Tail(all[from]) /\ new[to] = Append(all[to], e)
    /\ \A p \in Places \ {from, to} : new[p] = all[p]

\* Moving a buffer from the head of a queue to the end of another one keeps the
\* buffers apart.
LEMMA MoveKeepsApart ==
    ASSUME NEW all \in [Places -> Seq(Entry)], NEW new \in [Places -> Seq(Entry)],
           NEW from \in Places, NEW to \in Places, NEW e \in Entry,
           Moved(all, new, from, to, e), NEW n \in Nat, Apart(all), Below(all, n)
    PROVE  Apart(new) /\ Below(new, n)
<1> USE DEF Moved
<1>1. /\ Head(all[from]) = all[from][1] /\ Len(all[from]) \in Nat /\ Len(all[from]) >= 1
      /\ Len(new[from]) = Len(all[from])-1
      /\ \A i \in 1..Len(new[from]) : new[from][i] = all[from][i+1]
  BY TakeFacts
<1>2. /\ Len(all[to]) \in Nat /\ Len(new[to]) = Len(all[to])+1
      /\ \A i \in 1..Len(all[to]) : new[to][i] = all[to][i]
      /\ new[to][Len(all[to])+1] = e
  BY AddFacts
\* The place where a buffer was before.
<1> DEFINE OldPlace(p, i) == IF p = to /\ i = Len(all[to])+1 THEN from ELSE p
           OldIndex(p, i) == IF p = from THEN i+1
                             ELSE IF p = to /\ i = Len(all[to])+1 THEN 1 ELSE i
<1>3. ASSUME NEW p \in Places, NEW i \in 1..Len(new[p])
      PROVE  /\ OldPlace(p, i) \in Places
             /\ OldIndex(p, i) \in 1..Len(all[OldPlace(p, i)])
             /\ new[p][i].buf = all[OldPlace(p, i)][OldIndex(p, i)].buf
  <2>1. CASE p = from
    <3>1. i \in 1..Len(new[from]) /\ i+1 \in 1..Len(all[from])
      BY <1>1, <2>1
    <3>2. OldPlace(p, i) = from /\ OldIndex(p, i) = i+1
      BY <2>1
    <3> HIDE DEF OldPlace, OldIndex
    <3> QED
      BY <1>1, <2>1, <3>1, <3>2
  <2>2. CASE p = to /\ i = Len(all[to])+1
    BY <1>1, <1>2, <2>2
  <2>3. CASE p = to /\ i # Len(all[to])+1
    <3>1. i \in 1..Len(all[to])
      BY <1>2, <2>3
    <3>2. OldPlace(p, i) = to /\ OldIndex(p, i) = i
      BY <2>3
    <3> HIDE DEF OldPlace, OldIndex
    <3> QED
      BY <1>2, <2>3, <3>1, <3>2
  <2>4. CASE p \notin {from, to}
    BY <2>4
  <2> QED
    BY <2>1, <2>2, <2>3, <2>4
<1>4. ASSUME NEW p \in Places, NEW q \in Places,
             NEW i \in 1..Len(new[p]), NEW j \in 1..Len(new[q]),
             new[p][i].buf = new[q][j].buf
      PROVE  p = q /\ i = j
  <2>1. OldPlace(p, i) = OldPlace(q, j) /\ OldIndex(p, i) = OldIndex(q, j)
    <3> HIDE DEF OldPlace, OldIndex
    <3>1. PICK p1, i1 :
            /\ p1 \in Places /\ i1 \in 1..Len(all[p1]) /\ p1 = OldPlace(p, i) /\ i1 = OldIndex(p, i)
            /\ new[p][i].buf = all[p1][i1].buf
      <4>1. /\ OldPlace(p, i) \in Places
            /\ OldIndex(p, i) \in 1..Len(all[OldPlace(p, i)])
            /\ new[p][i].buf = all[OldPlace(p, i)][OldIndex(p, i)].buf
        BY <1>3, Zenon
      <4> QED
        BY <4>1, Zenon
    <3>2. PICK q1, j1 :
            /\ q1 \in Places /\ j1 \in 1..Len(all[q1]) /\ q1 = OldPlace(q, j) /\ j1 = OldIndex(q, j)
            /\ new[q][j].buf = all[q1][j1].buf
      <4>1. /\ OldPlace(q, j) \in Places
            /\ OldIndex(q, j) \in 1..Len(all[OldPlace(q, j)])
            /\ new[q][j].buf = all[OldPlace(q, j)][OldIndex(q, j)].buf
        BY <1>3, Zenon
      <4> QED
        BY <4>1, Zenon
    <3>3. p1 = q1 /\ i1 = j1
      <4>1. all[p1][i1].buf = all[q1][j1].buf
        BY <1>4, <3>1, <3>2, Zenon
      <4>2. /\ p1 \in Places /\ q1 \in Places
            /\ i1 \in 1..Len(all[p1]) /\ j1 \in 1..Len(all[q1])
        BY <3>1, <3>2, Zenon
      <4>3. all[p1][i1].buf = all[q1][j1].buf => p1 = q1 /\ i1 = j1
        <5>1. \A i2 \in 1..Len(all[p1]), j2 \in 1..Len(all[q1]) :
                all[p1][i2].buf = all[q1][j2].buf => p1 = q1 /\ i2 = j2
          BY <4>2, Zenon DEF Apart
        <5> QED
          BY <4>2, <5>1, Zenon
      <4> QED
        BY <4>1, <4>3
    <3> QED
      BY <3>1, <3>2, <3>3
  <2>2. i \in Nat \ {0} /\ j \in Nat \ {0}
    OBVIOUS
  <2> QED
    BY <2>1, <2>2
<1>5. ASSUME NEW p \in Places, NEW i \in 1..Len(new[p])
      PROVE  new[p][i].buf <= n
  <2> HIDE DEF OldPlace, OldIndex
  <2> QED
    <3>1. /\ OldPlace(p, i) \in Places
          /\ OldIndex(p, i) \in 1..Len(all[OldPlace(p, i)])
          /\ new[p][i].buf = all[OldPlace(p, i)][OldIndex(p, i)].buf
      BY <1>3, Zenon
    <3>2. all[OldPlace(p, i)][OldIndex(p, i)].buf <= n
      BY <3>1, Zenon DEF Below
    <3> QED
      BY <3>1, <3>2
<1> QED
  BY <1>4, <1>5 DEF Apart, Below

\* Adding the next buffer to a queue keeps the buffers apart.
LEMMA AddKeepsApart ==
    ASSUME NEW all \in [Places -> Seq(Entry)], NEW new \in [Places -> Seq(Entry)],
           NEW to \in Places, NEW n \in Nat, NEW e \in Entry, e.buf = n+1,
           new[to] = Append(all[to], e), \A p \in Places \ {to} : new[p] = all[p],
           Apart(all), Below(all, n)
    PROVE  Apart(new) /\ Below(new, n+1)
<1>1. /\ Len(all[to]) \in Nat /\ Len(new[to]) = Len(all[to])+1
      /\ \A i \in 1..Len(all[to]) : new[to][i] = all[to][i]
      /\ new[to][Len(all[to])+1] = e
  BY AddFacts
<1>2. ASSUME NEW p \in Places, NEW i \in 1..Len(new[p])
      PROVE  \/ p = to /\ i = Len(all[to])+1 /\ new[p][i].buf = n+1
             \/ i \in 1..Len(all[p]) /\ new[p][i] = all[p][i]
  <2>1. CASE p = to
    BY <1>1, <2>1
  <2>2. CASE p # to
    BY <2>2
  <2> QED
    BY <2>1, <2>2
<1>3. ASSUME NEW p \in Places, NEW i \in 1..Len(all[p])
      PROVE  all[p][i].buf \in Nat /\ all[p][i].buf <= n
  <2>1. all[p][i] \in Entry
    OBVIOUS
  <2>2. all[p][i].buf \in 1..Buffers
    BY <2>1, Zenon DEF Entry
  <2> QED
    BY <2>2 DEF Below
<1>4. ASSUME NEW p \in Places, NEW q \in Places,
             NEW i \in 1..Len(new[p]), NEW j \in 1..Len(new[q]),
             new[p][i].buf = new[q][j].buf
      PROVE  p = q /\ i = j
  <2>1. CASE new[p][i].buf = n+1
    <3>1. p = to /\ i = Len(all[to])+1
      BY <1>2, <1>3, <2>1
    <3>2. q = to /\ j = Len(all[to])+1
      <4>1. new[q][j].buf = n+1
        BY <1>4, <2>1
      <4>2. ~(j \in 1..Len(all[q]) /\ new[q][j] = all[q][j])
        BY <1>3, <4>1
      <4> QED
        BY <1>2, <4>2
    <3> QED
      BY <3>1, <3>2
  <2>2. CASE new[p][i].buf # n+1
    <3>1. i \in 1..Len(all[p]) /\ new[p][i] = all[p][i]
      BY <1>2, <2>2
    <3>2. j \in 1..Len(all[q]) /\ new[q][j] = all[q][j]
      BY <1>2, <1>4, <2>2
    <3>3. all[p][i].buf = all[q][j].buf
      BY <1>4, <3>1, <3>2
    <3> QED
      BY <3>1, <3>2, <3>3 DEF Apart
  <2> QED
    BY <2>1, <2>2
<1>5. ASSUME NEW p \in Places, NEW i \in 1..Len(new[p])
      PROVE  new[p][i].buf <= n+1
  <2>1. CASE new[p][i].buf = n+1
    BY <2>1
  <2>2. CASE i \in 1..Len(all[p]) /\ new[p][i] = all[p][i]
    <3>1. all[p][i].buf \in Nat /\ all[p][i].buf <= n
      BY <1>3, <2>2
    <3>2. new[p][i].buf = all[p][i].buf
      BY <2>2
    <3> QED
      BY <3>1, <3>2
  <2> QED
    BY <1>2, <1>5, <2>1, <2>2, Zenon
<1> QED
  BY <1>4, <1>5 DEF Apart, Below

\* Taking a buffer from the head of a queue keeps the others apart.
LEMMA TakeKeepsApart ==
    ASSUME NEW all \in [Places -> Seq(Entry)], NEW new \in [Places -> Seq(Entry)],
           NEW from \in Places, all[from] # <<>>, new[from] = Tail(all[from]),
           \A p \in Places \ {from} : new[p] = all[p],
           NEW n \in Nat, Apart(all), Below(all, n)
    PROVE  Apart(new) /\ Below(new, n)
<1> DEFINE k(p) == IF p = from THEN 1 ELSE 0
<1>1. ASSUME NEW p \in Places, NEW i \in 1..Len(new[p])
      PROVE  i+k(p) \in 1..Len(all[p]) /\ new[p][i] = all[p][i+k(p)] /\ k(p) \in Nat
  <2>1. CASE p = from
    <3>1. /\ Len(all[from]) \in Nat /\ Len(new[from]) = Len(all[from])-1
          /\ \A j \in 1..Len(new[from]) : new[from][j] = all[from][j+1]
      BY TakeFacts
    <3>2. i \in 1..Len(new[from]) /\ new[p][i] = new[from][i] /\ k(p) = 1
      BY <2>1
    <3>3. i+1 \in 1..Len(all[from]) /\ new[from][i] = all[from][i+1]
      BY <3>1, <3>2
    <3> HIDE DEF k
    <3> QED
      BY <2>1, <3>2, <3>3
  <2>2. CASE p # from
    BY <2>2
  <2> QED
    BY <2>1, <2>2
<1> HIDE DEF k
<1>2. ASSUME NEW p \in Places, NEW q \in Places,
             NEW i \in 1..Len(new[p]), NEW j \in 1..Len(new[q]),
             new[p][i].buf = new[q][j].buf
      PROVE  p = q /\ i = j
  <2>0. /\ i+k(p) \in 1..Len(all[p]) /\ new[p][i] = all[p][i+k(p)]
        /\ j+k(q) \in 1..Len(all[q]) /\ new[q][j] = all[q][j+k(q)]
    BY <1>1, Zenon
  <2>1. all[p][i+k(p)].buf = all[q][j+k(q)].buf
    BY <1>2, <2>0, Zenon
  <2>2. p = q /\ i+k(p) = j+k(q)
    <3>1. \A i1 \in 1..Len(all[p]), j1 \in 1..Len(all[q]) :
              all[p][i1].buf = all[q][j1].buf => p = q /\ i1 = j1
      BY Zenon DEF Apart
    <3> QED
      BY <2>0, <2>1, <3>1, Zenon
  <2>3. k(p) \in Nat /\ k(p) = k(q)
    BY <1>1, <2>2
  <2> QED
    BY <2>2, <2>3
<1>3. ASSUME NEW p \in Places, NEW i \in 1..Len(new[p])
      PROVE  new[p][i].buf <= n
  BY <1>1 DEF Below
<1> QED
  BY <1>2, <1>3 DEF Apart, Below

\* How many buffers the devices have.
Count == Len(toFill) + Len(filled) + Len(toSend) + Len(sent)

\* No buffer is in two places, and none is in a queue before it is allocated; all
\* are in a queue, but for the one main may have returned with.
Whole ==
    /\ Apart(All) /\ Below(All, allocated)
    /\ Count = allocated \/ (pc = "returned" /\ Count = allocated-1)

\* Buffers stay apart, and none is lost.
LEMMA WholeKept == Typed /\ Whole /\ [Next]_vars => Whole'
<1> SUFFICES ASSUME Typed, Whole, [Next]_vars
             PROVE  Whole'
  OBVIOUS
<1> USE DEF queues
<1>1. /\ toFill \in Seq(Entry) /\ filled \in Seq(Entry)
      /\ toSend \in Seq(Entry) /\ sent \in Seq(Entry) /\ allocated \in Nat
  BY DEF Typed
<1>1a. /\ Len(toFill) \in Nat /\ Len(filled) \in Nat
       /\ Len(toSend) \in Nat /\ Len(sent) \in Nat
  BY <1>1
<1>2. Typed'
  BY TypedKept
<1>3. /\ toFill' \in Seq(Entry) /\ filled' \in Seq(Entry)
      /\ toSend' \in Seq(Entry) /\ sent' \in Seq(Entry)
  BY <1>2 DEF Typed
<1>4. All \in [Places -> Seq(Entry)] /\ All' \in [Places -> Seq(Entry)]
  BY <1>1, <1>3 DEF All, Queues, Places
<1>5. /\ All[1] = toFill /\ All[2] = filled /\ All[3] = toSend /\ All[4] = sent
      /\ All'[1] = toFill' /\ All'[2] = filled' /\ All'[3] = toSend' /\ All'[4] = sent'
  BY DEF All, Queues, Places
<1>5a. {1, 2, 3, 4} \subseteq Places /\ 2 # 3 /\ 4 # 1 /\ 1 # 2 /\ 3 # 4
  BY DEF Places
<1>6. ASSUME UNCHANGED <<toFill, filled, toSend, sent, allocated>>,
             pc = "returned" => pc' = "returned"
      PROVE  Whole'
  BY <1>6 DEF Whole, Count, All, Queues, Apart, Below
<1>7. CASE Allocate
  <2> DEFINE e == Buffer(allocated', 0)
  <2>1. /\ toFill' = Append(toFill, e) /\ allocated' = allocated+1
        /\ UNCHANGED <<filled, toSend, sent>>
    BY <1>7 DEF Allocate
  <2>2. e \in Entry /\ e.buf = allocated+1
    BY <1>2, <2>1 DEF Buffer, Entry, Typed
  <2> HIDE DEF e
  <2>3. All'[1] = Append(All[1], e) /\ \A p \in Places \ {1} : All'[p] = All[p]
    BY <1>5, <2>1 DEF Places
  <2>4. Apart(All') /\ Below(All', allocated')
    <3>1. Apart(All) /\ Below(All, allocated) /\ 1 \in Places
      BY DEF Whole, Places
    <3>2. Apart(All') /\ Below(All', allocated+1)
      BY <1>1, <1>4, <2>2, <2>3, <3>1, AddKeepsApart
    <3> QED
      BY <2>1, <3>2
  <2>5. Len(toFill') = Len(toFill)+1
    BY <1>1, <2>1, <2>2, AddFacts
  <2>6. pc # "returned" /\ pc' # "returned"
    BY <1>7 DEF Allocate
  <2> QED
    <3>1. Count = allocated
      BY <2>6 DEF Whole
    <3>2. Count' = Count + 1
      BY <1>1a, <2>1, <2>5 DEF Count
    <3> QED
      BY <2>1, <2>4, <3>1, <3>2 DEF Whole
<1>8. ASSUME NEW from \in Places, NEW to \in Places, from # to, NEW e \in Entry,
             All[from] # <<>>, e.buf = Head(All[from]).buf,
             All'[from] = Tail(All[from]), All'[to] = Append(All[to], e),
             \A p \in Places \ {from, to} : All'[p] = All[p],
             allocated' = allocated, pc = "returned" => pc' = "returned", Count' = Count
      PROVE  Whole'
  <2>1. Apart(All') /\ Below(All', allocated)
    <3>1. Apart(All) /\ Below(All, allocated)
      BY DEF Whole
    <3>2. Moved(All, All', from, to, e)
      BY <1>8 DEF Moved
    <3>3. allocated \in Nat
      BY <1>1
    <3> QED
      BY <1>4, <3>1, <3>2, <3>3, MoveKeepsApart
  <2> QED
    BY <1>8, <2>1 DEF Whole
<1>9. CASE GetFormat \/ SetSignals \/ StreamStart \/ Poll \/ Reset \/ SelectFormat
  BY <1>6, <1>9 DEF GetFormat, SetSignals, StreamStart, Poll, Reset, SelectFormat
<1>10. ASSUME NEW steps, Return(steps)
       PROVE  Whole'
  BY <1>6, <1>10 DEF Return
<1>11. CASE CarryFilled
  <2>1. allocated' = allocated /\ UNCHANGED <<toFill, sent>> /\ pc # "returned"
    BY <1>11 DEF CarryFilled
  <2>2. CASE filled = <<>>
    <3>1. filled' = filled /\ toSend' = toSend
      BY <1>1, <1>11, <2>2 DEF CarryFilled, PickFilled
    <3> QED
      BY <1>6, <2>1, <3>1
  <2>3. CASE filled # <<>>
    <3> DEFINE e == Head(filled)
    <3>1. /\ e \in Entry /\ Len(Tail(filled)) = Len(filled)-1
          /\ Len(filled) \in Nat
      BY <1>1, <2>3, TakeFacts
    <3>2. /\ toSend \o <<e>> = Append(toSend, e)
          /\ Len(Append(toSend, e)) = Len(toSend)+1 /\ Len(toSend) \in Nat
      BY <1>1, <3>1, AddFacts
    <3>3. toSend' = Append(toSend, e) /\ filled' = Tail(filled)
      BY <1>11, <2>3, <3>2 DEF CarryFilled, PickFilled
    <3>4. /\ All[2] # <<>> /\ e.buf = Head(All[2]).buf
          /\ All'[2] = Tail(All[2]) /\ All'[3] = Append(All[3], e)
          /\ \A p \in Places \ {2, 3} : All'[p] = All[p]
      BY <1>5, <2>1, <2>3, <3>3 DEF Places
    <3>5. Count' = Count
      <4>1. /\ Len(filled') = Len(filled)-1 /\ Len(toSend') = Len(toSend)+1
            /\ Len(toFill') = Len(toFill) /\ Len(sent') = Len(sent)
        BY <2>1, <3>1, <3>2, <3>3
      <4> QED
        BY <1>1a, <4>1 DEF Count
    <3> HIDE DEF e
    <3> QED
      BY <1>5a, <1>8, <2>1, <3>1, <3>4, <3>5, Zenon
  <2> QED
    BY <2>2, <2>3
<1>12. CASE CarrySent
  <2>1. allocated' = allocated /\ UNCHANGED <<filled, toSend>> /\ pc # "returned"
    BY <1>12 DEF CarrySent
  <2>2. CASE sent = <<>>
    BY <1>6, <1>12, <2>1, <2>2 DEF CarrySent
  <2>3. CASE sent # <<>>
    <3> DEFINE e == Head(sent)
    <3>1. e \in Entry /\ Len(Tail(sent)) = Len(sent)-1
      BY <1>1, <2>3, TakeFacts
    <3>2. Len(Append(toFill, e)) = Len(toFill)+1
      BY <1>1, <3>1, AddFacts
    <3>3. toFill' = Append(toFill, e) /\ sent' = Tail(sent)
      BY <1>12, <2>3 DEF CarrySent
    <3>4. /\ All[4] # <<>> /\ e.buf = Head(All[4]).buf
          /\ All'[4] = Tail(All[4]) /\ All'[1] = Append(All[1], e)
          /\ \A p \in Places \ {4, 1} : All'[p] = All[p]
      BY <1>5, <2>1, <2>3, <3>3 DEF Places
    <3>5. Count' = Count
      <4>1. /\ Len(sent') = Len(sent)-1 /\ Len(toFill') = Len(toFill)+1
            /\ Len(filled') = Len(filled) /\ Len(toSend') = Len(toSend)
        BY <2>1, <3>1, <3>2, <3>3
      <4> QED
        BY <1>1a, <4>1 DEF Count
    <3> HIDE DEF e
    <3> QED
      BY <1>5a, <1>8, <2>1, <3>1, <3>4, <3>5, Zenon
  <2> QED
    BY <2>2, <2>3
<1>13. CASE Fill
  <2> DEFINE e == Buffer(Head(toFill).buf, produced')
  <2>1. /\ toFill # <<>> /\ toFill' = Tail(toFill) /\ filled' = Append(filled, e)
        /\ allocated' = allocated /\ UNCHANGED <<pc, toSend, sent>>
    BY <1>13 DEF Fill
  <2>2. Head(toFill) \in Entry /\ Len(Tail(toFill)) = Len(toFill)-1
    BY <1>1, <2>1, TakeFacts
  <2>3. Head(toFill).buf \in 1..Buffers /\ produced' \in 0..MaxFrames
    BY <1>2, <2>2 DEF Entry, Typed
  <2>4. e \in Entry /\ e.buf = Head(toFill).buf
    BY <2>3 DEF Buffer, Entry
  <2> HIDE DEF e
  <2>5. Len(Append(filled, e)) = Len(filled)+1
    BY <1>1, <2>4, AddFacts
  <2>6. /\ All[1] # <<>> /\ e.buf = Head(All[1]).buf
        /\ All'[1] = Tail(All[1]) /\ All'[2] = Append(All[2], e)
        /\ \A p \in Places \ {1, 2} : All'[p] = All[p]
    BY <1>5, <2>1, <2>4 DEF Places
  <2>7. Count' = Count
    <3>1. /\ Len(toFill') = Len(toFill)-1 /\ Len(filled') = Len(filled)+1
          /\ Len(toSend') = Len(toSend) /\ Len(sent') = Len(sent)
      BY <2>1, <2>2, <2>5
    <3> QED
      BY <1>1a, <3>1 DEF Count
  <2> QED
    BY <1>5a, <1>8, <2>1, <2>4, <2>6, <2>7, Zenon
<1>14. CASE Send
  <2> DEFINE e == Head(toSend)
  <2>1. /\ toSend # <<>> /\ toSend' = Tail(toSend) /\ sent' = Append(sent, e)
        /\ allocated' = allocated /\ UNCHANGED <<pc, toFill, filled>>
    BY <1>14 DEF Send
  <2>2. e \in Entry /\ Len(Tail(toSend)) = Len(toSend)-1
    BY <1>1, <2>1, TakeFacts
  <2>3. Len(Append(sent, e)) = Len(sent)+1
    BY <1>1, <2>2, AddFacts
  <2>4. /\ All[3] # <<>> /\ e.buf = Head(All[3]).buf
        /\ All'[3] = Tail(All[3]) /\ All'[4] = Append(All[4], e)
        /\ \A p \in Places \ {3, 4} : All'[p] = All[p]
    BY <1>5, <2>1 DEF Places
  <2> HIDE DEF e
  <2>5. Count' = Count
    <3>1. /\ Len(toSend') = Len(toSend)-1 /\ Len(sent') = Len(sent)+1
          /\ Len(toFill') = Len(toFill) /\ Len(filled') = Len(filled)
      BY <2>1, <2>2, <2>3
    <3> QED
      BY <1>1a, <3>1 DEF Count
  <2> QED
    BY <1>5a, <1>8, <2>1, <2>2, <2>4, <2>5, Zenon
<1>15. CASE CarryFails
  <2>1. /\ UNCHANGED <<allocated, toFill, toSend>> /\ pc # "returned" /\ pc' = "returned"
        /\ \/ filled # <<>> /\ filled' = Tail(filled) /\ sent' = sent
           \/ sent # <<>> /\ sent' = Tail(sent) /\ filled' = filled
    BY <1>15 DEF CarryFails
  <2>2. PICK from \in Places : /\ All[from] # <<>> /\ All'[from] = Tail(All[from])
                               /\ \A p \in Places \ {from} : All'[p] = All[p]
    <3>1. CASE filled # <<>> /\ filled' = Tail(filled) /\ sent' = sent
      <4>1. /\ 2 \in Places /\ All[2] # <<>> /\ All'[2] = Tail(All[2])
            /\ \A p \in Places \ {2} : All'[p] = All[p]
        BY <1>5, <2>1, <3>1 DEF Places
      <4> QED
        BY <4>1, Zenon
    <3>2. CASE sent # <<>> /\ sent' = Tail(sent) /\ filled' = filled
      <4>1. /\ 4 \in Places /\ All[4] # <<>> /\ All'[4] = Tail(All[4])
            /\ \A p \in Places \ {4} : All'[p] = All[p]
        BY <1>5, <2>1, <3>2 DEF Places
      <4> QED
        BY <4>1, Zenon
    <3> QED
      BY <2>1, <3>1, <3>2
  <2>3. Apart(All) /\ Below(All, allocated) /\ Count = allocated
    BY <2>1 DEF Whole
  <2>4. Apart(All') /\ Below(All', allocated)
    BY <1>1, <1>4, <2>2, <2>3, TakeKeepsApart
  <2>5. Count' = Count-1
    <3>1. \/ Len(filled') = Len(filled)-1 /\ sent' = sent
          \/ Len(sent') = Len(sent)-1 /\ filled' = filled
      BY <1>1, <2>1, TakeFacts
    <3> QED
      BY <1>1a, <2>1, <3>1 DEF Count
  <2> QED
    BY <2>1, <2>3, <2>4, <2>5 DEF Whole
<1>16. CASE UNCHANGED vars
  BY <1>6, <1>16 DEF vars
<1> QED
  BY <1>7, <1>9, <1>10, <1>11, <1>12, <1>13, <1>14, <1>15, <1>16
     DEF Next, Setup, Loop, Devices

\* Two queues after each other.
LEMMA JoinFacts ==
    ASSUME NEW S, NEW a \in Seq(S), NEW b \in Seq(S)
    PROVE  /\ a \o b \in Seq(S) /\ Len(a) \in Nat /\ Len(b) \in Nat
           /\ Len(a \o b) = Len(a) + Len(b)
           /\ \A i \in 1..Len(a \o b) :
                  \/ i \in 1..Len(a) /\ (a \o b)[i] = a[i]
                  \/ i-Len(a) \in 1..Len(b) /\ (a \o b)[i] = b[i-Len(a)]
  OBVIOUS

\* Where queue p begins when the four queues are put after each other.
Start(p) == IF p = 1 THEN 0 ELSE IF p = 2 THEN Len(toFill)
            ELSE IF p = 3 THEN Len(toFill) + Len(filled)
            ELSE Len(toFill) + Len(filled) + Len(toSend)

\* Every position of Everywhere is a position of one of the queues.
LEMMA OnePlace ==
    ASSUME Typed
    PROVE  /\ Everywhere \in Seq(Entry)
           /\ Len(Everywhere) = Len(toFill) + Len(filled) + Len(toSend) + Len(sent)
           /\ \A i \in 1..Len(Everywhere) : \E p \in Places :
                  i-Start(p) \in 1..Len(All[p]) /\ Everywhere[i] = All[p][i-Start(p)]
<1> DEFINE ab == toFill \o filled
           abc == ab \o toSend
<1>1. /\ toFill \in Seq(Entry) /\ filled \in Seq(Entry)
      /\ toSend \in Seq(Entry) /\ sent \in Seq(Entry)
  BY DEF Typed
<1>1a. ASSUME NEW x \in Seq(Entry), NEW y \in Seq(Entry)
       PROVE  /\ x \o y \in Seq(Entry) /\ Len(x \o y) = Len(x) + Len(y) /\ Len(y) \in Nat
              /\ \A i \in 1..Len(x \o y) :
                     \/ i \in 1..Len(x) /\ (x \o y)[i] = x[i]
                     \/ i-Len(x) \in 1..Len(y) /\ (x \o y)[i] = y[i-Len(x)]
  BY JoinFacts
<1>2. /\ ab \in Seq(Entry) /\ Len(ab) = Len(toFill) + Len(filled)
      /\ Len(toFill) \in Nat /\ Len(filled) \in Nat
      /\ \A i \in 1..Len(ab) :
             \/ i \in 1..Len(toFill) /\ ab[i] = toFill[i]
             \/ i-Len(toFill) \in 1..Len(filled) /\ ab[i] = filled[i-Len(toFill)]
  BY <1>1, JoinFacts
<1> HIDE DEF ab
<1>3. /\ abc \in Seq(Entry) /\ Len(abc) = Len(ab) + Len(toSend) /\ Len(toSend) \in Nat
      /\ \A i \in 1..Len(abc) :
             \/ i \in 1..Len(ab) /\ abc[i] = ab[i]
             \/ i-Len(ab) \in 1..Len(toSend) /\ abc[i] = toSend[i-Len(ab)]
  BY <1>1, <1>1a, <1>2
<1> HIDE DEF abc
<1>4. /\ abc \o sent \in Seq(Entry) /\ Len(abc \o sent) = Len(abc) + Len(sent)
      /\ Len(sent) \in Nat
      /\ \A i \in 1..Len(abc \o sent) :
             \/ i \in 1..Len(abc) /\ (abc \o sent)[i] = abc[i]
             \/ i-Len(abc) \in 1..Len(sent) /\ (abc \o sent)[i] = sent[i-Len(abc)]
  BY <1>1, <1>1a, <1>3
<1>5. Everywhere = abc \o sent
  BY DEF Everywhere, abc, ab
<1>6. /\ All[1] = toFill /\ All[2] = filled /\ All[3] = toSend /\ All[4] = sent
  BY DEF All, Queues, Places
<1>7. /\ Start(1) = 0 /\ Start(2) = Len(toFill) /\ Start(3) = Len(ab)
      /\ Start(4) = Len(abc)
  BY <1>2, <1>3 DEF Start
<1>8. ASSUME NEW i \in 1..Len(Everywhere)
      PROVE  \E p \in Places : /\ i-Start(p) \in 1..Len(All[p])
                               /\ Everywhere[i] = All[p][i-Start(p)]
  <2>1. CASE i-Len(abc) \in 1..Len(sent) /\ Everywhere[i] = sent[i-Len(abc)]
    <3>1. i-Start(4) \in 1..Len(All[4]) /\ Everywhere[i] = All[4][i-Start(4)]
      BY <1>6, <1>7, <2>1, Zenon
    <3>2. 4 \in Places
      BY DEF Places
    <3> QED
      BY <3>1, <3>2, Zenon
  <2>2. CASE i \in 1..Len(abc) /\ Everywhere[i] = abc[i]
    <3>1. CASE i-Len(ab) \in 1..Len(toSend) /\ abc[i] = toSend[i-Len(ab)]
      <4>1. i-Start(3) \in 1..Len(All[3]) /\ Everywhere[i] = All[3][i-Start(3)]
        BY <1>6, <1>7, <2>2, <3>1, Zenon
      <4>2. 3 \in Places
        BY DEF Places
      <4> QED
        BY <4>1, <4>2, Zenon
    <3>2. CASE i \in 1..Len(ab) /\ abc[i] = ab[i]
      <4>1. CASE i \in 1..Len(toFill) /\ ab[i] = toFill[i]
        <5>1. i-Start(1) = i
          BY <1>7, <4>1
        <5> QED
          BY <1>6, <2>2, <3>2, <4>1, <5>1 DEF Places
      <4>2. CASE i-Len(toFill) \in 1..Len(filled) /\ ab[i] = filled[i-Len(toFill)]
        <5>1. i-Start(2) \in 1..Len(All[2]) /\ Everywhere[i] = All[2][i-Start(2)]
          BY <1>6, <1>7, <2>2, <3>2, <4>2, Zenon
        <5>2. 2 \in Places
          BY DEF Places
        <5> QED
          BY <5>1, <5>2, Zenon
      <4> QED
        BY <1>2, <3>2, <4>1, <4>2
    <3> QED
      BY <1>3, <2>2, <3>1, <3>2
  <2> QED
    BY <1>4, <1>5, <2>1, <2>2
<1>9. Len(Everywhere) = Len(toFill) + Len(filled) + Len(toSend) + Len(sent)
  BY <1>2, <1>3, <1>4, <1>5
<1> QED
  BY <1>4, <1>5, <1>8, <1>9

\* No buffer is lost or queued twice, whatever call fails: every allocated buffer
\* is in exactly one queue, but for the one main may have returned with.
THEOREM NoBufferLost == Spec => []BuffersKept
<1>1. Init => Whole
  BY DEF Init, Whole, Count, Apart, Below, All, Queues, Places
<1>2. ASSUME Typed, Whole
      PROVE  BuffersKept
  <2> DEFINE buf == [i \in 1..Len(Everywhere) |-> Everywhere[i].buf]
  <2>1. ASSUME NEW a \in 1..Len(Everywhere), NEW b \in 1..Len(Everywhere),
               Everywhere[a].buf = Everywhere[b].buf
        PROVE  a = b
    <3>1. PICK p \in Places : /\ a-Start(p) \in 1..Len(All[p])
                              /\ Everywhere[a] = All[p][a-Start(p)]
      BY <1>2, OnePlace
    <3>2. PICK q \in Places : /\ b-Start(q) \in 1..Len(All[q])
                              /\ Everywhere[b] = All[q][b-Start(q)]
      BY <1>2, OnePlace
    <3>3. p = q /\ a-Start(p) = b-Start(q)
      BY <1>2, <2>1, <3>1, <3>2 DEF Whole, Apart
    <3>4. Start(p) \in Nat
      <4>1. /\ Len(toFill) \in Nat /\ Len(filled) \in Nat /\ Len(toSend) \in Nat
        BY <1>2 DEF Typed
      <4> QED
        BY <4>1 DEF Start
    <3>5. Len(Everywhere) \in Nat
      BY <1>2, OnePlace
    <3> QED
      BY <3>3, <3>4, <3>5
  <2>2. IsInjective(buf)
    BY <2>1 DEF IsInjective
  <2>3. \/ Len(Everywhere) = allocated
        \/ pc = "returned" /\ Len(Everywhere) = allocated-1
    BY <1>2, OnePlace DEF Whole, Count
  <2> QED
    BY <2>2, <2>3 DEF BuffersKept
<1>3. Spec => [](Typed /\ Whole)
  BY <1>1, TypedKept, WholeKept, InOrder, PTL DEF Spec
<1> QED
  BY <1>2, <1>3, PTL

(***************************************************************************)
(* The echo function.                                                      *)
(***************************************************************************)

USE EchoBounds

\* Who owns the buffer: the pool, or the stack until the request handler has
\* seen the end of the transfer, which it has before the next sfunc_enable.
Owner ==
    /\ state = configured
    /\ free = IF ep = "none" THEN 1 ELSE 0
    /\ ended # "no" => ep # "none"
    /\ ~configured /\ ended = "no" => ep = "none"

\* The buffer holds the packet whose echo is due.
Due == Len(taken) = Len(echoed) + 1 /\ data = <<taken[Len(taken)]>>

\* How far the echo is, by where the buffer is; EchoInOrder alone does not
\* say what the next IN transfer will carry.
Progress ==
    /\ ep = "out" /\ ended = "no" => data = <<>> /\ Len(echoed) = Len(taken)
    /\ ep = "out" /\ ended = "ok" => Due
    /\ ep = "in" /\ ended = "no" => Due
    /\ ep = "in" /\ ended = "ok" => Len(echoed) = Len(taken)

EchoInv == EchoTypeOK /\ Owner /\ Progress /\ EchoInOrder /\ BufferComesBack

\* What the initial state establishes.
LEMMA EchoInitHolds == Echo!Init => EchoInv
<1> SUFFICES ASSUME Echo!Init
             PROVE  EchoInv
  OBVIOUS
<1>1. Len(echoed) = 0 /\ Len(taken) = 0
  BY DEF Echo!Init
<1>2. EchoTypeOK
  <2>1. /\ data \in Seq(Packets) /\ taken \in Seq(Packets)
        /\ echoed \in Seq(Seq(Packets))
    BY DEF Echo!Init
  <2>2. configured \in BOOLEAN /\ state \in BOOLEAN /\ crashed \in BOOLEAN
    BY Zenon DEF Echo!Init
  <2>3. free \in 0..1 /\ Len(taken) <= MaxTaken /\ failures \in 0..MaxFailures
    BY <1>1 DEF Echo!Init
  <2> QED
    BY <2>1, <2>2, <2>3 DEF Echo!Init, EchoTypeOK
<1>3. EchoInOrder
  BY <1>1 DEF EchoInOrder
<1> QED
  BY <1>2, <1>3 DEF Echo!Init, EchoInv, Owner, Progress, BufferComesBack

\* Enabling finds the buffer in the pool and starts the histories anew.
LEMMA EchoEnableHolds == EchoInv /\ Echo!sfunc_enable => EchoInv'
<1> SUFFICES ASSUME EchoInv, Echo!sfunc_enable
             PROVE  EchoInv'
  OBVIOUS
<1>1. ~state /\ free = 1 /\ ep = "none" /\ ended' = "no"
  BY DEF EchoInv, Owner, EchoTypeOK, Echo!sfunc_enable
<1>2. /\ data' = <<>> /\ taken' = <<>> /\ echoed' = <<>>
      /\ state' = TRUE /\ configured' = TRUE /\ crashed' = crashed
      /\ Echo!Enqueue("out")
  BY <1>1 DEF Echo!sfunc_enable
<1> QED
  BY <1>1, <1>2
  DEF EchoInv, EchoTypeOK, Owner, Progress, Due, EchoInOrder,
      BufferComesBack, Echo!Enqueue, Echo!Failure

\* The packet stored is the one that is due next.
LEMMA PacketOutHolds ==
    ASSUME NEW p \in Packets, EchoInv, Echo!PacketOut(p)
    PROVE  EchoInv'
<1>1. /\ ep = "out" /\ ended = "no" /\ data = <<>> /\ Len(echoed) = Len(taken)
      /\ taken \in Seq(Packets) /\ echoed \in Seq(Seq(Packets))
  BY DEF Echo!PacketOut, EchoInv, EchoTypeOK, Progress
<1>2. /\ data' = <<p>> /\ data' \in Seq(Packets)
  BY <1>1 DEF Echo!PacketOut
<1>3. /\ taken' = Append(taken, p) /\ taken' \in Seq(Packets)
      /\ Len(taken') = Len(taken) + 1 /\ taken'[Len(taken')] = p
      /\ \A n \in 1..Len(taken) : taken'[n] = taken[n]
  BY <1>1 DEF Echo!PacketOut
<1>4. Len(taken') <= MaxTaken
  BY <1>1, <1>3 DEF Echo!PacketOut
<1>5. UNCHANGED <<configured, state, free, ep, crashed, echoed, failures>> /\ ended' = "ok"
  BY DEF Echo!PacketOut
<1>6. EchoTypeOK'
  BY <1>2, <1>3, <1>4, <1>5 DEF EchoInv, EchoTypeOK
<1>7. Owner' /\ BufferComesBack'
  BY <1>1, <1>5 DEF EchoInv, Owner, BufferComesBack
<1>8. Progress'
  BY <1>1, <1>2, <1>3, <1>5 DEF Progress, Due
<1>9. EchoInOrder'
  BY <1>1, <1>3, <1>5 DEF EchoInv, EchoInOrder
<1> QED
  BY <1>6, <1>7, <1>8, <1>9 DEF EchoInv

\* The host fetches what is due.
LEMMA PacketInHolds == EchoInv /\ Echo!PacketIn => EchoInv'
<1> SUFFICES ASSUME EchoInv, Echo!PacketIn PROVE EchoInv'
  OBVIOUS
<1>1. /\ ep = "in" /\ ended = "no" /\ Due
      /\ data \in Seq(Packets) /\ echoed \in Seq(Seq(Packets)) /\ taken \in Seq(Packets)
  BY DEF Echo!PacketIn, EchoInv, EchoTypeOK, Progress
<1>2. /\ echoed' = Append(echoed, data) /\ echoed' \in Seq(Seq(Packets))
      /\ Len(echoed') = Len(echoed) + 1 /\ echoed'[Len(echoed')] = data
      /\ \A n \in 1..Len(echoed) : echoed'[n] = echoed[n]
  BY <1>1 DEF Echo!PacketIn
<1>3. /\ UNCHANGED <<configured, state, free, ep, data, crashed, taken, failures>>
      /\ ended' = "ok"
  BY DEF Echo!PacketIn, Echo!buffer
<1>4. EchoTypeOK'
  BY <1>2, <1>3 DEF EchoInv, EchoTypeOK
<1>5. Owner' /\ BufferComesBack'
  BY <1>1, <1>3 DEF EchoInv, Owner, BufferComesBack
<1>6. Len(echoed') = Len(taken')
  BY <1>1, <1>2, <1>3 DEF Due
<1>7. Progress'
  BY <1>1, <1>3, <1>6 DEF Progress
<1>8. ASSUME NEW n \in 1..Len(echoed') PROVE echoed'[n] = <<taken'[n]>>
  <2>1. CASE n = Len(echoed')
    BY <2>1, <1>1, <1>2, <1>3, <1>6 DEF Due
  <2>2. CASE n # Len(echoed')
    <3>1. n \in 1..Len(echoed)
      BY <2>2, <1>1, <1>2
    <3> QED
      BY <3>1, <1>2, <1>3 DEF EchoInv, EchoInOrder
  <2> QED
    BY <2>1, <2>2
<1>9. EchoInOrder'
  BY <1>1, <1>3, <1>6, <1>8 DEF EchoInOrder
<1> QED
  BY <1>4, <1>5, <1>7, <1>9 DEF EchoInv

\* Every other step leaves the histories alone or ends the transfer.
LEMMA EchoStepHolds == EchoInv /\ [Echo!Next]_Echo!vars => EchoInv'
<1> SUFFICES ASSUME EchoInv, [Echo!Next]_Echo!vars
             PROVE  EchoInv'
  OBVIOUS
<1>1. CASE Echo!sfunc_enable
  BY <1>1, EchoEnableHolds
<1>2. CASE Echo!sfunc_disable
  BY <1>2 DEF Echo!sfunc_disable, EchoInv, EchoTypeOK, Owner, Progress, Due,
              EchoInOrder, BufferComesBack, Echo!buffer, Echo!history
<1>3. CASE Echo!RequestDone
  <2>1. ep \in {"out", "in"} /\ Echo!Other(ep) \in {"out", "in"}
    BY <1>3 DEF Echo!RequestDone, EchoInv, Owner, EchoTypeOK, Echo!Other
  <2>2. data' \in Seq(Packets)
    BY <1>3 DEF Echo!RequestDone, Echo!Contents, EchoInv, EchoTypeOK
  <2>3. EchoTypeOK'
    BY <1>3, <2>1, <2>2 DEF Echo!RequestDone, Echo!Enqueue, Echo!Failure, EchoInv,
                            EchoTypeOK, Echo!history
  <2>4. Owner' /\ BufferComesBack'
    BY <1>3, <2>1 DEF Echo!RequestDone, Echo!Enqueue, EchoInv, Owner,
                      BufferComesBack
  <2>5. EchoInOrder'
    BY <1>3 DEF Echo!RequestDone, Echo!history, EchoInv, EchoInOrder
  <2>6. Progress'
    BY <1>3, <2>1 DEF Echo!RequestDone, Echo!Enqueue, Echo!Contents, Echo!Other,
                      Echo!history, EchoInv, EchoTypeOK, Progress, Due
  <2> QED
    BY <2>3, <2>4, <2>5, <2>6 DEF EchoInv
<1>4. CASE Echo!RequestOver
  BY <1>4 DEF Echo!RequestOver, EchoInv, EchoTypeOK, Owner, Progress, Due,
              EchoInOrder, BufferComesBack, Echo!history
<1>5. ASSUME NEW p \in Packets, Echo!PacketOut(p) PROVE EchoInv'
  BY <1>5, PacketOutHolds
<1>6. CASE Echo!PacketIn
  BY <1>6, PacketInHolds
<1>7. CASE Echo!TransferFails
  BY <1>7
  DEF Echo!TransferFails, Echo!Failure, EchoInv, EchoTypeOK, Owner, Progress, Due,
      EchoInOrder, BufferComesBack, Echo!buffer, Echo!history
<1>8. CASE UNCHANGED Echo!vars
  BY <1>8 DEF Echo!vars, EchoInv, EchoTypeOK, Owner, Progress, Due, EchoInOrder,
              BufferComesBack
<1> QED
  BY <1>1, <1>2, <1>3, <1>4, <1>5, <1>6, <1>7, <1>8
  DEF Echo!Next, Echo!Host, Echo!sfunc_request_handler

\* The strengthened invariant holds in every state.
LEMMA EchoInvariant == Echo!Spec => []EchoInv
<1>1. Echo!Init => EchoInv
  BY EchoInitHolds
<1>2. EchoInv /\ [Echo!Next]_Echo!vars => EchoInv'
  BY EchoStepHolds
<1> QED
  BY <1>1, <1>2, PTL DEF Echo!Spec

\* The function's state, the endpoint and the host's view keep their types.
THEOREM EchoTypeCorrect == Echo!Spec => []EchoTypeOK
<1>1. EchoInv => EchoTypeOK
  BY DEF EchoInv
<1> QED
  BY <1>1, EchoInvariant, PTL

\* The buffer is in the pool whenever the function is enabled: sfunc_buf_alloc
\* never resets a NULL buffer (sfunc.c:130), however transfers ended before.
THEOREM BufferAlwaysBack == Echo!Spec => []BufferComesBack
<1>1. EchoInv => BufferComesBack
  BY DEF EchoInv
<1> QED
  BY <1>1, EchoInvariant, PTL

\* The n-th echo is the n-th packet taken by sfunc_request_handler since the
\* configuration was selected, for any number of packets and failures.
THEOREM EchoesArePackets == Echo!Spec => []EchoInOrder
<1>1. EchoInv => EchoInOrder
  BY DEF EchoInv
<1> QED
  BY <1>1, EchoInvariant, PTL
=============================================================================
