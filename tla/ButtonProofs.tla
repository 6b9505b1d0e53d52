---------------------------- MODULE ButtonProofs ----------------------------
(***************************************************************************)
(* Proofs about the examples that the buttons of the board drive: the USB  *)
(* mouse (HidMouse), the USB keyboard (HidKeyboard) and the counter        *)
(* (LvglCounter), for any sizes of their queues and numbers, any keys and  *)
(* any number of edges.  The three are programs of their own: the          *)
(* variables of HidDevice stand for the keyboard's in its section.         *)
(***************************************************************************)
EXTENDS HidMouse, HidKeyboardState, LvglCounterState, FiniteSetTheorems,
        FunctionTheorems, TLAPS

Keyboard == INSTANCE HidKeyboard
Counter == INSTANCE LvglCounter

(***************************************************************************)
(* The mouse.                                                              *)
(***************************************************************************)

\* The numbers up to m are m.
LEMMA Interval ==
    ASSUME NEW m \in Nat
    PROVE  IsFiniteSet(1 .. m) /\ Cardinality(1 .. m) = m
<1>1. IsFiniteSet(1 .. m) /\ Cardinality(1 .. m) = IF 1 > m THEN 0 ELSE m-1+1
  BY FS_Interval, SMT
<1> QED
  BY <1>1

\* Numbering the elements of a set with i.
LEMMA Pairs ==
    ASSUME NEW i, NEW T, IsFiniteSet(T)
    PROVE  IsFiniteSet({i} \X T) /\ Cardinality({i} \X T) = Cardinality(T)
<1>1. IsFiniteSet({i}) /\ Cardinality({i}) = 1
  BY FS_Singleton
<1>2. Cardinality(T) \in Nat
  BY FS_CardinalityType
<1>3. IsFiniteSet({i} \X T) /\ Cardinality({i} \X T) = Cardinality({i}) * Cardinality(T)
  BY <1>1, FS_Product
<1> QED
  BY <1>1, <1>2, <1>3

\* The units of report i.
LEMMA OneReport ==
    ASSUME NEW i, NEW m \in 0 .. 255
    PROVE  /\ IsFiniteSet({i} \X (1 .. m)) /\ Cardinality({i} \X (1 .. m)) = m
<1> DEFINE T == 1 .. m
<1>1. m \in Nat
  OBVIOUS
<1>2. IsFiniteSet(T) /\ Cardinality(T) = m
  BY <1>1, Interval
<1> HIDE DEF T
<1>3. IsFiniteSet({i} \X T) /\ Cardinality({i} \X T) = m
  BY <1>2, Pairs
<1> QED
  BY <1>3 DEF T

\* Which units a queue carries, and that they are finitely many.
LEMMA InUnits ==
    ASSUME NEW q, NEW a
    PROVE  /\ \A i, k : <<i, k>> \in Units(q, a) <=>
                  i \in DOMAIN q /\ k \in 1 .. 255 /\ k <= q[i].move[a]
           /\ \A u \in Units(q, a) : \E i \in DOMAIN q, k \in 1 .. 255 : u = <<i, k>>
  BY DEF Units

LEMMA UnitsFacts ==
    ASSUME NEW q \in Seq(Reports), NEW a
    PROVE  IsFiniteSet(Units(q, a)) /\ Cardinality(Units(q, a)) \in Nat
<1>1. Len(q) \in Nat /\ 255 \in Nat /\ DOMAIN q = 1 .. Len(q)
  OBVIOUS
<1>2. IsFiniteSet(DOMAIN q)
  BY <1>1, Interval
<1>3. IsFiniteSet(1 .. 255)
  BY <1>1, Interval
<1>4. IsFiniteSet((DOMAIN q) \X (1 .. 255))
  BY <1>2, <1>3, FS_Product
<1>5. Units(q, a) \in SUBSET ((DOMAIN q) \X (1 .. 255))
  BY DEF Units
<1>6. IsFiniteSet(Units(q, a))
  BY <1>4, <1>5, FS_Subset
<1> QED
  BY <1>6, FS_CardinalityType

\* Putting a report adds its movement to what the queue carries.
LEMMA PutUnits ==
    ASSUME NEW q \in Seq(Reports), NEW r \in Reports, NEW a \in Axes
    PROVE  Cardinality(Units(Append(q, r), a)) = Cardinality(Units(q, a)) + r.move[a]
<1> DEFINE n == Len(q)+1
           m == r.move[a]
           p == Append(q, r)
           New == {n} \X (1 .. m)
<1>1. m = r.move[a] /\ m \in 0 .. 255
  BY DEF Reports, Distance
<1> HIDE DEF m
<1>2. \A k \in 1 .. m : k \in 1 .. 255 /\ k <= m
  <2>1. m \in 0 .. 255
    BY <1>1
  <2> QED
    BY <2>1
<1>3. /\ DOMAIN q = 1 .. Len(q) /\ Len(q) \in Nat /\ DOMAIN p = 1 .. n
      /\ \A i \in 1 .. Len(q) : p[i] = q[i]
      /\ p[n] = r
  OBVIOUS
<1> HIDE DEF p
<1>4. Units(p, a) = Units(q, a) \cup New
  <2>1. ASSUME NEW u \in Units(p, a)
        PROVE  u \in Units(q, a) \cup New
    <3>1. PICK i \in DOMAIN p, k \in 1 .. 255 : u = <<i, k>>
      BY InUnits
    <3>2. i \in 1 .. n /\ k <= p[i].move[a]
      BY <1>3, <3>1, InUnits
    <3>3. CASE i = n
      BY <1>1, <1>3, <3>1, <3>2, <3>3
    <3>4. CASE i # n
      <4>1. i \in DOMAIN q /\ k <= q[i].move[a]
        BY <1>3, <3>2, <3>4
      <4> QED
        BY <3>1, <4>1, InUnits
    <3> QED
      BY <3>3, <3>4
  <2>2. ASSUME NEW u \in Units(q, a)
        PROVE  u \in Units(p, a)
    <3>1. PICK i \in 1 .. Len(q), k \in 1 .. 255 : u = <<i, k>>
      BY <1>3, InUnits
    <3>2. k <= q[i].move[a]
      BY <3>1, InUnits
    <3>3. i \in DOMAIN p /\ k <= p[i].move[a]
      BY <1>3, <3>2
    <3> QED
      BY <3>1, <3>3, InUnits
  <2>3. ASSUME NEW k \in 1 .. m
        PROVE  <<n, k>> \in Units(p, a)
    <3>1. k \in 1 .. 255 /\ k <= m
      BY <1>2
    <3>2. n \in 1 .. n
      BY <1>3
    <3> QED
      BY <1>1, <1>3, <3>1, <3>2, InUnits
  <2>4. ASSUME NEW u \in New
        PROVE  u \in Units(p, a)
    BY <2>3
  <2> QED
    BY <2>1, <2>2, <2>4
<1>5. Units(q, a) \cap New = {}
  BY <1>3 DEF Units
<1>6. IsFiniteSet(New) /\ Cardinality(New) = m
  BY <1>1, OneReport
<1>7. IsFiniteSet(Units(q, a)) /\ Cardinality(Units(q, a)) \in Nat
  BY UnitsFacts
<1> HIDE DEF New
<1>8. Cardinality(Units(q, a) \cup New) = Cardinality(Units(q, a)) + m - 0
  BY <1>5, <1>6, <1>7, FS_Union, FS_EmptySet
<1> QED
  BY <1>1, <1>4, <1>7, <1>8 DEF p

\* Taking a report takes its movement out of what the queue carries.
LEMMA TakeUnits ==
    ASSUME NEW q \in Seq(Reports), q # <<>>, NEW a \in Axes
    PROVE  Cardinality(Units(q, a)) = Cardinality(Units(Tail(q), a)) + Head(q).move[a]
<1> DEFINE r == Head(q)
           m == r.move[a]
           First == {1} \X (1 .. m)
           Rest == {u \in Units(q, a) : u[1] # 1}
           Shift == [u \in Units(Tail(q), a) |-> <<u[1]+1, u[2]>>]
<1>1. /\ r \in Reports /\ r = q[1] /\ Tail(q) \in Seq(Reports)
      /\ Len(q) \in Nat /\ Len(q) >= 1
      /\ DOMAIN q = 1 .. Len(q) /\ DOMAIN Tail(q) = 1 .. Len(q)-1
      /\ \A i \in 1 .. Len(q)-1 : Tail(q)[i] = q[i+1]
  OBVIOUS
<1>2. m = r.move[a] /\ m \in 0 .. 255
  BY <1>1 DEF Reports, Distance
<1> HIDE DEF m
<1>3. \A k \in 1 .. m : k \in 1 .. 255 /\ k <= m
  <2>1. m \in 0 .. 255
    BY <1>2
  <2> QED
    BY <2>1
<1>4. Units(q, a) = Rest \cup First
  <2>1. ASSUME NEW u \in Units(q, a), u[1] = 1
        PROVE  u \in First
    <3>1. PICK i \in 1 .. Len(q), k \in 1 .. 255 : u = <<i, k>>
      BY <1>1, InUnits
    <3>2. i = 1 /\ k <= q[1].move[a]
      BY <2>1, <3>1, InUnits
    <3> QED
      BY <1>1, <1>2, <3>1, <3>2
  <2>2. ASSUME NEW k \in 1 .. m
        PROVE  <<1, k>> \in Units(q, a)
    <3>1. k \in 1 .. 255 /\ k <= m
      BY <1>3
    <3>2. 1 \in DOMAIN q
      BY <1>1
    <3> QED
      BY <1>1, <1>2, <3>1, <3>2, InUnits
  <2>3. ASSUME NEW u \in First
        PROVE  u \in Units(q, a)
    BY <2>2
  <2> QED
    BY <2>1, <2>3
<1>5. Rest \cap First = {}
  OBVIOUS
<1>6. Shift \in Bijection(Units(Tail(q), a), Rest)
  <2>1. ASSUME NEW u \in Units(Tail(q), a)
        PROVE  Shift[u] \in Rest
    <3>1. /\ u[1] \in 1 .. Len(q)-1 /\ u[2] \in 1 .. 255
          /\ u[2] <= q[u[1]+1].move[a]
      BY <1>1 DEF Units
    <3>2. u[1]+1 \in 1 .. Len(q) /\ u[1]+1 # 1
      BY <1>1, <3>1
    <3> QED
      BY <1>1, <3>1, <3>2 DEF Units
  <2>2. ASSUME NEW u \in Units(Tail(q), a), NEW v \in Units(Tail(q), a), Shift[u] = Shift[v]
        PROVE  u = v
    <3>1. /\ u = <<u[1], u[2]>> /\ v = <<v[1], v[2]>>
          /\ u[1] \in 1 .. Len(q)-1 /\ v[1] \in 1 .. Len(q)-1
      BY <1>1 DEF Units
    <3>2. u[1]+1 = v[1]+1 /\ u[2] = v[2]
      BY <2>2
    <3> QED
      BY <1>1, <3>1, <3>2
  <2>3. ASSUME NEW w \in Rest
        PROVE  \E u \in Units(Tail(q), a) : Shift[u] = w
    <3>1. /\ w = <<w[1], w[2]>> /\ w[1] \in 1 .. Len(q) /\ w[1] # 1
          /\ w[2] \in 1 .. 255 /\ w[2] <= q[w[1]].move[a]
      BY <1>1 DEF Units
    <3> DEFINE u == <<w[1]-1, w[2]>>
    <3>2. w[1]-1 \in 1 .. Len(q)-1 /\ (w[1]-1)+1 = w[1]
      BY <1>1, <3>1
    <3>3. u \in Units(Tail(q), a)
      BY <1>1, <3>1, <3>2 DEF Units
    <3>4. Shift[u] = w
      BY <3>1, <3>2, <3>3
    <3> QED
      BY <3>3, <3>4
  <2> QED
    BY <2>1, <2>2, <2>3, Fun_IsBij
<1>7. IsFiniteSet(Rest) /\ Cardinality(Rest) = Cardinality(Units(Tail(q), a))
  BY <1>1, <1>6, UnitsFacts, FS_Bijection DEF ExistsBijection
<1>8. IsFiniteSet(First) /\ Cardinality(First) = m
  BY <1>2, OneReport
<1>9. Cardinality(Units(Tail(q), a)) \in Nat
  BY <1>1, UnitsFacts
<1> HIDE DEF First, Rest, Shift, r
<1>10. Cardinality(Rest \cup First) = Cardinality(Rest) + Cardinality(First) - 0
  BY <1>5, <1>7, <1>8, FS_Union, FS_EmptySet
<1>11. m \in Nat
  <2>1. m \in 0 .. 255
    BY <1>2, Zenon
  <2> QED
    BY <2>1
<1>12. Cardinality(Units(q, a)) = Cardinality(Units(Tail(q), a)) + m - 0
  BY <1>4, <1>7, <1>8, <1>10, Zenon
<1>13. Cardinality(Units(q, a)) = Cardinality(Units(Tail(q), a)) + m
  BY <1>9, <1>11, <1>12
<1> QED
  BY <1>13 DEF m, r

\* Taking the first element of a queue.
LEMMA TakeFacts ==
    ASSUME NEW S, NEW q \in Seq(S), q # <<>>
    PROVE  /\ Head(q) \in S /\ Head(q) = q[1] /\ Tail(q) \in Seq(S)
           /\ Len(q) \in Nat /\ Len(q) >= 1 /\ Len(Tail(q)) = Len(q) - 1
           /\ DOMAIN q = 1 .. Len(q) /\ DOMAIN Tail(q) = 1 .. Len(q)-1
           /\ \A i \in 1 .. Len(q)-1 : Tail(q)[i] = q[i+1]
  OBVIOUS

\* Between two callbacks the static report holds the buttons that are held and
\* no movement.
Cleared == tmp.buttons = pressed \cap Buttons /\ tmp.move = Still

\* The buttons the host holds once everything on its way has arrived.
LastButtons ==
    IF mouse_msgq # <<>> THEN mouse_msgq[Len(mouse_msgq)].buttons
    ELSE IF pc # "get" THEN report.buttons ELSE host.buttons

\* If the report built last was not dropped, these are the buttons it was built
\* with.
Newest == newest => LastButtons = tmp.buttons

MIInv == TypeOK /\ Cleared /\ Newest /\ MotionConserved

\* What the callback puts, and what its static report keeps of it.
LEMMA BuiltFacts ==
    ASSUME TypeOK, Cleared, NEW i \in Buttons \cup Axes, NEW down \in BOOLEAN
    PROVE  LET r == Built(i, down)
           IN  /\ r \in Reports /\ Kept(r) \in Reports
               /\ Kept(r).buttons = r.buttons /\ Kept(r).move = Still
               /\ r.buttons = IF i \in Axes THEN tmp.buttons
                              ELSE IF down THEN tmp.buttons \cup {i} ELSE tmp.buttons \ {i}
               /\ \A a \in Axes : r.move[a] = IF a = i /\ down THEN Distance ELSE 0
<1> DEFINE r == Built(i, down)
<1> USE DEF Distance
<1>1. tmp \in Reports /\ tmp.move = Still
  BY DEF TypeOK, Cleared
<1>2. CASE i \in Buttons
  <2>1. r = [tmp EXCEPT !.buttons = IF down THEN @ \cup {i} ELSE @ \ {i}] /\ i \notin Axes
    BY <1>2 DEF Built, Buttons, Axes
  <2>2. /\ r = [buttons |-> IF down THEN tmp.buttons \cup {i} ELSE tmp.buttons \ {i},
                move |-> Still]
    BY <1>1, <2>1 DEF Reports
  <2>3. r \in Reports /\ Kept(r) = r
    BY <1>1, <1>2, <2>2 DEF Reports, Kept, Still
  <2>4. /\ r.buttons = IF down THEN tmp.buttons \cup {i} ELSE tmp.buttons \ {i}
        /\ r.move = Still
    BY <2>2
  <2>5. \A a \in Axes : r.move[a] = 0 /\ a # i
    BY <2>1, <2>4 DEF Still
  <2> HIDE DEF r
  <2> QED
    BY <2>1, <2>3, <2>4, <2>5 DEF r
<1>3. CASE i \in Axes
  <2>1. r = [tmp EXCEPT !.move[i] = IF down THEN (@ + Distance) % 256 ELSE @]
    BY <1>3 DEF Built, Buttons, Axes
  <2>2. tmp.move[i] = 0
    BY <1>1, <1>3 DEF Still
  <2>3. r = [tmp EXCEPT !.move[i] = IF down THEN Distance ELSE 0]
    BY <1>1, <2>1, <2>2 DEF Reports
  <2>4. /\ r.buttons = tmp.buttons /\ r.move = [Still EXCEPT ![i] = IF down THEN Distance ELSE 0]
        /\ r = [buttons |-> r.buttons, move |-> r.move]
    BY <1>1, <2>3 DEF Reports
  <2>5. r \in Reports /\ \A a \in Axes : r.move[a] = IF a = i /\ down THEN Distance ELSE 0
    BY <1>1, <1>3, <2>4 DEF Reports, Still
  <2>6. Kept(r) = [buttons |-> r.buttons, move |-> Still] /\ Kept(r) \in Reports
    BY <2>5 DEF Kept, Reports, Still
  <2> QED
    BY <1>3, <2>4, <2>5, <2>6
<1> QED
  BY <1>2, <1>3

\* What the queue carries is a number of units.
LEMMA QueueUnits ==
    ASSUME TypeOK, NEW a \in Axes
    PROVE  /\ Cardinality(Units(mouse_msgq, a)) \in Nat
           /\ report.move[a] \in Nat /\ host.move[a] \in Nat /\ presses[a] \in Nat
<1>1. Cardinality(Units(mouse_msgq, a)) \in Nat
  BY UnitsFacts DEF TypeOK
<1>2. report.move \in [Axes -> {0, Distance}]
  BY DEF TypeOK, Reports
<1>3. host.move \in [Axes -> Nat] /\ presses \in [Axes -> Nat]
  BY DEF TypeOK
<1> QED
  BY <1>1, <1>2, <1>3 DEF Distance

\* A press or a release of an input.
LEMMA InputEdgeHolds == ASSUME NEW i \in Inputs, MIInv, InputEdge(i) PROVE MIInv'
<1> USE DEF MIInv
<1> DEFINE down == i \in pressed'
           r == Built(i, down)
<1>1. /\ pressed' = Flip(pressed, i) /\ edges' = edges + 1 /\ edges < MaxEdges
      /\ presses' = (IF i \in Axes /\ down THEN [presses EXCEPT ![i] = @ + 1] ELSE presses)
      /\ pc' = pc /\ report' = report /\ host' = host
      /\ mouse_ready' = mouse_ready /\ suspended' = suspended
  BY DEF InputEdge, usb
<1>2. /\ pressed' \subseteq Inputs /\ edges' \in 0 .. MaxEdges /\ presses' \in [Axes -> Nat]
      /\ \A a \in Axes : presses'[a] = presses[a] + (IF a = i /\ down THEN 1 ELSE 0)
  BY <1>1, BoundAssumption DEF TypeOK, Flip
<1>3. down \in BOOLEAN
  OBVIOUS
<1> HIDE DEF down
<1>4. pressed' \cap Buttons = IF i \notin Buttons THEN pressed \cap Buttons
                              ELSE IF down THEN (pressed \cap Buttons) \cup {i}
                              ELSE (pressed \cap Buttons) \ {i}
  BY <1>1 DEF Flip, down
<1>5. CASE i = "other"
  <2>1. /\ UNCHANGED <<tmp, mouse_msgq, newest, lost>>
        /\ i \notin Buttons /\ i \notin Axes
    BY <1>5 DEF InputEdge, Buttons, Axes
  <2>2. TypeOK'
    BY <1>1, <1>2, <2>1 DEF TypeOK
  <2>3. Cleared' /\ Newest'
    BY <1>1, <1>4, <2>1 DEF Cleared, Newest, LastButtons
  <2>4. MotionConserved'
    BY <1>1, <2>1 DEF MotionConserved, OnTheWay
  <2> QED
    BY <2>2, <2>3, <2>4
<1>6. CASE i # "other"
  <2>1. i \in Buttons \cup Axes /\ ~(i \in Buttons /\ i \in Axes)
    BY <1>6 DEF Inputs, Buttons, Axes
  <2>2. /\ tmp' = Kept(r)
        /\ newest' = (Len(mouse_msgq) < QueueSize)
        /\ lost' = (lost \/ ~(Len(mouse_msgq) < QueueSize))
        /\ mouse_msgq' = IF Len(mouse_msgq) < QueueSize THEN Append(mouse_msgq, r)
                         ELSE mouse_msgq
    BY <1>6 DEF InputEdge, down
  <2>3. /\ r \in Reports /\ tmp' \in Reports
        /\ tmp'.buttons = r.buttons /\ tmp'.move = Still
        /\ r.buttons = IF i \in Axes THEN tmp.buttons
                       ELSE IF down THEN tmp.buttons \cup {i} ELSE tmp.buttons \ {i}
        /\ \A a \in Axes : r.move[a] = IF a = i /\ down THEN Distance ELSE 0
    BY <1>3, <2>1, <2>2, BuiltFacts
  <2> HIDE DEF r
  <2>4. newest' \in BOOLEAN /\ lost' \in BOOLEAN
    BY <2>2 DEF TypeOK
  <2>5. Cleared'
    BY <1>4, <2>1, <2>3 DEF Cleared
  <2>6. CASE Len(mouse_msgq) < QueueSize
    <3>1. mouse_msgq' = Append(mouse_msgq, r) /\ newest' /\ (lost' <=> lost)
      BY <2>2, <2>6
    <3>2. /\ mouse_msgq' \in Seq(Reports) /\ Len(mouse_msgq') = Len(mouse_msgq)+1
          /\ mouse_msgq'[Len(mouse_msgq')] = r
          /\ mouse_msgq' # <<>> /\ Len(mouse_msgq) \in Nat
      <4>1. mouse_msgq \in Seq(Reports)
        BY DEF TypeOK
      <4> QED
        BY <2>3, <3>1, <4>1
    <3>3. TypeOK'
      BY <1>1, <1>2, <2>3, <2>4, <2>6, <3>2, QueueAssumption DEF TypeOK
    <3>4. Newest'
      BY <2>3, <3>1, <3>2 DEF Newest, LastButtons
    <3>5. ASSUME NEW a \in Axes
          PROVE  /\ host'.move[a] + OnTheWay(a)'
                      = host.move[a] + OnTheWay(a) + (IF a = i /\ down THEN Distance ELSE 0)
                 /\ host.move[a] + OnTheWay(a) \in Nat
      <4>1. Cardinality(Units(mouse_msgq', a)) = Cardinality(Units(mouse_msgq, a)) + r.move[a]
        BY <2>3, <3>1, PutUnits DEF TypeOK
      <4> QED
        BY <1>1, <2>3, <4>1, QueueUnits DEF OnTheWay, Distance
    <3>6. MotionConserved'
      BY <1>2, <3>1, <3>5, QueueUnits DEF MotionConserved, Distance
    <3> QED
      BY <2>5, <3>3, <3>4, <3>6
  <2>7. CASE ~(Len(mouse_msgq) < QueueSize)
    <3>1. mouse_msgq' = mouse_msgq /\ ~newest' /\ lost'
      BY <2>2, <2>7
    <3>2. TypeOK'
      BY <1>1, <1>2, <2>3, <2>4, <3>1 DEF TypeOK
    <3>3. Newest'
      BY <3>1 DEF Newest
    <3>4. ASSUME NEW a \in Axes
          PROVE  host'.move[a] + OnTheWay(a)' <= Distance * presses'[a]
      BY <1>1, <1>2, <3>1, QueueUnits DEF MotionConserved, OnTheWay, Distance
    <3>5. MotionConserved'
      BY <3>1, <3>4 DEF MotionConserved
    <3> QED
      BY <2>5, <3>2, <3>3, <3>5
  <2> QED
    BY <2>6, <2>7
<1> QED
  BY <1>5, <1>6

\* main takes the first report, whose movement stays on its way.
LEMMA MouseTakeHolds == MIInv /\ Take => MIInv'
<1> SUFFICES ASSUME MIInv, Take PROVE MIInv'
  OBVIOUS
<1> USE DEF MIInv
<1>1. /\ pc = "get" /\ mouse_msgq # <<>> /\ pc' = "ready"
      /\ report' = Head(mouse_msgq) /\ mouse_msgq' = Tail(mouse_msgq)
      /\ UNCHANGED <<pressed, presses, edges, tmp, mouse_ready, suspended, host, newest, lost>>
  BY DEF Take, board, usb
<1>2. mouse_msgq \in Seq(Reports)
  BY DEF TypeOK
<1>3. /\ report' \in Reports /\ report' = mouse_msgq[1] /\ mouse_msgq' \in Seq(Reports)
      /\ Len(mouse_msgq) \in Nat /\ Len(mouse_msgq') = Len(mouse_msgq)-1
      /\ \A j \in 1 .. Len(mouse_msgq)-1 : mouse_msgq'[j] = mouse_msgq[j+1]
  BY <1>1, <1>2, TakeFacts
<1>4. TypeOK'
  BY <1>1, <1>3, QueueAssumption DEF TypeOK
<1>5. Cleared'
  BY <1>1 DEF Cleared
<1>6. LastButtons' = LastButtons
  <2>1. CASE mouse_msgq' = <<>>
    <3>1. Len(mouse_msgq) = 1
      BY <1>3, <2>1
    <3> QED
      BY <1>1, <1>3, <2>1, <3>1 DEF LastButtons
  <2>2. CASE mouse_msgq' # <<>>
    <3>1. Len(mouse_msgq') >= 1
      BY <1>3, <2>2
    <3>2. mouse_msgq'[Len(mouse_msgq')] = mouse_msgq[Len(mouse_msgq)]
      BY <1>3, <3>1
    <3> QED
      BY <1>1, <2>2, <3>2 DEF LastButtons
  <2> QED
    BY <2>1, <2>2
<1>7. Newest'
  BY <1>1, <1>6 DEF Newest
<1>8. ASSUME NEW a \in Axes
      PROVE  OnTheWay(a)' = OnTheWay(a)
  <2>1. /\ Cardinality(Units(mouse_msgq, a))
                = Cardinality(Units(mouse_msgq', a)) + report'.move[a]
        /\ Cardinality(Units(mouse_msgq, a)) \in Nat
    BY <1>1, <1>2, TakeUnits, UnitsFacts
  <2>2. Cardinality(Units(mouse_msgq', a)) \in Nat /\ report'.move[a] \in Nat
    <3>1. Cardinality(Units(mouse_msgq', a)) \in Nat
      BY <1>3, UnitsFacts
    <3>2. report'.move \in [Axes -> {0, Distance}]
      BY <1>3 DEF Reports
    <3> QED
      BY <3>1, <3>2 DEF Distance
  <2> QED
    BY <1>1, <2>1, <2>2 DEF OnTheWay
<1>9. MotionConserved'
  BY <1>1, <1>8 DEF MotionConserved
<1> QED
  BY <1>4, <1>5, <1>7, <1>9

\* main drops the report in hand, or its transfer is cancelled: the movement
\* of the report is lost, and the report built last with it if it is the one.
LEMMA DiscardHolds ==
    ASSUME MIInv, pc \in {"ready", "submit", "blocked"}, pc' = "get", lost',
           newest' <=> newest /\ mouse_msgq # <<>>, newest' \in BOOLEAN, lost' \in BOOLEAN,
           UNCHANGED <<board, tmp, mouse_msgq, report, usb, host>>
    PROVE  MIInv'
<1> USE DEF MIInv
<1>1. UNCHANGED <<pressed, presses, edges, mouse_ready, suspended>>
  BY DEF board, usb
<1>2. TypeOK'
  BY <1>1 DEF TypeOK
<1>3. Cleared' /\ Newest'
  BY <1>1 DEF Cleared, Newest, LastButtons
<1>4. ASSUME NEW a \in Axes
      PROVE  host'.move[a] + OnTheWay(a)' <= Distance * presses'[a]
  <2>1. /\ OnTheWay(a) = Cardinality(Units(mouse_msgq, a)) + report.move[a]
        /\ OnTheWay(a)' = Cardinality(Units(mouse_msgq, a)) + 0
    BY DEF OnTheWay
  <2>2. host.move[a] + OnTheWay(a) <= Distance * presses[a]
    BY <2>1, QueueUnits DEF MotionConserved, Distance
  <2> QED
    BY <1>1, <2>1, <2>2, QueueUnits DEF Distance
<1>5. MotionConserved'
  BY <1>4 DEF MotionConserved
<1> QED
  BY <1>2, <1>3, <1>5

\* The host fetches the report: its movement has arrived.
LEMMA FetchHolds == MIInv /\ Fetch => MIInv'
<1> SUFFICES ASSUME MIInv, Fetch PROVE MIInv'
  OBVIOUS
<1> USE DEF MIInv
<1>1. /\ pc = "blocked" /\ pc' = "get"
      /\ host' = [buttons |-> report.buttons,
                  move |-> [a \in Axes |-> host.move[a] + report.move[a]]]
      /\ UNCHANGED <<pressed, presses, edges, tmp, mouse_msgq, report, mouse_ready, suspended,
                     newest, lost>>
  BY DEF Fetch, board, usb
<1>2. host'.buttons = report.buttons /\ \A a \in Axes : host'.move[a] = host.move[a] + report.move[a]
  BY <1>1
<1>3. TypeOK'
  <2>1. report.buttons \in SUBSET Buttons
    BY DEF TypeOK, Reports
  <2>2. host' \in [buttons : SUBSET Buttons, move : [Axes -> Nat]]
    BY <1>1, <2>1, QueueUnits
  <2> QED
    BY <1>1, <2>2 DEF TypeOK
<1>4. Cleared' /\ Newest'
  BY <1>1, <1>2 DEF Cleared, Newest, LastButtons
<1>5. ASSUME NEW a \in Axes
      PROVE  host'.move[a] + OnTheWay(a)' = host.move[a] + OnTheWay(a)
  BY <1>1, <1>2, QueueUnits DEF OnTheWay
<1>6. MotionConserved'
  BY <1>1, <1>5 DEF MotionConserved
<1> QED
  BY <1>3, <1>4, <1>6

\* The invariant of the mouse: no other step builds, queues or drops a report.
LEMMA MouseHolds == Spec => []MIInv
<1>1. Init => MIInv
  <2> SUFFICES ASSUME Init PROVE MIInv
    OBVIOUS
  <2>1. mouse_msgq = <<>>
    BY DEF Init
  <2>2. mouse_msgq \in Seq(Reports) /\ Len(mouse_msgq) = 0 /\ DOMAIN mouse_msgq = {}
    BY <2>1
  <2>3. /\ mouse_ready \in BOOLEAN /\ suspended \in BOOLEAN
        /\ newest \in BOOLEAN /\ lost \in BOOLEAN
    BY Zenon DEF Init
  <2>4. Still \in [Axes -> {0, Distance}] /\ Still \in [Axes -> Nat]
    BY DEF Still, Distance
  <2>5. TypeOK
    BY <2>2, <2>3, <2>4, QueueAssumption, BoundAssumption
    DEF Init, TypeOK, Reports, Blank
  <2>6. Cleared /\ Newest
    BY DEF Init, Cleared, Newest, LastButtons, Blank
  <2>7. ASSUME NEW a \in Axes
        PROVE  OnTheWay(a) = 0 /\ host.move[a] = 0 /\ presses[a] = 0
    <3>1. Units(mouse_msgq, a) = {}
      BY <2>2, InUnits
    <3>2. Cardinality(Units(mouse_msgq, a)) = 0
      BY <3>1, FS_EmptySet
    <3> QED
      BY <3>2 DEF Init, OnTheWay, Blank, Still
  <2>8. MotionConserved
    BY <2>7 DEF MotionConserved, Init, Distance
  <2> QED
    BY <2>5, <2>6, <2>8 DEF MIInv
<1>2. MIInv /\ [Next]_vars => MIInv'
  <2> SUFFICES ASSUME MIInv, [Next]_vars PROVE MIInv'
    OBVIOUS
  <2>1. ASSUME UNCHANGED <<board, tmp, mouse_msgq, report, lost>>, TypeOK',
               host'.move = host.move, Newest',
               pc' = pc \/ {pc, pc'} \subseteq {"ready", "submit", "blocked"}
        PROVE  MIInv'
    <3>1. Cleared'
      BY <2>1 DEF MIInv, Cleared, board
    <3>2. \A a \in Axes : OnTheWay(a)' = OnTheWay(a)
      BY <2>1 DEF OnTheWay
    <3>3. MotionConserved'
      BY <2>1, <3>2 DEF MIInv, MotionConserved, board
    <3> QED
      BY <2>1, <3>1, <3>3 DEF MIInv
  <2>2. CASE CheckReady \/ Submit
    <3>1. UNCHANGED <<board, tmp, mouse_msgq, report, usb, host>> /\ pc \in {"ready", "submit"}
      BY <2>2 DEF CheckReady, Submit
    <3>2. CASE Discard
      <4>1. newest' \in BOOLEAN /\ lost' \in BOOLEAN
        BY <3>2 DEF Discard, MIInv, TypeOK
      <4> QED
        BY <3>1, <3>2, <4>1, DiscardHolds DEF Discard
    <3>3. CASE pc' \in {"submit", "blocked"} /\ UNCHANGED <<newest, lost>>
      <4>1. TypeOK' /\ Newest'
        BY <3>1, <3>3 DEF MIInv, TypeOK, Newest, LastButtons, board, usb
      <4> QED
        BY <2>1, <3>1, <3>3, <4>1
    <3> QED
      BY <2>2, <3>2, <3>3 DEF CheckReady, Submit
  <2>3. CASE Cancel
    <3>1. newest' \in BOOLEAN /\ lost' \in BOOLEAN
      BY <2>3 DEF Cancel, MIInv, TypeOK
    <3> QED
      BY <2>3, <3>1, DiscardHolds DEF Cancel
  <2>4. CASE Bus
    <3>1. /\ UNCHANGED <<board, tmp, mouse_msgq, report, lost, pc>>
          /\ mouse_ready' \in BOOLEAN /\ suspended' \in BOOLEAN
          /\ \/ UNCHANGED <<host, newest>>
             \/ /\ host' = [host EXCEPT !.buttons = {}]
                /\ newest' = (newest /\ (mouse_msgq # <<>> \/ pc # "get"))
      BY <2>4 DEF Bus, InterfaceReady, InterfaceGone, Suspend, Resume, MIInv, TypeOK
    <3>2. /\ host' \in [buttons : SUBSET Buttons, move : [Axes -> Nat]]
          /\ host'.move = host.move /\ newest' \in BOOLEAN
      BY <3>1 DEF MIInv, TypeOK
    <3>3. TypeOK'
      BY <3>1, <3>2 DEF MIInv, TypeOK, board
    <3>4. Newest'
      BY <3>1 DEF MIInv, Newest, LastButtons
    <3> QED
      BY <2>1, <3>1, <3>2, <3>3, <3>4
  <2>5. CASE UNCHANGED vars
    BY <2>1, <2>5 DEF vars, board, MIInv, TypeOK, Newest, LastButtons
  <2> QED
    BY <2>2, <2>3, <2>4, <2>5, InputEdgeHolds, MouseTakeHolds, FetchHolds
    DEF Next, Main, Stack
<1> QED
  BY <1>1, <1>2, PTL DEF Spec

\* Every variable of the mouse keeps its type: no report carries more movement
\* than one press of each axis, and the queue never more than its size.
THEOREM MouseTypeCorrect == Spec => []TypeOK
<1>1. MIInv => TypeOK
  BY DEF MIInv
<1> QED
  BY <1>1, MouseHolds, PTL

\* Movement is neither invented by a report that repeats an earlier one, nor
\* lost unless a report was dropped.
THEOREM MotionIsConserved == Spec => []MotionConserved
<1>1. MIInv => MotionConserved
  BY DEF MIInv
<1> QED
  BY <1>1, MouseHolds, PTL

\* However many reports were dropped, a mouse at rest whose last report got
\* through shows the host the buttons that are held.
THEOREM ButtonsReachHost == Spec => []HostSeesButtons
<1>1. MIInv => HostSeesButtons
  BY DEF MIInv, Cleared, Newest, LastButtons, HostSeesButtons
<1> QED
  BY <1>1, MouseHolds, PTL

(***************************************************************************)
(* The keyboard.                                                           *)
(***************************************************************************)

KeyEvent == [code : Keyboard!AllKeys, value : BOOLEAN]

\* Event i of the queue is the last one of key k.
LastOf(k, i) ==
    /\ i \in DOMAIN kb_msgq /\ kb_msgq[i].code = k
    /\ \A j \in DOMAIN kb_msgq : kb_msgq[j].code = k => j <= i

\* The queue and the report together know every key that missed no edge: the
\* last event of a key says how it is held, and a key without an event is in
\* the report as it is held.
Known ==
    \A k \in Keyboard!AllKeys \ missed :
        /\ \A i \in DOMAIN kb_msgq : LastOf(k, i) => kb_msgq[i].value = (k \in pressed)
        /\ k \in Keys /\ (\A i \in DOMAIN kb_msgq : kb_msgq[i].code # k) =>
               (k \in report <=> k \in pressed)

\* What the host has fetched is the report until the report changes.
Fetched == upToDate => host = report

KIInv == Keyboard!KeyboardTypeOK /\ Known /\ Fetched

\* Adding an event to a queue.
LEMMA PutFacts ==
    ASSUME NEW S, NEW q \in Seq(S), NEW e \in S
    PROVE  /\ Append(q, e) \in Seq(S)
           /\ Len(q) \in Nat /\ Len(Append(q, e)) = Len(q) + 1
           /\ DOMAIN q = 1 .. Len(q) /\ DOMAIN Append(q, e) = 1 .. Len(q)+1
           /\ \A i \in 1 .. Len(q) : Append(q, e)[i] = q[i] /\ q[i] \in S
           /\ Append(q, e)[Len(q)+1] = e
  OBVIOUS

\* A key event is put, or the key is noted as having missed its edge.
LEMMA KeyEdgeHolds ==
    ASSUME NEW k \in Keyboard!AllKeys, KIInv, Keyboard!KeyEdge(k)
    PROVE  KIInv'
<1> USE DEF KIInv
<1>1. /\ pressed' \subseteq Keyboard!AllKeys /\ edges' \in 0 .. MaxEdges
      /\ \A j \in Keyboard!AllKeys \ {k} : (j \in pressed') <=> (j \in pressed)
  BY BoundAssumption DEF Keyboard!KeyEdge, Keyboard!KeyboardTypeOK
<1>2. /\ report' = report /\ pc' = pc /\ press' = press /\ host' = host
      /\ kb_ready' = kb_ready /\ suspended' = suspended /\ wakeup' = wakeup
      /\ upToDate' = upToDate
  BY DEF Keyboard!KeyEdge, Keyboard!usb
<1>3. Fetched'
  BY <1>2 DEF Fetched
<1>4. CASE Len(kb_msgq) < QueueSize
  <2> DEFINE e == [code |-> k, value |-> k \in pressed']
  <2>1. e \in KeyEvent /\ kb_msgq \in Seq(KeyEvent)
    BY DEF KeyEvent, Keyboard!KeyboardTypeOK
  <2>2. kb_msgq' = Append(kb_msgq, e) /\ missed' = missed \ {k}
    BY <1>4 DEF Keyboard!KeyEdge
  <2> HIDE DEF e
  <2>3. /\ kb_msgq' \in Seq(KeyEvent) /\ Len(kb_msgq) \in Nat
        /\ Len(kb_msgq') = Len(kb_msgq) + 1
        /\ DOMAIN kb_msgq = 1 .. Len(kb_msgq) /\ DOMAIN kb_msgq' = 1 .. Len(kb_msgq)+1
        /\ \A i \in 1 .. Len(kb_msgq) : kb_msgq'[i] = kb_msgq[i]
        /\ kb_msgq'[Len(kb_msgq)+1] = e
    BY <2>1, <2>2, PutFacts
  <2>4. Keyboard!KeyboardTypeOK'
    BY <1>1, <1>2, <1>4, <2>2, <2>3, QueueAssumption DEF Keyboard!KeyboardTypeOK, KeyEvent
  <2>5. ASSUME NEW j \in Keyboard!AllKeys \ missed'
        PROVE  /\ \A i \in DOMAIN kb_msgq' :
                      LastOf(j, i)' => kb_msgq'[i].value = (j \in pressed')
               /\ j \in Keys /\ (\A i \in DOMAIN kb_msgq' : kb_msgq'[i].code # j) =>
                      (j \in report' <=> j \in pressed')
    <3>1. CASE j = k
      <4>1. e.code = k /\ e.value = (k \in pressed')
        BY DEF e
      <4>2. Len(kb_msgq)+1 \in DOMAIN kb_msgq'
        BY <2>3
      <4>3. ASSUME NEW i \in DOMAIN kb_msgq', LastOf(k, i)'
            PROVE  i = Len(kb_msgq)+1
        <5>1. Len(kb_msgq)+1 <= i
          BY <2>3, <4>1, <4>2, <4>3 DEF LastOf
        <5> QED
          BY <2>3, <5>1
      <4> QED
        BY <2>3, <3>1, <4>1, <4>2, <4>3
    <3>2. CASE j # k
      <4>1. j \in Keyboard!AllKeys \ missed /\ ((j \in pressed') <=> (j \in pressed))
        BY <1>1, <2>2, <2>5, <3>2
      <4>2. e.code # j
        BY <3>2 DEF e
      <4>3. ASSUME NEW i \in DOMAIN kb_msgq', LastOf(j, i)'
            PROVE  kb_msgq'[i].value = (j \in pressed')
        <5>1. i \in DOMAIN kb_msgq /\ kb_msgq'[i] = kb_msgq[i]
          BY <2>3, <4>2, <4>3 DEF LastOf
        <5>2. LastOf(j, i)
          BY <2>3, <4>3, <5>1 DEF LastOf
        <5>3. kb_msgq[i].value = (j \in pressed)
          BY <4>1, <5>1, <5>2 DEF Known
        <5>4. kb_msgq[i] \in KeyEvent
          BY <2>1, <5>1
        <5> QED
          BY <1>1, <3>2, <4>1, <5>1, <5>3, <5>4 DEF KeyEvent
      <4>4. j \in Keys /\ (\A i \in DOMAIN kb_msgq' : kb_msgq'[i].code # j) =>
                (j \in report' <=> j \in pressed')
        BY <1>2, <2>3, <4>1 DEF Known
      <4> QED
        BY <4>3, <4>4
    <3> QED
      BY <3>1, <3>2
  <2>6. Known'
    BY <2>5 DEF Known
  <2> QED
    BY <1>3, <2>4, <2>6
<1>5. CASE ~(Len(kb_msgq) < QueueSize)
  <2>1. kb_msgq' = kb_msgq /\ missed' = missed \cup {k}
    BY <1>5 DEF Keyboard!KeyEdge
  <2>2. Keyboard!KeyboardTypeOK'
    BY <1>1, <1>2, <2>1 DEF Keyboard!KeyboardTypeOK
  <2>3. Known'
    BY <1>1, <1>2, <2>1 DEF Known, LastOf
  <2> QED
    BY <1>3, <2>2, <2>3
<1> QED
  BY <1>4, <1>5

\* main takes the first event: what it said of its key is now in the report.
LEMMA KeyTakeHolds == KIInv /\ Keyboard!Take => KIInv'
<1> SUFFICES ASSUME KIInv, Keyboard!Take PROVE KIInv'
  OBVIOUS
<1> USE DEF KIInv
<1> DEFINE e == Head(kb_msgq)
<1>1. /\ kb_msgq # <<>> /\ report' = Keyboard!Applied(e) /\ press' = e.value
      /\ pc' = (IF e.code \in Keys THEN "ready" ELSE "get")
      /\ upToDate' = (upToDate /\ e.code \notin Keys)
      /\ kb_msgq' = Tail(kb_msgq)
      /\ pressed' = pressed /\ edges' = edges /\ host' = host /\ missed' = missed
      /\ kb_ready' = kb_ready /\ suspended' = suspended /\ wakeup' = wakeup
  BY DEF Keyboard!Take, Keyboard!board, Keyboard!usb
<1>2. /\ e \in KeyEvent /\ e = kb_msgq[1] /\ kb_msgq' \in Seq(KeyEvent)
      /\ Len(kb_msgq) \in Nat /\ Len(kb_msgq) >= 1 /\ Len(kb_msgq') = Len(kb_msgq) - 1
      /\ DOMAIN kb_msgq = 1 .. Len(kb_msgq) /\ DOMAIN kb_msgq' = 1 .. Len(kb_msgq)-1
      /\ \A i \in 1 .. Len(kb_msgq)-1 : kb_msgq'[i] = kb_msgq[i+1]
  <2>1. kb_msgq \in Seq(KeyEvent)
    BY DEF Keyboard!KeyboardTypeOK, KeyEvent
  <2> QED
    BY <1>1, <2>1, TakeFacts
<1> HIDE DEF e
<1>3. e.code \in Keyboard!AllKeys /\ e.value \in BOOLEAN
  BY <1>2 DEF KeyEvent
<1>4. Keyboard!KeyboardTypeOK'
  <2>1. report' \subseteq Keys
    BY <1>1 DEF Keyboard!Applied, Keyboard!KeyboardTypeOK
  <2>2. Len(kb_msgq') <= QueueSize
    BY <1>2, QueueAssumption DEF Keyboard!KeyboardTypeOK
  <2>3. press' \in BOOLEAN /\ upToDate' \in BOOLEAN
    BY <1>1, <1>3 DEF Keyboard!KeyboardTypeOK
  <2> QED
    BY <1>1, <1>2, <2>1, <2>2, <2>3 DEF Keyboard!KeyboardTypeOK, KeyEvent
<1>5. Fetched'
  BY <1>1 DEF Fetched, Keyboard!Applied
<1>6. ASSUME NEW j \in Keyboard!AllKeys \ missed, NEW i \in DOMAIN kb_msgq', LastOf(j, i)'
      PROVE  kb_msgq'[i].value = (j \in pressed)
  <2>1. i+1 \in DOMAIN kb_msgq /\ kb_msgq'[i] = kb_msgq[i+1]
    BY <1>2
  <2>2. ASSUME NEW n \in DOMAIN kb_msgq, kb_msgq[n].code = j
        PROVE  n <= i+1
    <3>1. CASE n = 1
      BY <1>2, <3>1
    <3>2. CASE n # 1
      <4>1. n-1 \in DOMAIN kb_msgq' /\ kb_msgq'[n-1] = kb_msgq[n]
        BY <1>2, <3>2
      <4>2. n-1 <= i
        BY <1>6, <2>2, <4>1 DEF LastOf
      <4> QED
        BY <1>2, <4>2
    <3> QED
      BY <3>1, <3>2
  <2>3. LastOf(j, i+1)
    BY <1>6, <2>1, <2>2 DEF LastOf
  <2> QED
    BY <2>1, <2>3 DEF Known
<1>7. ASSUME NEW j \in Keyboard!AllKeys \ missed, j \in Keys,
             \A i \in DOMAIN kb_msgq' : kb_msgq'[i].code # j
      PROVE  j \in report' <=> j \in pressed
  <2>1. ASSUME NEW n \in DOMAIN kb_msgq, n # 1
        PROVE  kb_msgq[n].code # j
    <3>1. n-1 \in DOMAIN kb_msgq' /\ kb_msgq'[n-1] = kb_msgq[n]
      BY <1>2, <2>1
    <3> QED
      BY <1>7, <3>1
  <2>2. CASE e.code = j
    <3>1. 1 \in DOMAIN kb_msgq /\ kb_msgq[1].code = j
      BY <1>2, <2>2
    <3>2. ASSUME NEW n \in DOMAIN kb_msgq, kb_msgq[n].code = j
          PROVE  n <= 1
      BY <2>1, <3>2
    <3>3. LastOf(j, 1)
      BY <3>1, <3>2 DEF LastOf
    <3>4. e.value = (j \in pressed)
      BY <1>2, <3>1, <3>3 DEF Known
    <3>5. j \in report' <=> e.value
      BY <1>1, <1>3, <1>7, <2>2 DEF Keyboard!Applied
    <3> QED
      BY <1>3, <3>4, <3>5
  <2>3. CASE e.code # j
    <3>1. \A n \in DOMAIN kb_msgq : kb_msgq[n].code # j
      BY <1>2, <2>1, <2>3
    <3>2. j \in report <=> j \in pressed
      BY <1>7, <3>1 DEF Known
    <3> QED
      BY <1>1, <2>3, <3>2 DEF Keyboard!Applied
  <2> QED
    BY <2>2, <2>3
<1>8. Known'
  BY <1>1, <1>6, <1>7 DEF Known
<1> QED
  BY <1>4, <1>5, <1>8

\* No other step changes what is held, queued or reported.
LEMMA KeyboardHolds == Keyboard!Spec => []KIInv
<1>1. Keyboard!Init => KIInv
  <2> SUFFICES ASSUME Keyboard!Init PROVE KIInv
    OBVIOUS
  <2>1. kb_msgq = <<>>
    BY DEF Keyboard!Init
  <2>2. kb_msgq \in Seq(KeyEvent) /\ Len(kb_msgq) = 0 /\ DOMAIN kb_msgq = {}
    BY <2>1
  <2>3. /\ press \in BOOLEAN /\ kb_ready \in BOOLEAN /\ suspended \in BOOLEAN
        /\ wakeup \in BOOLEAN /\ upToDate \in BOOLEAN
    BY Zenon DEF Keyboard!Init
  <2>4. Keyboard!KeyboardTypeOK
    BY <2>2, <2>3, QueueAssumption, BoundAssumption
    DEF Keyboard!Init, Keyboard!KeyboardTypeOK, KeyEvent
  <2>5. Known
    BY <2>2 DEF Keyboard!Init, Known
  <2>6. Fetched
    BY DEF Keyboard!Init, Fetched
  <2> QED
    BY <2>4, <2>5, <2>6 DEF KIInv
<1>2. KIInv /\ [Keyboard!Next]_Keyboard!vars => KIInv'
  <2> SUFFICES ASSUME KIInv, [Keyboard!Next]_Keyboard!vars PROVE KIInv'
    OBVIOUS
  <2>1. ASSUME UNCHANGED <<pressed, kb_msgq, report, missed>>, Keyboard!KeyboardTypeOK', Fetched'
        PROVE  KIInv'
    BY <2>1 DEF KIInv, Known, LastOf
  <2>2. CASE Keyboard!CheckReady \/ Keyboard!CheckSuspended \/ Keyboard!Submit \/ Keyboard!Cancel
    <3>1. /\ UNCHANGED <<pressed, kb_msgq, report, missed>>
          /\ UNCHANGED <<upToDate, host, press, kb_ready, suspended, edges>>
          /\ pc' \in {"get", "bus", "submit", "blocked"}
      BY <2>2 DEF Keyboard!CheckReady, Keyboard!CheckSuspended, Keyboard!Submit,
                  Keyboard!Cancel, Keyboard!board, Keyboard!usb, Keyboard!history
    <3>2. wakeup' \in BOOLEAN
      BY <2>2 DEF KIInv, Keyboard!KeyboardTypeOK, Keyboard!CheckReady,
                  Keyboard!CheckSuspended, Keyboard!Submit, Keyboard!Cancel,
                  Keyboard!usb
    <3> QED
      BY <2>1, <3>1, <3>2 DEF KIInv, Keyboard!KeyboardTypeOK, Fetched
  <2>3. CASE Keyboard!Fetch
    BY <2>1, <2>3 DEF Keyboard!Fetch, KIInv, Keyboard!KeyboardTypeOK, Fetched, Keyboard!board,
                      Keyboard!usb
  <2>4. CASE Keyboard!Bus
    <3>1. /\ UNCHANGED <<pressed, kb_msgq, report, missed, pc, press, edges>>
          /\ \/ UNCHANGED <<host, upToDate>>
             \/ host' = {} /\ upToDate' = FALSE
      BY <2>4 DEF Keyboard!Bus, Keyboard!InterfaceReady, Keyboard!InterfaceGone,
                  Keyboard!Suspend, Keyboard!Resume, Keyboard!board, Keyboard!history
    <3>2. kb_ready' \in BOOLEAN /\ suspended' \in BOOLEAN /\ wakeup' \in BOOLEAN
      BY <2>4 DEF KIInv, Keyboard!KeyboardTypeOK, Keyboard!Bus, Keyboard!InterfaceReady,
                  Keyboard!InterfaceGone, Keyboard!Suspend, Keyboard!Resume
    <3> QED
      BY <2>1, <3>1, <3>2 DEF KIInv, Keyboard!KeyboardTypeOK, Fetched
  <2>5. CASE UNCHANGED Keyboard!vars
    BY <2>1, <2>5 DEF Keyboard!vars, KIInv, Keyboard!KeyboardTypeOK, Fetched
  <2> QED
    BY <2>2, <2>3, <2>4, <2>5, KeyEdgeHolds, KeyTakeHolds
    DEF Keyboard!Next, Keyboard!Main, Keyboard!Stack
<1> QED
  BY <1>1, <1>2, PTL DEF Keyboard!Spec

\* Every variable of the keyboard keeps its type: the queue never holds more
\* than its size, and no key outside the report ever gets into it.
THEOREM KeyboardTypeCorrect == Keyboard!Spec => []KeyboardTypeOK
<1>1. KIInv => KeyboardTypeOK
  BY DEF KIInv, KeyboardTypeOK, AllKeys, Keyboard!KeyboardTypeOK, Keyboard!AllKeys
<1> QED
  BY <1>1, KeyboardHolds, PTL

\* Whatever was unplugged, suspended or submitted in vain, a keyboard at rest
\* whose last report was fetched shows the host the keys that are held, but for
\* keys whose last edge found the queue full.
THEOREM KeysReachHost == Keyboard!Spec => []HostSeesKeys
<1>1. KIInv => HostSeesKeys
  <2> SUFFICES ASSUME KIInv, kb_msgq = <<>>, upToDate, NEW k \in Keys \ missed
               PROVE  k \in host <=> k \in pressed
    BY DEF HostSeesKeys
  <2>1. k \in Keyboard!AllKeys \ missed /\ DOMAIN kb_msgq = {}
    BY DEF Keyboard!AllKeys
  <2>2. k \in report <=> k \in pressed
    BY <2>1 DEF KIInv, Known
  <2> QED
    BY <2>2 DEF KIInv, Fetched
<1> QED
  BY <1>1, KeyboardHolds, PTL

(***************************************************************************)
(* The counter.                                                            *)
(***************************************************************************)

\* What is assumed of the two sizes (PeriodAssumption, WrapAssumption).
CounterSizes == Period \in Nat \ {0} /\ Wrap \in Nat /\ Wrap > Period

\* Quotient and remainder are the ones that fit.
LEMMA DivFacts ==
    ASSUME NEW p \in Nat \ {0}, NEW q \in Nat, NEW k \in Nat, k < p
    PROVE  (p*q + k) \div p = q /\ (p*q + k) % p = k
<1> DEFINE n == p*q + k
           d == n \div p
<1>1. \A x, y \in Nat : p*(x+1+y) = p*x + p + p*y /\ p*x \in Nat /\ p*y \in Nat
  OBVIOUS
<1>2. n \in Nat
  BY <1>1
<1>3. d \in Nat /\ p*d <= n /\ n < p*(d+1) /\ n % p = n - p*d
  <2> HIDE DEF n
  <2> QED
    BY <1>2
<1>4. p*(d+1) = p*d + p /\ p*d \in Nat /\ p*q \in Nat
  <2> HIDE DEF d, n
  <2> QED
    BY <1>1, <1>3
<1>5. ASSUME NEW x \in Nat, NEW y \in Nat, x < y
      PROVE  p*x + p <= p*y
  <2>1. PICK z \in Nat : y = x+1+z
    <3>1. y-x-1 \in Nat
      BY <1>5
    <3> QED
      BY <3>1
  <2>2. p*y = p*x + p + p*z /\ p*z \in Nat /\ p*x \in Nat
    BY <1>1, <2>1
  <2> DEFINE u == p*x
             v == p*y
             w == p*z
  <2>3. v = u + p + w /\ u \in Nat /\ w \in Nat
    BY <2>2
  <2> HIDE DEF u, v, w
  <2>4. u + p <= v
    BY <2>3
  <2> QED
    BY <2>4 DEF u, v
<1> DEFINE u == p*q
           v == p*d
<1>6. n = u + k /\ v <= n /\ n < v + p /\ u \in Nat /\ v \in Nat
  BY <1>3, <1>4
<1>7. (d < q => v + p <= u) /\ (q < d => u + p <= v)
  <2> HIDE DEF n
  <2>1. d \in Nat /\ q \in Nat
    BY <1>3
  <2> QED
    BY <1>5, <2>1
<1>8. d = q
  <2> HIDE DEF u, v, n, d
  <2> QED
    BY <1>3, <1>6, <1>7
<1>9. n % p = n - v /\ u = v
  BY <1>3, <1>8
<1>10. n % p = k
  <2> HIDE DEF u, v, n, d
  <2> QED
    BY <1>6, <1>9
<1> QED
  BY <1>8, <1>10

\* One step further, the remainder starts over or the quotient stays.
LEMMA NextFacts ==
    ASSUME NEW p \in Nat \ {0}, NEW n \in Nat
    PROVE  /\ n % p \in 0 .. p-1 /\ n \div p \in Nat
           /\ (n+1) % p = IF n % p = p-1 THEN 0 ELSE (n % p) + 1
           /\ n % p # p-1 => (n+1) \div p = n \div p
<1> DEFINE q == n \div p
           k == n % p
<1>1. q \in Nat /\ k \in 0 .. p-1 /\ k = n - p*q
  OBVIOUS
<1>2. p*q \in Nat /\ p*(q+1) = p*q + p
  <2> HIDE DEF q
  <2> QED
    BY <1>1
<1> DEFINE u == p*q
<1>3. n = u + k /\ u \in Nat
  <2>1. u \in Nat /\ k = n - u
    BY <1>1, <1>2
  <2> HIDE DEF u, k
  <2> QED
    BY <1>1, <2>1
<1>4. CASE k = p-1
  <2>1. n+1 = p*(q+1) + 0
    <3>1. u + p = p*(q+1)
      BY <1>2
    <3>2. n+1 = u + p
      <4> HIDE DEF u, k
      <4> QED
        BY <1>3, <1>4
    <3> HIDE DEF q
    <3> QED
      BY <1>1, <3>1, <3>2
  <2>2. q+1 \in Nat /\ 0 \in Nat /\ 0 < p
    BY <1>1
  <2>3. (p*(q+1) + 0) % p = 0
    <3> HIDE DEF q
    <3> QED
      BY <2>2, DivFacts
  <2> QED
    BY <1>1, <1>4, <2>1, <2>3
<1>5. CASE k # p-1
  <2>1. k+1 \in Nat /\ k+1 < p
    <3> HIDE DEF k
    <3> QED
      BY <1>1, <1>5
  <2>2. n+1 = p*q + (k+1)
    <3>1. n+1 = u + (k+1)
      <4> HIDE DEF u, k
      <4> QED
        BY <1>1, <1>3
    <3> QED
      BY <3>1
  <2>3. (p*q + (k+1)) \div p = q /\ (p*q + (k+1)) % p = k+1
    <3> HIDE DEF q, k
    <3> QED
      BY <1>1, <2>1, DivFacts
  <2> QED
    BY <1>1, <1>5, <2>2, <2>3
<1> QED
  BY <1>4, <1>5

\* Incrementing modulo w, and what the number was before.
LEMMA WrapFacts ==
    ASSUME NEW w \in Nat, w > 1, NEW n \in 0 .. w-1
    PROVE  /\ (n+1) % w = IF n+1 = w THEN 0 ELSE n+1
           /\ (((n+1) % w) + w-1) % w = n
<1>1. (n+1) % w = IF n+1 = w THEN 0 ELSE n+1
  OBVIOUS
<1>2. CASE n+1 = w
  BY <1>1, <1>2
<1>3. CASE n+1 # w
  <2>1. (w*1 + n) % w = n
    BY DivFacts
  <2>2. ((n+1) % w) + w-1 = w*1 + n
    BY <1>1, <1>3
  <2> QED
    BY <1>1, <2>1, <2>2
<1> QED
  BY <1>1, <1>2, <1>3

Places == {"start", "widgets", "check", "handle", "load", "store", "sleep", "ended"}

\* The counter and its histories are numbers; ++count stores what it loaded.
Counted ==
    /\ CounterSizes
    /\ place \in Places
    /\ count \in 0 .. Wrap-1 /\ loaded \in 0 .. Wrap-1 /\ elapsed \in 0 .. Wrap-1
    /\ age \in Nat /\ reset \in BOOLEAN /\ undone \in BOOLEAN
    /\ place = "store" /\ ~undone => loaded = count
    /\ CountsFromReset

\* Before the loop nothing is counted.  A label that is not set in this round
\* was set within as many rounds as count is past a full second.
Aged ==
    /\ place \in {"start", "widgets"} => count = 0
    /\ place = "check" => count % Period = 0 \/ age <= count % Period
    /\ place \in {"handle", "load"} => age <= count % Period
    /\ place = "store" => age <= loaded % Period
    /\ place = "sleep" => age <= Period /\ (count % Period = 0 \/ age <= count % Period)

\* Unless count was reset since, the label shows the second of count, or of
\* the value that ++count loaded.
Labelled ==
    ~reset =>
        /\ place = "check" => count % Period = 0 \/ label = count \div Period
        /\ place \in {"handle", "load"} => label = count \div Period
        /\ place = "store" => label = loaded \div Period
        /\ place = "sleep" => /\ label = ((count + Wrap-1) % Wrap) \div Period
                              /\ count % Period = 0 \/ label = count \div Period

CIInv == Counted /\ Aged /\ Labelled

\* The remainder of a reset counter.
LEMMA ZeroFacts ==
    CounterSizes => 0 % Period = 0 /\ \A n \in Nat : n % Period \in 0 .. Period-1
  BY DEF CounterSizes

\* count is reset, by the button or by a click, between two steps of main.
LEMMA ResetHolds ==
    ASSUME CIInv, Counter!ResetTo0, undone' \in BOOLEAN, place' \in Places, UNCHANGED loaded,
           place' = "store" => undone'
    PROVE  CIInv'
<1>1. CounterSizes
  BY DEF CIInv, Counted
<1>2. count' = 0 /\ elapsed' = 0 /\ age' = 0 /\ reset' = TRUE
  BY DEF Counter!ResetTo0
<1>3. Counted'
  BY <1>2 DEF CounterSizes, CIInv, Counted, CountsFromReset
<1>4. Aged'
  <2>1. count' % Period = 0
    BY <1>2, ZeroFacts DEF CIInv, Counted
  <2>2. loaded' % Period \in Nat
    <3>1. loaded' \in Nat
      BY DEF CounterSizes, CIInv, Counted
    <3> QED
      BY <3>1, ZeroFacts DEF CIInv, Counted
  <2> QED
    BY <1>1, <1>2, <2>1, <2>2 DEF CounterSizes, Aged
<1>5. Labelled'
  BY <1>2 DEF Labelled
<1> QED
  BY <1>3, <1>4, <1>5 DEF CIInv

\* ++count stores its result.
LEMMA StoreHolds == CIInv /\ Counter!Store => CIInv'
<1> SUFFICES ASSUME CIInv, Counter!Store PROVE CIInv'
  OBVIOUS
<1>1. CounterSizes
  BY DEF CIInv, Counted
<1>2. /\ place = "store" /\ place' = "sleep" /\ age' = age+1
      /\ count' = (loaded+1) % Wrap /\ elapsed' = (elapsed+1) % Wrap
      /\ UNCHANGED <<loaded, label, undone, reset>>
  BY DEF Counter!Store
<1>3. /\ loaded \in 0 .. Wrap-1 /\ loaded \in Nat /\ elapsed \in 0 .. Wrap-1
      /\ age \in Nat /\ age <= loaded % Period
      /\ Wrap \in Nat /\ Wrap > 1
  BY <1>2 DEF CounterSizes, CIInv, Counted, Aged
<1>4. /\ count' = (IF loaded+1 = Wrap THEN 0 ELSE loaded+1)
      /\ (count' + Wrap-1) % Wrap = loaded
      /\ elapsed' = (IF elapsed+1 = Wrap THEN 0 ELSE elapsed+1)
  BY <1>2, <1>3, WrapFacts
<1>5. Counted'
  <2>1. place' \in Places
    BY <1>2 DEF Places
  <2>2. CountsFromReset'
    BY <1>2 DEF CIInv, Counted, CountsFromReset
  <2>3. reset' \in BOOLEAN /\ undone' \in BOOLEAN
    BY <1>2 DEF CIInv, Counted
  <2> QED
    BY <1>1, <1>2, <1>3, <1>4, <2>1, <2>2, <2>3 DEF Counted
<1>6. /\ loaded % Period \in 0 .. Period-1
      /\ (loaded+1) % Period = IF loaded % Period = Period-1 THEN 0 ELSE (loaded % Period) + 1
      /\ loaded % Period # Period-1 => (loaded+1) \div Period = loaded \div Period
  BY <1>1, <1>3, NextFacts DEF CounterSizes
<1>7. \/ count' % Period = 0
      \/ count' % Period = (loaded % Period) + 1 /\ count' \div Period = loaded \div Period
  <2>1. CASE count' = 0
    BY <2>1, ZeroFacts DEF CIInv, Counted
  <2>2. CASE count' = loaded+1
    BY <1>6, <2>2
  <2> QED
    BY <1>4, <2>1, <2>2
<1>8. Aged'
  BY <1>1, <1>2, <1>3, <1>6, <1>7 DEF CounterSizes, Aged
<1>9. Labelled'
  BY <1>2, <1>4, <1>7 DEF CIInv, Labelled
<1> QED
  BY <1>5, <1>8, <1>9 DEF CIInv

\* The other steps of main neither count nor reset.
LEMMA CounterStepHolds == CIInv /\ [Counter!Next]_Counter!vars => CIInv'
<1> SUFFICES ASSUME CIInv, [Counter!Next]_Counter!vars PROVE CIInv'
  OBVIOUS
<1>1. CASE Counter!SetUpButton \/ Counter!SetUpWidgets \/ Counter!Return
  <2>1. /\ place \in {"start", "widgets"} /\ place' \in {"widgets", "check", "ended"}
        /\ UNCHANGED <<count, loaded, label, Counter!history>>
    BY <1>1 DEF Counter!SetUpButton, Counter!SetUpWidgets, Counter!Return
  <2>2. count = 0 /\ count % Period = 0
    BY <2>1, ZeroFacts DEF CIInv, Counted, Aged
  <2> QED
    BY <2>1, <2>2 DEF CIInv, Counted, CountsFromReset, Places, Aged, Labelled,
                      Counter!history
<1>2. CASE Counter!SetLabel
  <2>1. /\ place = "check" /\ place' = "handle" /\ count % Period = 0
        /\ label' = count \div Period /\ age' = 0 /\ reset' = FALSE
        /\ UNCHANGED <<count, loaded, elapsed, undone>>
    BY <1>2 DEF Counter!SetLabel, Counter!SecondOver
  <2>2. Counted'
    BY <2>1 DEF CIInv, Counted, CountsFromReset, Places
  <2>3. Aged'
    BY <2>1 DEF Aged
  <2>4. Labelled'
    BY <2>1 DEF Labelled
  <2> QED
    BY <2>2, <2>3, <2>4 DEF CIInv
<1>3. CASE Counter!LeaveLabel
  <2>1. /\ place = "check" /\ place' = "handle" /\ count % Period # 0
        /\ UNCHANGED <<count, loaded, label, Counter!history>>
    BY <1>3 DEF Counter!LeaveLabel, Counter!SecondOver
  <2> QED
    BY <2>1 DEF CIInv, Counted, CountsFromReset, Places, Aged, Labelled,
                Counter!history
<1>4. CASE Counter!Handle
  <2>1. place = "handle" /\ place' = "load" /\ UNCHANGED <<loaded, label>>
    BY <1>4 DEF Counter!Handle
  <2>2. CASE click
    <3>1. Counter!ResetTo0 /\ undone' \in BOOLEAN
      BY <1>4, <2>2 DEF Counter!Handle
    <3> QED
      BY <2>1, <3>1, ResetHolds DEF Places
  <2>3. CASE ~click
    <3>1. UNCHANGED <<count, Counter!history>>
      BY <1>4, <2>3 DEF Counter!Handle
    <3> QED
      BY <2>1, <3>1 DEF CIInv, Counted, CountsFromReset, Places, Aged,
                        Labelled, Counter!history
  <2> QED
    BY <2>2, <2>3
<1>5. CASE Counter!Load
  <2>1. /\ place = "load" /\ place' = "store" /\ loaded' = count
        /\ UNCHANGED <<count, label, Counter!history>>
    BY <1>5 DEF Counter!Load
  <2> QED
    BY <2>1 DEF CIInv, Counted, CountsFromReset, Places, Aged, Labelled,
                Counter!history
<1>6. CASE Counter!Wake
  <2>1. /\ place = "sleep" /\ place' = "check"
        /\ UNCHANGED <<count, loaded, label, Counter!history>>
    BY <1>6 DEF Counter!Wake
  <2> QED
    BY <2>1 DEF CIInv, Counted, CountsFromReset, Places, Aged, Labelled,
                Counter!history
<1>7. CASE Counter!button_isr_callback
  <2>1. Counter!ResetTo0 /\ place' = place /\ loaded' = loaded /\ (undone' <=> place = "store") /\ undone' \in BOOLEAN
    BY <1>7 DEF Counter!button_isr_callback
  <2> QED
    BY <2>1, ResetHolds DEF CIInv, Counted
<1>8. CASE Counter!Click \/ UNCHANGED Counter!vars
  <2>1. UNCHANGED <<place, count, loaded, label, Counter!history>>
    BY <1>8 DEF Counter!Click, Counter!vars, Counter!history
  <2> QED
    BY <2>1 DEF CIInv, Counted, CountsFromReset, Aged, Labelled, Counter!history
<1> QED
  BY <1>1, <1>2, <1>3, <1>4, <1>5, <1>6, <1>7, <1>8, StoreHolds
  DEF Counter!Next, Counter!Main

\* The invariant of the counter.
LEMMA CounterHolds == Counter!Spec => []CIInv
<1>1. Counter!Init => CIInv
  <2> SUFFICES ASSUME Counter!Init PROVE CIInv
    OBVIOUS
  <2>1. undone \in BOOLEAN /\ reset \in BOOLEAN
    BY Zenon DEF Counter!Init
  <2>2. Counted
    BY <2>1, PeriodAssumption, WrapAssumption
    DEF CounterSizes, Counter!Init, Counted, CountsFromReset, Places
  <2>3. Aged /\ Labelled
    BY DEF Counter!Init, Aged, Labelled
  <2> QED
    BY <2>2, <2>3 DEF CIInv
<1> QED
  BY <1>1, CounterStepHolds, PTL DEF Counter!Spec

\* count is the number of rounds since the last reset, unless that reset hit
\* between the load and the store of an increment.
THEOREM CountIsSinceReset == Counter!Spec => []CountsFromReset
<1>1. CIInv => CountsFromReset
  BY DEF CIInv, Counted
<1> QED
  BY <1>1, CounterHolds, PTL

\* While main sleeps the label shows the second of the round just shown, unless
\* count was reset since, and it is never older than a second.
THEOREM LabelIsCurrent == Counter!Spec => []LabelKeepsUp
<1>1. CIInv => LabelKeepsUp
  BY DEF CIInv, Aged, Labelled, LabelKeepsUp
<1> QED
  BY <1>1, CounterHolds, PTL
=============================================================================
