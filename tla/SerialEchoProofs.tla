-------------------------- MODULE SerialEchoProofs --------------------------
(***************************************************************************)
(* Proofs about the serial echo programs (SerialEcho), for any lengths of  *)
(* the lines and any times, as long as the wait before the RS-485          *)
(* transceiver is turned back is two byte times.                           *)
(***************************************************************************)
EXTENDS SerialEcho, TLAPS

USE LinesAssumption, BytesAssumption, TicksAssumption, LengthsAssumption

\* A line of text is a sequence of bytes, and has its length.
LEMMA TextFacts ==
    ASSUME NEW n \in Nat
    PROVE  TextOf(n) \in Seq(Bytes) /\ Len(TextOf(n)) = n
  BY DEF TextOf, Bytes

\* The answer to a byte is one or two bytes, on RS-485 one.
LEMMA EchoFacts ==
    ASSUME NEW b \in Bytes
    PROVE  /\ EchoOf(b) \in Seq(Bytes)
           /\ Len(EchoOf(b)) \in 1..2
           /\ line = "rs485" => Len(EchoOf(b)) = 1
<1> DEFINE cr == IF b \in Newlines THEN Cr ELSE Text
<1>1. Cr \in Bytes /\ Text \in Bytes
  BY DEF Bytes
<1>2. <<b>> \in Seq(Bytes) /\ Len(<<b>>) = 1
  OBVIOUS
<1>3. <<cr, b>> \in Seq(Bytes) /\ Len(<<cr, b>>) = 2
  BY <1>1
<1>4. CASE line = "rs485"
  BY <1>2, <1>4 DEF EchoOf
<1>5. CASE line # "rs485" /\ b \in Newlines
  BY <1>3, <1>5 DEF EchoOf
<1>6. CASE line # "rs485" /\ b \notin Newlines
  BY <1>2, <1>3, <1>6 DEF EchoOf
<1> QED
  BY <1>4, <1>5, <1>6

\* The times are numbers.
LEMMA TimeFacts ==
    LongestTurn \in Nat /\ TurnAround \in Nat
  BY DEF LongestTurn, TurnAround

\* Every variable has its type, and main waits only where it sleeps.
THEOREM TypeCorrect == Spec => []TypeOK
<1>1. Init => TypeOK
  <2> SUFFICES ASSUME Init
               PROVE  TypeOK
    OBVIOUS
  <2>1. 0 \in 0..PingTicks /\ 0 \in 0..LongestTurn+1 /\ 0 \in 0..MaxBytes
    BY TimeFacts
  <2>2. todo \in Seq(Bytes) /\ echoed \in Seq({Cr} \cup Told)
    BY DEF Init
  <2>3. {tdr, shift, rdr} \subseteq Bytes \cup {Empty}
    BY DEF Init
  <2>4. sending \in BOOLEAN /\ turned \in BOOLEAN /\ heard \in BOOLEAN
    BY DEF Init
  <2> QED
    BY <2>1, <2>2, <2>3, <2>4 DEF Init, TypeOK
<1>2. TypeOK /\ [Next]_vars => TypeOK'
  <2> SUFFICES ASSUME TypeOK, [Next]_vars
               PROVE  TypeOK'
    OBVIOUS
  <2> USE DEF wires, peer
  <2>1. ASSUME NEW bytes \in Seq(Bytes), NEW next \in {"loop", "poll", "rest"},
               Send(bytes, next), wait = 0, since' \in 0..PingTicks, rdr' \in {rdr, Empty},
               UNCHANGED <<line, tdr, shift, peer, echoed>>
        PROVE  TypeOK'
    <3>1. LongestTurn' = LongestTurn
      BY <2>1 DEF LongestTurn, TurnAround
    <3>2. CASE line = "rs485"
      BY <2>1, <3>1, <3>2 DEF Send, TypeOK
    <3>3. CASE line # "rs485"
      BY <2>1, <3>1, <3>3 DEF Send, TypeOK
    <3> QED
      BY <3>2, <3>3
  <2>2. ASSUME UNCHANGED line
        PROVE  LongestTurn' = LongestTurn
    BY <2>2 DEF LongestTurn, TurnAround
  <2>3. CASE Main
    <3>1. CASE Greet
      BY <3>1, <2>1, TextFacts DEF Greet, TypeOK
    <3>2. CASE EnterLoop
      BY <3>2, <2>2 DEF EnterLoop, TypeOK
    <3>3. CASE Echo
      <4>1. rdr \in Bytes
        BY <3>3 DEF Echo, TypeOK
      <4> QED
        BY <3>3, <4>1, <2>1, EchoFacts DEF Echo, TypeOK
    <3>4. CASE NothingToEcho
      BY <3>4, <2>2 DEF NothingToEcho, TypeOK
    <3>5. CASE Ping
      BY <3>5, <2>1, TextFacts DEF Ping, TypeOK
    <3>6. CASE NoPing
      BY <3>6, <2>2 DEF NoPing, TypeOK
    <3>7. CASE Rest
      BY <3>7, <2>2 DEF Rest, Sleep, TypeOK
    <3>8. CASE Wake
      BY <3>8, <2>2 DEF Wake, TypeOK
    <3>9. CASE Turned
      BY <3>9, <2>2 DEF Turned, TypeOK
    <3>10. CASE PollOut
      <4>1. Head(todo) \in Bytes /\ Tail(todo) \in Seq(Bytes)
        BY <3>10 DEF PollOut, TypeOK
      <4> QED
        BY <3>10, <4>1, <2>2 DEF PollOut, TypeOK
    <3>11. CASE PutDone
      BY <3>11, <2>2 DEF PutDone, Sleep, TypeOK
    <3>12. CASE Drained
      <4>1. pc' \in {"loop", "poll", "rest"} /\ wait' = 0
        BY <3>12 DEF Drained, TypeOK
      <4>2. sending' \in BOOLEAN /\ turned' \in BOOLEAN
        BY <3>12 DEF Drained
      <4> QED
        BY <3>12, <4>1, <4>2, <2>2 DEF Drained, TypeOK
    <3> QED
      BY <2>3, <3>1, <3>2, <3>3, <3>4, <3>5, <3>6, <3>7, <3>8, <3>9, <3>10, <3>11,
         <3>12 DEF Main
  <2>4. CASE Return
    BY <2>4, <2>2 DEF Return, TypeOK
  <2>5. CASE Tick
    <3>1. echoed' \in Seq({Cr} \cup Told)
      BY <2>5 DEF Tick, TypeOK
    <3>2. wait' \in Nat /\ (wait' > 0 => pc \in {"turn", "drain", "sleep"})
      BY <2>5 DEF Tick, TypeOK
    <3>3. since' \in 0..PingTicks /\ pause' \in 0..LongestTurn+1
      BY <2>5, TimeFacts DEF Tick, Lowest, TypeOK
    <3> QED
      BY <2>5, <3>1, <3>2, <3>3, <2>2 DEF Tick, TypeOK
  <2>6. CASE PeerSends
    <3>1. sent' \in 0..MaxBytes
      BY <2>6 DEF PeerSends, Lowest, TypeOK
    <3>2. rdr' \in Bytes \cup {Empty}
      BY <2>6 DEF PeerSends, Received, NoiseOf, Bytes, Told, TypeOK
    <3>3. LongestTurn' = LongestTurn /\ 0 \in 0..LongestTurn+1
      BY <2>6, <2>2, TimeFacts DEF PeerSends, TypeOK
    <3> QED
      BY <2>6, <3>1, <3>2, <3>3 DEF PeerSends, TypeOK
  <2>7. CASE UNCHANGED vars
    BY <2>7, <2>2 DEF vars, TypeOK
  <2> QED
    BY <2>3, <2>4, <2>5, <2>6, <2>7 DEF Next
<1> QED
  BY <1>1, <1>2, PTL DEF Spec

(***************************************************************************)
(* What is still in the UART when the transceiver is turned.               *)
(***************************************************************************)

\* Outside of rs485_send_buf nothing is in the UART, and while it sleeps the
\* time left is enough for what is.
Draining ==
    /\ pc \in {"turn", "drain"} => line = "rs485"
    /\ line = "rs485" =>
         /\ pc \in {"turn", "put", "drain"} => sending
         /\ pc \notin {"put", "drain"} => tdr = Empty /\ shift = Empty
         /\ pc = "drain" => /\ tdr # Empty => wait >= 2
                            /\ shift # Empty => wait >= 1

\* The RS-485 transceiver is never turned back with a byte in the UART.
THEOREM LastByteIsOut == Spec => []NothingCutOff
<1>1. Init => Draining
  BY DEF Init, Draining
<1>2. TypeOK /\ Draining /\ [Next]_vars => Draining'
  <2> SUFFICES ASSUME TypeOK, Draining, [Next]_vars
               PROVE  Draining'
    OBVIOUS
  <2> USE DEF Draining, wires, peer
  <2>1. ASSUME NEW bytes, NEW next, Send(bytes, next), UNCHANGED <<line, tdr, shift>>,
               pc \notin {"turn", "put", "drain"}
        PROVE  Draining'
    BY <2>1 DEF Send
  <2>2. CASE Greet \/ Echo \/ Ping
    BY <2>1, <2>2 DEF Greet, Echo, Ping
  <2>3. CASE EnterLoop \/ NothingToEcho \/ NoPing \/ Rest \/ Wake \/ Return
    BY <2>3 DEF EnterLoop, NothingToEcho, NoPing, Rest, Wake, Return
  <2>4. CASE Turned
    BY <2>4 DEF Turned
  <2>5. CASE PollOut
    BY <2>5 DEF PollOut
  <2>6. CASE PutDone
    <3>1. CASE line = "rs485"
      BY <2>6, <3>1 DEF PutDone, Sleep
    <3>2. CASE line # "rs485"
      BY <2>6, <3>2 DEF PutDone, TypeOK
    <3> QED
      BY <3>1, <3>2
  <2>7. CASE Drained
    <3>1. tdr = Empty /\ shift = Empty
      BY <2>7 DEF Drained
    <3>2. pc' \notin {"turn", "put", "drain"}
      BY <2>7 DEF Drained, TypeOK
    <3> QED
      BY <2>7, <3>1, <3>2 DEF Drained
  <2>8. CASE Tick
    <3>1. pc = "drain" => wait > 0 /\ wait' = wait-1
      BY <2>8 DEF Tick, Waits
    <3>2. UNCHANGED <<line, pc, sending>> /\ shift' = tdr /\ tdr' = Empty
      BY <2>8 DEF Tick
    <3>3. wait \in Nat
      BY DEF TypeOK
    <3> QED
      BY <3>1, <3>2, <3>3
  <2>9. CASE PeerSends
    BY <2>9 DEF PeerSends
  <2>10. CASE UNCHANGED vars
    BY <2>10 DEF vars
  <2> QED
    BY <2>2, <2>3, <2>4, <2>5, <2>6, <2>7, <2>8, <2>9, <2>10 DEF Next, Main
<1>3. TypeOK /\ Draining => NothingCutOff
  BY DEF Draining, NothingCutOff, TypeOK
<1> QED
  BY <1>1, <1>2, <1>3, TypeCorrect, PTL DEF Spec

(***************************************************************************)
(* How long a byte waits in the receive register.                          *)
(***************************************************************************)

\* Byte times until main looks at the receive register again, at most.
Nap == IF after = "rest" THEN LoopTicks+1 ELSE 0
Puts == IF todo = <<>> THEN 0 ELSE IF tdr = Empty THEN Len(todo)-1 ELSE Len(todo)
Left ==
    IF pc = "check" THEN LongestTurn
    ELSE IF pc = "turn" THEN wait + Len(todo) + TailTicks+1 + Nap
    ELSE IF pc = "put" THEN Puts + (IF line = "rs485" THEN TailTicks+1 ELSE 0) + Nap
    ELSE IF pc = "drain" THEN wait + Nap
    ELSE IF pc = "rest" THEN LoopTicks+1
    ELSE IF pc = "sleep" THEN wait
    ELSE 0

\* How long the byte in the register has been there, at least.
Age == IF rdr = Empty THEN 0 ELSE pause

\* Together they stay within the time of one round, from the first answer on.
InTime ==
    /\ pc \in {"start", "loop", "ended"} => after = "loop"
    /\ after # "loop" \/ pc = "check" => Age + Left <= LongestTurn

\* What is added up are numbers.
LEMMA SizeFacts ==
    ASSUME TypeOK
    PROVE  /\ LongestTurn \in Nat /\ TurnAround \in Nat
           /\ wait \in Nat /\ pause \in Nat /\ Len(todo) \in Nat
           /\ todo # <<>> => Len(todo) >= 1
           /\ Nap \in Nat /\ Puts \in Nat /\ Left \in Nat /\ Age \in Nat
<1>1. LongestTurn \in Nat /\ TurnAround \in Nat
  BY TimeFacts
<1>2. wait \in Nat /\ pause \in Nat /\ todo \in Seq(Bytes)
  BY <1>1 DEF TypeOK
<1>3. Len(todo) \in Nat /\ (todo # <<>> => Len(todo) >= 1)
  BY <1>2
<1>4. Nap \in Nat
  BY DEF Nap
<1>5. Puts \in Nat
  BY <1>3 DEF Puts
<1>6. Age \in Nat
  BY <1>2 DEF Age
<1>7. Left \in Nat
  BY <1>1, <1>2, <1>3, <1>4, <1>5 DEF Left
<1> QED
  BY <1>1, <1>2, <1>3, <1>4, <1>5, <1>6, <1>7

\* A byte that follows the one before after LongestTurn finds the receive
\* register empty, from the first answer of the program on.
THEOREM PausesSuffice == Spec => []PausedBytesFit
<1>1. Init => InTime
  BY DEF Init, InTime
<1>2. TypeOK /\ InTime /\ [Next]_vars => InTime'
  <2> SUFFICES ASSUME TypeOK, InTime, [Next]_vars
               PROVE  InTime'
    OBVIOUS
  <2> USE DEF wires, peer
  <2>0. /\ LongestTurn \in Nat /\ TurnAround \in Nat
        /\ wait \in Nat /\ pause \in Nat /\ Len(todo) \in Nat
        /\ Nap \in Nat /\ Puts \in Nat /\ Left \in Nat /\ Age \in Nat
    BY SizeFacts
  <2> HIDE BytesAssumption, LinesAssumption
  <2>1. ASSUME UNCHANGED line
        PROVE  LongestTurn' = LongestTurn
    BY <2>1 DEF LongestTurn, TurnAround
  <2>2. ASSUME UNCHANGED <<rdr, pause>>
        PROVE  Age' = Age
    BY <2>2 DEF Age
  <2>3. after \in {"loop", "poll", "rest"}
    BY DEF TypeOK
  <2>fits. ASSUME UNCHANGED line, pc' \notin {"start", "loop", "ended"},
               Age' + Left' <= LongestTurn
        PROVE  InTime'
    BY <2>1, <2>fits DEF InTime
  <2>was. after # "loop" => Age + Left <= LongestTurn
    BY DEF InTime
  <2>4. ASSUME NEW bytes \in Seq(Bytes), NEW next \in {"poll", "rest"}, NEW n \in Nat,
               Send(bytes, next), UNCHANGED line, Age' = 0, n = Len(bytes),
               n + TurnAround + (IF next = "rest" THEN LoopTicks+1 ELSE 0) <= LongestTurn
        PROVE  InTime'
    <3> DEFINE nap == IF next = "rest" THEN LoopTicks+1 ELSE 0
    <3>1. Nap' = nap /\ nap \in Nat
      BY <2>4 DEF Send, Nap
    <3>2. Puts' \in Int /\ Puts' <= n
      BY <2>4 DEF Send, Puts
    <3>3. CASE line = "rs485"
      <4>1. pc' = "turn" /\ wait' = TurnTicks /\ Len(todo') = n
        BY <2>4, <3>3 DEF Send
      <4>2. Left' = TurnTicks + n + TailTicks+1 + nap
        BY <3>1, <4>1 DEF Left
      <4>3. Left' <= LongestTurn
        BY <2>4, <3>3, <4>2 DEF TurnAround
      <4> QED
        BY <2>0, <2>fits, <2>4, <4>1, <4>2, <4>3
    <3>4. CASE line # "rs485"
      <4>1. pc' = "put" /\ line' # "rs485"
        BY <2>4, <3>4 DEF Send
      <4>2. Left' = Puts' + nap
        BY <3>1, <3>2, <4>1 DEF Left
      <4>3. PICK puts \in Int : puts = Puts'
        BY <3>2
      <4>4. puts <= n /\ Left' = puts + nap
        BY <3>2, <4>2, <4>3
      <4>5. Age' + Left' <= LongestTurn
        BY <2>0, <2>4, <3>1, <4>4
      <4> QED
        BY <2>4, <2>fits, <4>1, <4>5
    <3> QED
      BY <3>3, <3>4
  <2>6. ASSUME UNCHANGED <<line, after>>, after = "loop", pc' # "check"
        PROVE  InTime'
    BY <2>6 DEF InTime
  <2>5. ASSUME Age' = Age, Left' \in Int, Left' <= Left, UNCHANGED <<line, after>>,
               pc' \notin {"start", "loop", "ended", "check"}
        PROVE  InTime'
    <3>1. CASE after = "loop"
      BY <2>5, <2>6, <3>1
    <3>2. CASE after # "loop"
      <4>1. Age' + Left' <= LongestTurn
        <5>1. PICK left \in Int : left = Left'
          BY <2>5
        <5>2. left <= Left /\ Age + Left <= LongestTurn
          BY <2>5, <2>was, <3>2, <5>1
        <5>3. Age + left <= LongestTurn
          BY <2>0, <5>2
        <5> QED
          BY <2>5, <5>1, <5>3
      <4> QED
        BY <2>5, <2>fits, <4>1
    <3> QED
      BY <3>1, <3>2
  <2>7. CASE Greet
    BY <2>7 DEF Greet, Send, InTime
  <2>8. CASE EnterLoop \/ Return
    BY <2>6, <2>8 DEF EnterLoop, Return, InTime
  <2>9. CASE Echo
    <3>1. rdr \in Bytes /\ Age' = 0
      BY <2>9 DEF Echo, Age, TypeOK
    <3>2. /\ EchoOf(rdr) \in Seq(Bytes) /\ Len(EchoOf(rdr)) \in Nat
          /\ Len(EchoOf(rdr)) <= 2
      <4>1. /\ EchoOf(rdr) \in Seq(Bytes)
            /\ Len(EchoOf(rdr)) \in 1..2
        BY <3>1, EchoFacts, Zenon
      <4>2. PICK n \in 1..2 : n = Len(EchoOf(rdr))
        BY <4>1, Zenon
      <4>3. n \in Nat /\ n <= 2
        OBVIOUS
      <4> QED
        BY <4>1, <4>2, <4>3, Zenon
    <3>3. Len(EchoOf(rdr)) + TurnAround <= LongestTurn
      BY <2>0, <3>2 DEF LongestTurn
    <3> QED
      BY <2>0, <2>4, <2>9, <3>1, <3>2, <3>3 DEF Echo
  <2>10. CASE NothingToEcho
    <3>1. pc' = "check" /\ Age' = 0 /\ UNCHANGED line
      BY <2>10 DEF NothingToEcho, Age
    <3> QED
      BY <2>0, <2>1, <3>1 DEF InTime, Left
  <2>11. ASSUME pc = "check"
         PROVE  Age = 0
    BY <2>0, <2>11 DEF InTime, Left
  <2>12. CASE Ping
    <3>1. Age' = 0
      BY <2>2, <2>11, <2>12 DEF Ping, Send
    <3>2. /\ TextOf(PingLength) \in Seq(Bytes)
          /\ Len(TextOf(PingLength)) = PingLength
      BY TextFacts
    <3>3. PingLength + TurnAround + (LoopTicks+1) <= LongestTurn
      BY <2>0 DEF LongestTurn
    <3> QED
      BY <2>4, <2>12, <3>1, <3>2, <3>3 DEF Ping
  <2>13. CASE NoPing
    <3>1. /\ pc' = "rest" /\ Age' = Age /\ pc = "check"
          /\ UNCHANGED <<line, after>>
      BY <2>2, <2>13 DEF NoPing
    <3>2. Left = LongestTurn /\ Left' = LoopTicks+1
      BY <3>1 DEF Left
    <3>3. LoopTicks+1 <= LongestTurn
      BY <2>0 DEF LongestTurn
    <3> QED
      BY <2>5, <3>1, <3>2, <3>3
  <2>14. CASE Rest
    <3>1. /\ pc = "rest" /\ pc' = "sleep" /\ wait' \in {LoopTicks, LoopTicks+1}
          /\ Age' = Age /\ UNCHANGED <<line, after>>
      BY <2>2, <2>14 DEF Rest, Sleep
    <3>2. Left = LoopTicks+1 /\ Left' = wait'
      BY <3>1 DEF Left
    <3> QED
      BY <2>5, <3>1, <3>2
  <2>15. CASE Wake
    <3>1. pc' = "poll" /\ Age' = Age /\ UNCHANGED <<line, after>>
      BY <2>2, <2>15 DEF Wake
    <3>2. Left' = 0
      BY <3>1 DEF Left
    <3> QED
      BY <2>0, <2>5, <3>1, <3>2
  <2>16. CASE Turned
    <3>1. /\ pc = "turn" /\ pc' = "put" /\ wait = 0 /\ Age' = Age
          /\ UNCHANGED <<line, after, todo, tdr>>
      BY <2>2, <2>16 DEF Turned
    <3>2. Puts' = Puts /\ Nap' = Nap /\ Puts <= Len(todo)
      BY <2>0, <3>1 DEF Puts, Nap
    <3>3. Left = Len(todo) + TailTicks+1 + Nap
      BY <2>0, <3>1 DEF Left
    <3>4. Left' = Puts + (IF line = "rs485" THEN TailTicks+1 ELSE 0) + Nap
      BY <3>1, <3>2 DEF Left
    <3>5. Left' \in Int /\ Left' <= Left
      BY <2>0, <3>2, <3>3, <3>4
    <3> QED
      BY <2>5, <3>1, <3>5
  <2>17. CASE PollOut
    <3>1. /\ pc = "put" /\ pc' = "put" /\ Age' = Age
          /\ UNCHANGED <<line, after>> /\ todo # <<>> /\ tdr = Empty
      BY <2>2, <2>17 DEF PollOut
    <3>2. Len(todo') = Len(todo)-1
      BY <2>17, <3>1 DEF PollOut, TypeOK
    <3>3. Puts = Len(todo)-1
      BY <3>1 DEF Puts
    <3>4. Puts' \in Int /\ Puts' <= Puts
      BY <2>0, <3>1, <3>2, <3>3 DEF Puts
    <3>5. Nap' = Nap
      BY <3>1 DEF Nap
    <3>6. DEFINE rest == (IF line = "rs485" THEN TailTicks+1 ELSE 0) + Nap
    <3>7. Left = Puts + rest /\ Left' = Puts' + rest /\ rest \in Nat
      BY <2>0, <3>1, <3>4, <3>5 DEF Left
    <3>8. Left' \in Int /\ Left' <= Left
      <4> HIDE DEF rest
      <4>1. PICK puts \in Int : puts = Puts'
        BY <3>4
      <4>2. puts <= Puts /\ Left' = puts + rest
        BY <3>4, <3>7, <4>1
      <4> QED
        BY <2>0, <3>7, <4>2
    <3> QED
      BY <2>5, <3>1, <3>8
  <2>18. ASSUME pc' = after, UNCHANGED <<line, after>>, Age' = Age, Nap <= Left
         PROVE  InTime'
    <3>1. after = "poll" => Left' = 0
      BY <2>18 DEF Left
    <3>2. after = "rest" => Left' = LoopTicks+1 /\ Nap = LoopTicks+1
      BY <2>18 DEF Left, Nap
    <3>3. CASE after = "loop"
      BY <2>6, <2>18, <3>3
    <3>4. CASE after # "loop"
      BY <2>0, <2>3, <2>5, <2>18, <3>1, <3>2, <3>4
    <3> QED
      BY <3>3, <3>4
  <2>19. CASE PutDone
    <3>1. /\ pc = "put" /\ Age' = Age /\ UNCHANGED <<line, after>>
          /\ todo = <<>>
      BY <2>2, <2>19 DEF PutDone
    <3>2. Left = (IF line = "rs485" THEN TailTicks+1 ELSE 0) + Nap /\ Nap' = Nap
      BY <2>0, <3>1 DEF Left, Puts, Nap
    <3>3. CASE line = "rs485"
      <4>1. pc' = "drain" /\ wait' \in {TailTicks, TailTicks+1}
        BY <2>19, <3>3 DEF PutDone, Sleep
      <4>2. Left' = wait' + Nap
        BY <3>2, <4>1 DEF Left
      <4>3. PICK tail : tail = wait'
        OBVIOUS
      <4>4. tail \in {TailTicks, TailTicks+1} /\ Left' = tail + Nap
        BY <4>1, <4>2, <4>3
      <4>5. Left' \in Int /\ Left' <= Left
        BY <2>0, <3>2, <3>3, <4>4
      <4> QED
        BY <2>5, <3>1, <4>1, <4>5
    <3>4. CASE line # "rs485"
      <4>1. pc' = after
        BY <2>19, <3>4 DEF PutDone
      <4> QED
        BY <2>0, <2>18, <3>1, <3>2, <3>4, <4>1
    <3> QED
      BY <3>3, <3>4
  <2>20. CASE Drained
    <3>1. /\ pc = "drain" /\ pc' = after /\ Age' = Age
          /\ UNCHANGED <<line, after>>
      BY <2>2, <2>20 DEF Drained
    <3>2. Left = wait + Nap
      BY <3>1 DEF Left
    <3> QED
      BY <2>0, <2>18, <3>1, <3>2
  <2>21. CASE Tick
    <3>1. /\ UNCHANGED <<line, pc, todo, after, rdr>> /\ tdr' = Empty
          /\ wait' = (IF wait > 0 THEN wait-1 ELSE 0) /\ Waits
      BY <2>21 DEF Tick
    <3>2. Age' \in Int /\ Age' <= Age+1
      <4>1. pause' = Lowest(pause+1, LongestTurn+1) /\ rdr' = rdr
        BY <2>21 DEF Tick
      <4>2. pause' \in Nat /\ pause' <= pause+1
        BY <2>0, <4>1 DEF Lowest
      <4> QED
        BY <2>0, <4>1, <4>2 DEF Age
    <3>3. Nap' = Nap
      BY <3>1 DEF Nap
    <3>4. CASE pc = "ended"
      BY <2>6, <3>1, <3>4 DEF InTime
    <3>7. ASSUME Left' = Left-1, pc \in {"turn", "drain", "sleep", "put"}
          PROVE  InTime'
      <4>1. CASE after = "loop"
        BY <2>6, <3>1, <3>7, <4>1
      <4>2. CASE after # "loop"
        <5>1. Age' + Left' <= LongestTurn
          <6>1. PICK age \in Int : age = Age'
            BY <3>2
          <6>2. age <= Age+1 /\ Age + Left <= LongestTurn
            BY <2>was, <3>2, <4>2, <6>1
          <6>3. age + (Left-1) <= LongestTurn
            BY <2>0, <6>2
          <6> QED
            BY <3>7, <6>1, <6>3
        <5> QED
          BY <2>fits, <3>1, <3>7, <5>1
      <4> QED
        BY <4>1, <4>2
    <3>5. CASE pc \in {"turn", "drain", "sleep"} /\ wait > 0
      <4>1. Left' = Left-1
        BY <2>0, <3>1, <3>3, <3>5 DEF Left
      <4> QED
        BY <2>0, <3>1, <3>2, <3>5, <3>7, <4>1
    <3>6. CASE pc = "put" /\ todo # <<>> /\ tdr # Empty
      <4>1. Puts = Len(todo) /\ Puts' = Len(todo)-1
        BY <3>1, <3>6 DEF Puts
      <4>2. Left' = Left-1
        BY <2>0, <3>1, <3>3, <3>6, <4>1 DEF Left
      <4> QED
        BY <2>0, <3>1, <3>2, <3>6, <3>7, <4>2
    <3> QED
      BY <3>1, <3>4, <3>5, <3>6 DEF Waits
  <2>22. CASE PeerSends
    <3>1. UNCHANGED <<line, pc, todo, after, wait, tdr>> /\ pause' = 0
      BY <2>22 DEF PeerSends
    <3>2. Left' = Left
      BY <2>1, <3>1 DEF Left, Puts, Nap
    <3>3. Age' = 0
      BY <3>1 DEF Age
    <3> QED
      BY <2>0, <2>1, <3>1, <3>2, <3>3 DEF InTime
  <2>23. CASE UNCHANGED vars
    <3>1. UNCHANGED <<line, pc, todo, after, wait, tdr, rdr, pause>>
      BY <2>23 DEF vars
    <3> QED
      BY <2>1, <2>2, <3>1 DEF InTime, Left, Puts, Nap
  <2> QED
    BY <2>7, <2>8, <2>9, <2>10, <2>12, <2>13, <2>14, <2>15, <2>16, <2>17, <2>19, <2>20,
       <2>21, <2>22, <2>23 DEF Next, Main
<1>3. TypeOK /\ InTime => PausedBytesFit
  BY SizeFacts DEF InTime, PausedBytesFit, Age
<1> QED
  BY <1>1, <1>2, <1>3, TypeCorrect, PTL DEF Spec

(***************************************************************************)
(* The order of the echoes.  The lemmas are about echoes e, the bytes s    *)
(* and t of the shift and the transmit register, bytes q still to be put,  *)
(* the byte r in the receive register and the number m of bytes the peer   *)
(* has sent.  A byte and its noise have the same Source.                   *)
(***************************************************************************)

Numbers == Told
Byte == Bytes \cup {Empty}
Echoes == Seq({Cr} \cup Numbers)

\* Every byte that left, or is ahead in the UART, is an earlier one than n.  (A
\* byte that is none of the peer's has no number and is below 1.)
Gone(e, n) == \A k \in 1..Len(e) : Source(e[k]) < Source(n)
Ahead(e, s, t, n) == Gone(e, n) /\ Source(s) < Source(n) /\ Source(t) < Source(n)

Ordered(e, m) ==
    \A k \in 1..Len(e) :
        /\ Source(e[k]) <= m
        /\ e[k] # Cr => \A j \in 1..k-1 : Source(e[j]) < Source(e[k])

\* From the echoes over the UART and the bytes to be put to the receive register
\* the numbers rise.
Rises(e, s, t, q, r, m) ==
    /\ Ordered(e, m)
    /\ Source(s) <= m /\ Source(t) <= m /\ Source(r) <= m
    /\ \A k \in 1..Len(q) : Source(q[k]) <= m
    /\ s \in Numbers => Gone(e, s)
    /\ t \in Numbers => Gone(e, t) /\ Source(s) < Source(t)
    /\ \A k \in 1..Len(q) : q[k] \in Numbers =>
           /\ Ahead(e, s, t, q[k])
           /\ \A j \in 1..k-1 : Source(q[j]) < Source(q[k])
    /\ r \in Numbers => /\ Ahead(e, s, t, r)
                        /\ \A k \in 1..Len(q) : Source(q[k]) < Source(r)

Rising == Rises(echoed, shift, tdr, todo, rdr, sent)

LEMMA ByteFacts ==
    /\ Byte \subseteq Int /\ Empty = 0 /\ MaxBytes \in Nat
    /\ \A b \in Byte : b \in Numbers \/ b <= 0
    /\ \A b \in Byte : /\ Source(b) \in Int
                       /\ b \in Numbers => Source(b) >= 1
                       /\ b <= 0 => Source(b) <= 0
    /\ Cr \in Byte /\ Numbers \subseteq Byte /\ Bytes \subseteq Byte
  BY DEF Byte, Bytes, Numbers, Told, Source, Cr, Text, Other, NewLine, Empty

LEMMA HeadFacts ==
    ASSUME NEW q \in Seq(Bytes), q # <<>>
    PROVE  /\ Head(q) = q[1] /\ q[1] \in Bytes /\ Tail(q) \in Seq(Bytes)
           /\ Len(q) \in Nat /\ Len(q) >= 1 /\ Len(Tail(q)) = Len(q)-1
           /\ \A k \in 1..Len(Tail(q)) : Tail(q)[k] = q[k+1] /\ k+1 \in 1..Len(q)
  OBVIOUS

LEMMA AppendFacts ==
    ASSUME NEW e \in Echoes, NEW b \in {Cr} \cup Numbers
    PROVE  /\ Append(e, b) \in Echoes /\ Len(e) \in Nat /\ Len(Append(e, b)) = Len(e)+1
           /\ \A k \in 1..Len(e) : Append(e, b)[k] = e[k]
           /\ Append(e, b)[Len(e)+1] = b
  BY DEF Echoes

\* The bytes a step starts to send.
LEMMA SendRises ==
    ASSUME NEW e \in Echoes, NEW s \in Byte, NEW t \in Byte, NEW q, NEW r \in Byte,
           NEW m \in Nat, Rises(e, s, t, q, r, m), NEW x \in Seq(Bytes), NEW u \in Byte,
           \/ u = Empty /\ \A k \in 1..Len(x) : x[k] <= 0 \/ (x[k] = r /\ k = Len(x))
           \/ u = r /\ \A k \in 1..Len(x) : x[k] <= 0
    PROVE  Rises(e, s, t, x, u, m)
<1>1. /\ Empty = 0 /\ r \in Int /\ u \in Int /\ MaxBytes \in Nat /\ Len(x) \in Nat
      /\ Source(r) \in Int /\ Source(u) \in Int /\ Source(Empty) <= 0
      /\ u \in Numbers => Source(u) >= 1 /\ u # Empty
  BY ByteFacts DEF Byte, Numbers, Told
<1>1a. ASSUME NEW k \in 1..Len(x)
       PROVE  /\ x[k] \in Int /\ Source(x[k]) \in Int
              /\ x[k] \in Numbers => x[k] > 0 /\ Source(x[k]) >= 1
              /\ x[k] <= 0 => Source(x[k]) <= 0
  <2>1. x[k] \in Byte
    BY <1>1 DEF Byte
  <2>2. ASSUME NEW b \in Byte
        PROVE  /\ b \in Int /\ Source(b) \in Int
               /\ b \in Numbers => b > 0 /\ Source(b) >= 1
               /\ b <= 0 => Source(b) <= 0
    BY ByteFacts DEF Numbers, Told
  <2> QED
    BY <2>1, <2>2
<1>2. Source(r) <= m
  BY DEF Rises
<1>3. \A k \in 1..Len(x) : Source(x[k]) <= m
  BY <1>1, <1>1a, <1>2
<1>4. ASSUME NEW k \in 1..Len(x), x[k] \in Numbers
      PROVE  Ahead(e, s, t, x[k]) /\ \A j \in 1..k-1 : Source(x[j]) < Source(x[k])
  <2>1. x[k] > 0 /\ Source(x[k]) >= 1 /\ x[k] \in Int
    BY <1>1a, <1>4
  <2>2. x[k] = r /\ k = Len(x) /\ \A j \in 1..Len(x) : j < k => x[j] <= 0
    BY <1>1, <1>1a, <2>1
  <2>3. Ahead(e, s, t, r)
    BY <1>4, <2>2 DEF Rises
  <2>4. ASSUME NEW j \in 1..k-1
        PROVE  Source(x[j]) < Source(x[k])
    <3>1. j \in 1..Len(x) /\ j < k
      BY <1>1
    <3> QED
      BY <1>1a, <2>1, <2>2, <3>1
  <2> QED
    BY <2>2, <2>3, <2>4
<1>5. ASSUME u \in Numbers
      PROVE  Ahead(e, s, t, u) /\ \A k \in 1..Len(x) : Source(x[k]) < Source(u)
  <2>1. Source(u) >= 1 /\ u = r /\ \A k \in 1..Len(x) : x[k] <= 0
    BY <1>1, <1>5
  <2>2. Ahead(e, s, t, r)
    BY <1>5, <2>1 DEF Rises
  <2> QED
    BY <1>1, <1>1a, <2>1, <2>2
<1>6. Source(u) <= m
  BY <1>1, <1>2
<1> QED
  BY <1>3, <1>4, <1>5, <1>6 DEF Rises

\* The first byte to be put goes into one of the registers.
LEMMA PutRises ==
    ASSUME NEW e \in Echoes, NEW s \in Byte, NEW q \in Seq(Bytes), q # <<>>, NEW r \in Byte,
           NEW m \in Nat, Rises(e, s, 0, q, r, m), NEW s1, NEW t1,
           \/ s = 0 /\ s1 = q[1] /\ t1 = 0
           \/ s1 = s /\ t1 = q[1]
    PROVE  Rises(e, s1, t1, Tail(q), r, m)
<1> DEFINE h == q[1]
           l == Tail(q)
<1>1. /\ Len(q) \in Nat /\ Len(q) >= 1 /\ Len(l) = Len(q)-1
      /\ \A k \in 1..Len(l) : l[k] = q[k+1] /\ k+1 \in 1..Len(q)
      /\ 1 \in 1..Len(q) /\ 0 \notin Numbers
  BY HeadFacts DEF Numbers, Told
<1>2. Source(h) <= m /\ (h \in Numbers => Ahead(e, s, 0, h))
  BY <1>1 DEF Rises
<1>3. ASSUME NEW n, Ahead(e, s, 0, n), Source(h) < Source(n)
      PROVE  Ahead(e, s1, t1, n)
  BY <1>3 DEF Ahead
<1>4. ASSUME NEW k \in 1..Len(l), l[k] \in Numbers
      PROVE  Ahead(e, s1, t1, l[k]) /\ \A j \in 1..k-1 : Source(l[j]) < Source(l[k])
  <2>1. l[k] = q[k+1] /\ k+1 \in 1..Len(q) /\ 1 \in 1..(k+1)-1
    BY <1>1
  <2>2. Ahead(e, s, 0, q[k+1]) /\ \A j \in 1..(k+1)-1 : Source(q[j]) < Source(q[k+1])
    BY <1>4, <2>1 DEF Rises
  <2>3. ASSUME NEW j \in 1..k-1
        PROVE  Source(l[j]) < Source(l[k])
    <3>1. j \in 1..Len(l) /\ j+1 \in 1..(k+1)-1
      BY <1>1
    <3> QED
      BY <1>1, <2>1, <2>2, <3>1
  <2> HIDE DEF l
  <2> QED
    BY <1>3, <2>1, <2>2, <2>3
<1>5. ASSUME r \in Numbers
      PROVE  Ahead(e, s1, t1, r) /\ \A k \in 1..Len(l) : Source(l[k]) < Source(r)
  <2>1. Ahead(e, s, 0, r) /\ \A k \in 1..Len(q) : Source(q[k]) < Source(r)
    BY <1>5 DEF Rises
  <2> HIDE DEF l
  <2> QED
    BY <1>1, <1>3, <2>1
<1>6. /\ Ordered(e, m) /\ Source(s) <= m /\ Source(0) <= m /\ Source(r) <= m
      /\ \A k \in 1..Len(l) : Source(l[k]) <= m
  <2>1. /\ Ordered(e, m) /\ Source(s) <= m /\ Source(0) <= m /\ Source(r) <= m
        /\ \A k \in 1..Len(q) : Source(q[k]) <= m
    BY DEF Rises
  <2> HIDE DEF l
  <2> QED
    BY <1>1, <2>1
<1>7. s \in Numbers => Gone(e, s)
  BY DEF Rises
<1>8. /\ Source(s1) <= m /\ Source(t1) <= m
      /\ s1 \in Numbers => Gone(e, s1)
      /\ t1 \in Numbers => Gone(e, t1) /\ Source(s1) < Source(t1)
  <2> HIDE DEF h
  <2>1. (s = 0 /\ s1 = h /\ t1 = 0) \/ (s1 = s /\ t1 = h)
    BY DEF h
  <2> QED
    BY <1>1, <1>2, <1>6, <1>7, <2>1 DEF Ahead
<1> HIDE DEF l, h
<1> QED
  BY <1>4, <1>5, <1>6, <1>8 DEF Rises, l

\* A byte time passes, and the byte in the shift register may be an echo.
LEMMA TickRises ==
    ASSUME NEW e \in Echoes, NEW s \in Byte, NEW t \in Byte, NEW q, NEW r \in Byte,
           NEW m \in Nat, Rises(e, s, t, q, r, m), NEW e1,
           e1 = e \/ (s \in {Cr} \cup Numbers /\ e1 = Append(e, s))
    PROVE  Rises(e1, t, 0, q, r, m)
<1>1. ASSUME NEW n, Gone(e, n), Source(s) < Source(n)
      PROVE  Gone(e1, n)
  <2>1. CASE e1 = e
    BY <1>1, <2>1
  <2>2. CASE s \in {Cr} \cup Numbers /\ e1 = Append(e, s)
    <3>1. /\ Len(e) \in Nat /\ Len(e1) = Len(e)+1
          /\ \A k \in 1..Len(e) : e1[k] = e[k]
          /\ e1[Len(e)+1] = s
      BY <2>2, AppendFacts
    <3>2. \A k \in 1..Len(e1) : k \in 1..Len(e) \/ k = Len(e)+1
      BY <3>1
    <3> QED
      BY <1>1, <3>1, <3>2 DEF Gone
  <2> QED
    BY <2>1, <2>2
<1>2. ASSUME NEW n \in Numbers, Ahead(e, s, t, n)
      PROVE  Ahead(e1, t, 0, n)
  <2>1. n \in Byte /\ 0 \in Byte
    BY ByteFacts DEF Byte
  <2>2. Source(0) < Source(n)
    BY <2>1, ByteFacts
  <2> QED
    BY <1>1, <1>2, <2>2 DEF Ahead
<1>3. t \in Numbers => Gone(e1, t)
  BY <1>1 DEF Rises
<1>4. Ordered(e1, m)
  <2>1. Ordered(e, m) /\ Source(s) <= m /\ (s \in Numbers => Gone(e, s))
    BY DEF Rises
  <2>2. CASE e1 = e
    BY <2>1, <2>2
  <2>3. CASE s \in {Cr} \cup Numbers /\ e1 = Append(e, s)
    <3>1. /\ Len(e) \in Nat /\ Len(e1) = Len(e)+1
          /\ \A k \in 1..Len(e) : e1[k] = e[k]
          /\ e1[Len(e)+1] = s
      BY <2>3, AppendFacts
    <3>2. ASSUME NEW k \in 1..Len(e)
          PROVE  /\ Source(e1[k]) <= m
                 /\ e1[k] # Cr => \A j \in 1..k-1 : Source(e1[j]) < Source(e1[k])
      <4>1. \A j \in 1..k-1 : j \in 1..Len(e)
        BY <3>1
      <4> QED
        BY <2>1, <3>1, <4>1 DEF Ordered
    <3>3. s # Cr => \A j \in 1..Len(e) : Source(e1[j]) < Source(s)
      BY <2>1, <2>3, <3>1 DEF Gone
    <3>4. ASSUME NEW k \in 1..Len(e1), k \notin 1..Len(e)
          PROVE  /\ Source(e1[k]) <= m
                 /\ e1[k] # Cr => \A j \in 1..k-1 : Source(e1[j]) < Source(e1[k])
      <4>1. k = Len(e)+1 /\ k-1 = Len(e) /\ e1[k] = s
        BY <3>1, <3>4
      <4> QED
        BY <2>1, <3>3, <4>1
    <3> QED
      BY <3>2, <3>4 DEF Ordered
  <2> QED
    BY <2>2, <2>3
<1>5. Source(0) <= m /\ 0 \notin Numbers
  BY ByteFacts DEF Byte, Numbers, Told
<1>6. \A k \in 1..Len(q) : q[k] \in Numbers =>
         Ahead(e1, t, 0, q[k]) /\ \A j \in 1..k-1 : Source(q[j]) < Source(q[k])
  BY <1>2 DEF Rises
<1>7. r \in Numbers => Ahead(e1, t, 0, r) /\ \A k \in 1..Len(q) : Source(q[k]) < Source(r)
  BY <1>2 DEF Rises
<1> QED
  BY <1>3, <1>4, <1>5, <1>6, <1>7 DEF Rises

\* A byte of the peer ends.
LEMMA HearRises ==
    ASSUME NEW e \in Echoes, NEW s \in Byte, NEW t \in Byte, NEW q \in Seq(Bytes),
           NEW r \in Byte, NEW m \in Nat, Rises(e, s, t, q, r, m), NEW u, NEW n \in Nat,
           n >= m, u = r \/ u \in {Other, NewLine, Empty} \/ (Source(u) = m+1 /\ n = m+1)
    PROVE  Rises(e, s, t, q, u, n)
<1>1. /\ Source(s) \in Int /\ Source(t) \in Int /\ Source(r) \in Int
      /\ \A k \in 1..Len(q) : Source(q[k]) \in Int
      /\ \A k \in 1..Len(e) : Source(e[k]) \in Int
  <2>1. Source(s) \in Int /\ Source(t) \in Int /\ Source(r) \in Int
    BY ByteFacts
  <2>2. \A k \in 1..Len(q) : q[k] \in Byte
    BY DEF Byte
  <2>3. \A k \in 1..Len(e) : e[k] \in Byte
    <3>1. \A k \in 1..Len(e) : e[k] \in {Cr} \cup Numbers
      BY DEF Echoes
    <3> QED
      BY <3>1, ByteFacts
  <2> QED
    BY <2>1, <2>2, <2>3, ByteFacts
<1>2. Ordered(e, n)
  <2>1. Ordered(e, m)
    BY DEF Rises
  <2>2. ASSUME NEW k \in 1..Len(e)
        PROVE  Source(e[k]) <= n
    BY <1>1, <2>1 DEF Ordered
  <2> QED
    BY <2>1, <2>2 DEF Ordered
<1>3. /\ Source(s) <= m /\ Source(t) <= m /\ Source(r) <= m
      /\ \A k \in 1..Len(q) : Source(q[k]) <= m
      /\ \A k \in 1..Len(e) : Source(e[k]) <= m
  BY DEF Rises, Ordered
<1>4. /\ Source(s) <= n /\ Source(t) <= n /\ Source(r) <= n
      /\ \A k \in 1..Len(q) : Source(q[k]) <= n
  <2>1. Source(s) <= n /\ Source(t) <= n /\ Source(r) <= n
    BY <1>1, <1>3
  <2>2. ASSUME NEW k \in 1..Len(q)
        PROVE  Source(q[k]) <= n
    <3>1. Source(q[k]) \in Int /\ Source(q[k]) <= m
      BY <1>1, <1>3
    <3> QED
      BY <3>1
  <2> QED
    BY <2>1, <2>2
<1>5. u \in {Other, NewLine, Empty} => Source(u) <= 0 /\ Source(u) \in Int /\ u \notin Numbers
  <2>1. {Other, NewLine, Empty} \subseteq Byte /\ \A b \in {Other, NewLine, Empty} : b <= 0
    BY DEF Byte, Bytes, Other, NewLine, Empty
  <2>2. \A b \in {Other, NewLine, Empty} : Source(b) <= 0 /\ Source(b) \in Int
    <3>1. \A b \in Byte : Source(b) \in Int /\ (b <= 0 => Source(b) <= 0)
      BY ByteFacts, Zenon
    <3> QED
      BY <2>1, <3>1, Zenon
  <2>3. \A b \in {Other, NewLine, Empty} : b \notin Numbers
    BY <2>1, ByteFacts DEF Numbers, Told
  <2> QED
    BY <2>2, <2>3
<1>6. Source(u) <= n
  <2>1. CASE u \in {Other, NewLine, Empty}
    BY <1>5, <2>1
  <2>2. CASE u = r
    BY <1>4, <2>2
  <2>3. CASE Source(u) = m+1 /\ n = m+1
    BY <2>3
  <2> QED
    BY <2>1, <2>2, <2>3
<1>7. ASSUME u \in Numbers
      PROVE  Ahead(e, s, t, u) /\ \A k \in 1..Len(q) : Source(q[k]) < Source(u)
  <2>1. CASE u = r
    BY <1>7, <2>1 DEF Rises
  <2>2. CASE Source(u) = m+1
    BY <1>1, <1>3, <2>2 DEF Ahead, Gone
  <2> QED
    BY <1>5, <1>7, <2>1, <2>2
<1> QED
  BY <1>2, <1>4, <1>6, <1>7 DEF Rises

\* What is sent in answer to a byte ends with it.
LEMMA AnswerFacts ==
    ASSUME NEW b \in Bytes
    PROVE  \A k \in 1..Len(EchoOf(b)) :
               EchoOf(b)[k] <= 0 \/ (EchoOf(b)[k] = b /\ k = Len(EchoOf(b)))
<1>1. EchoOf(b) = <<b>> \/ EchoOf(b) = <<Cr, b>> \/ EchoOf(b) = <<Text, b>>
  BY DEF EchoOf
<1>2. ASSUME EchoOf(b) = <<b>>
      PROVE  \A k \in 1..Len(EchoOf(b)) :
                 EchoOf(b)[k] <= 0 \/ (EchoOf(b)[k] = b /\ k = Len(EchoOf(b)))
  <2>1. Len(EchoOf(b)) = 1 /\ EchoOf(b)[1] = b
    BY <1>2
  <2>2. \A k \in 1..1 : k = 1
    OBVIOUS
  <2> QED
    BY <2>1, <2>2
<1>3. ASSUME NEW c \in Int, c < 0, EchoOf(b) = <<c, b>>
      PROVE  \A k \in 1..Len(EchoOf(b)) :
                 EchoOf(b)[k] <= 0 \/ (EchoOf(b)[k] = b /\ k = Len(EchoOf(b)))
  <2>1. Len(EchoOf(b)) = 2 /\ EchoOf(b)[1] = c /\ EchoOf(b)[2] = b
    BY <1>3
  <2>2. \A k \in 1..2 : k = 1 \/ k = 2
    OBVIOUS
  <2> QED
    BY <1>3, <2>1, <2>2
<1>4. Cr \in Int /\ Text \in Int /\ Cr < 0 /\ Text < 0
  BY DEF Cr, Text
<1> QED
  BY <1>1, <1>2, <1>3, <1>4

LEMMA TextBelow ==
    ASSUME NEW n \in Nat
    PROVE  \A k \in 1..Len(TextOf(n)) : TextOf(n)[k] <= 0
<1>1. Len(TextOf(n)) = n
  BY TextFacts
<1>2. \A k \in 1..n : TextOf(n)[k] = Text
  BY DEF TextOf
<1>3. Text <= 0
  BY DEF Text
<1> QED
  BY <1>1, <1>2, <1>3

LEMMA RisingKept == TypeOK /\ Rising /\ [Next]_vars => Rising'
<1> SUFFICES ASSUME TypeOK, Rising, [Next]_vars
             PROVE  Rising'
  OBVIOUS
<1> USE DEF wires, peer
<1>1. /\ todo \in Seq(Bytes) /\ echoed \in Echoes /\ sent \in Nat /\ sent \in 0..MaxBytes
      /\ tdr \in Byte /\ shift \in Byte /\ rdr \in Byte
  BY DEF TypeOK, Numbers, Byte, Echoes
<1>2. Empty = 0 /\ 0 \in Byte
  BY ByteFacts DEF Byte
<1>3. CASE Greet
  <2>1. TextOf(HelloLength) \in Seq(Bytes)
    BY TextFacts
  <2>2. \A k \in 1..Len(TextOf(HelloLength)) : TextOf(HelloLength)[k] <= 0
    BY TextBelow
  <2>3. Rises(echoed, shift, tdr, TextOf(HelloLength), rdr, sent)
    BY <1>1, <2>1, <2>2, SendRises DEF Rising
  <2> QED
    BY <1>3, <2>3 DEF Greet, Send, Rising
<1>4. CASE Ping
  <2>1. TextOf(PingLength) \in Seq(Bytes)
    BY TextFacts
  <2>2. \A k \in 1..Len(TextOf(PingLength)) : TextOf(PingLength)[k] <= 0
    BY TextBelow
  <2>3. Rises(echoed, shift, tdr, TextOf(PingLength), rdr, sent)
    BY <1>1, <2>1, <2>2, SendRises DEF Rising
  <2> QED
    BY <1>4, <2>3 DEF Ping, Send, Rising
<1>5. CASE Echo
  <2>1. rdr \in Bytes
    BY <1>5 DEF Echo, TypeOK
  <2>2. EchoOf(rdr) \in Seq(Bytes)
    BY <2>1, EchoFacts
  <2>3. Rises(echoed, shift, tdr, EchoOf(rdr), Empty, sent)
    BY <1>1, <1>2, <2>1, <2>2, AnswerFacts, SendRises DEF Rising
  <2> QED
    BY <1>5, <2>3 DEF Echo, Send, Rising
<1>6. CASE EnterLoop \/ NothingToEcho \/ NoPing \/ Rest \/ Wake \/ Turned \/ PutDone
           \/ Drained \/ Return \/ UNCHANGED vars
  BY <1>6 DEF EnterLoop, NothingToEcho, NoPing, Rest, Wake, Turned, PutDone, Drained,
              Return, vars, Rising
<1>7. CASE PollOut
  <2>1. /\ todo # <<>> /\ tdr = 0 /\ todo' = Tail(todo)
        /\ \/ shift = 0 /\ shift' = todo[1] /\ tdr' = 0
           \/ shift' = shift /\ tdr' = todo[1]
        /\ UNCHANGED <<rdr, sent, echoed>>
    BY <1>1, <1>2, <1>7, HeadFacts DEF PollOut
  <2>2. Rises(echoed, shift', tdr', Tail(todo), rdr, sent)
    BY <1>1, <2>1, PutRises DEF Rising
  <2> QED
    BY <2>1, <2>2 DEF Rising
<1>8. CASE Tick
  <2>1. /\ shift' = tdr /\ tdr' = 0 /\ UNCHANGED <<rdr, sent, todo>>
        /\ echoed' = echoed \/ (shift \in {Cr} \cup Numbers /\ echoed' = Append(echoed, shift))
    BY <1>2, <1>8 DEF Tick, Numbers
  <2>2. Rises(echoed', tdr, 0, todo, rdr, sent)
    BY <1>1, <2>1, TickRises DEF Rising
  <2> QED
    BY <2>1, <2>2 DEF Rising
<1>9. CASE PeerSends
  <2>1. sent' \in Nat /\ sent' >= sent /\ (sent < MaxBytes => sent' = sent+1)
    BY <1>1, <1>9, ByteFacts DEF PeerSends, Lowest
  <2>2. PICK b \in IF sent < MaxBytes THEN {sent+1} ELSE {Other, NewLine} :
            rdr' = rdr \/ rdr' \in Received(b)
    BY <1>9 DEF PeerSends
  <2>3. Received(b) \subseteq {b, NoiseOf(b), Empty}
    BY DEF Received
  <2>4. \/ rdr' = rdr \/ rdr' \in {Other, NewLine, Empty}
        \/ Source(rdr') = sent+1 /\ sent' = sent+1
    <3>1. CASE sent < MaxBytes
      <4>1. b = sent+1 /\ b \in 1..MaxBytes
        BY <1>1, <2>2, <3>1
      <4>2. Source(b) = b /\ Source(NoiseOf(b)) = b
        BY <1>1, <4>1 DEF Source, NoiseOf
      <4> QED
        BY <2>1, <2>2, <2>3, <3>1, <4>1, <4>2
    <3>2. CASE ~(sent < MaxBytes)
      <4>1. b \in {Other, NewLine}
        BY <2>2, <3>2
      <4>2. NoiseOf(b) = Other
        BY <4>1 DEF NoiseOf, Other, NewLine
      <4> QED
        BY <2>2, <2>3, <4>1, <4>2
    <3> QED
      BY <3>1, <3>2
  <2>5. Rises(echoed, shift, tdr, todo, rdr', sent')
    BY <1>1, <2>1, <2>4, HearRises DEF Rising
  <2> QED
    BY <1>9, <2>5 DEF PeerSends, Rising
<1> QED
  BY <1>3, <1>4, <1>5, <1>6, <1>7, <1>8, <1>9 DEF Next, Main

(***************************************************************************)
(* The carriage returns among the echoes.                                  *)
(***************************************************************************)

\* The bytes that have a '\r' in front on this line.
Doubled == IF line = "rs232" THEN Newlines ELSE {}

CrOut(e) == e # <<>> /\ e[Len(e)] = Cr
Front(s, t) == IF t # Empty THEN t ELSE s

\* From the echoes over the UART to the bytes still to be put: a byte of w, and
\* no other, follows a '\r', and a '\r' is not left alone at the end.
Pairs(w, e, s, t, q) ==
    /\ t # Empty => s # Empty
    /\ \A k \in 1..Len(e) : e[k] # Cr => (e[k] \in w <=> (k > 1 /\ e[k-1] = Cr))
    /\ CrOut(e) <=> s \in w
    /\ t \in w <=> (s = Cr /\ t # Empty)
    /\ Front(s, t) = Cr => q # <<>>
    /\ q # <<>> => (q[1] \in w <=> Front(s, t) = Cr) /\ q[Len(q)] # Cr
    /\ \A k \in 1..Len(q) : k < Len(q) => (q[k+1] \in w <=> q[k] = Cr)

Paired ==
    /\ Pairs(Doubled, echoed, shift, tdr, todo)
    /\ rdr # Cr
    /\ pc \notin {"turn", "put"} => todo = <<>>
    /\ pc = "turn" => line = "rs485"
    /\ line = "rs485" => shift # Cr /\ tdr # Cr /\ \A k \in 1..Len(todo) : todo[k] # Cr

LEMMA SendPairs ==
    ASSUME NEW w \in SUBSET Numbers, NEW e, NEW s, NEW t, Pairs(w, e, s, t, <<>>), NEW x,
           x # <<>> => x[1] \notin w /\ x[Len(x)] # Cr,
           \A k \in 1..Len(x) : k < Len(x) => (x[k+1] \in w <=> x[k] = Cr)
    PROVE  Pairs(w, e, s, t, x)
<1>1. Front(s, t) # Cr
  BY DEF Pairs
<1> QED
  BY <1>1 DEF Pairs

LEMMA PutPairs ==
    ASSUME NEW w \in SUBSET Numbers, NEW e, NEW s, NEW q \in Seq(Bytes), q # <<>>,
           Pairs(w, e, s, 0, q), NEW s1, NEW t1,
           \/ s = 0 /\ s1 = q[1] /\ t1 = 0
           \/ s # 0 /\ s1 = s /\ t1 = q[1]
    PROVE  Pairs(w, e, s1, t1, Tail(q))
<1> DEFINE h == q[1]
           l == Tail(q)
<1>1. /\ h \in Bytes /\ Len(q) \in Nat /\ Len(q) >= 1 /\ Len(l) = Len(q)-1
      /\ l \in Seq(Bytes)
      /\ \A k \in 1..Len(l) : l[k] = q[k+1] /\ k+1 \in 1..Len(q)
      /\ 1 \in 1..Len(q)
  BY HeadFacts
<1>2. 0 \notin w /\ Empty = 0 /\ h # 0 /\ Cr # 0
  BY <1>1 DEF Empty, Numbers, Told, Bytes, Cr, Text, Other, NewLine
<1>3. Front(s, 0) = s /\ Front(s1, t1) = h
  BY <1>2 DEF Front
<1>4. l = <<>> <=> Len(q) = 1
  <2> HIDE DEF l
  <2>1. l = <<>> <=> Len(l) = 0
    BY <1>1
  <2> QED
    BY <1>1, <2>1
<1>5. h = Cr => l # <<>>
  BY <1>1, <1>4 DEF Pairs
<1>6. l # <<>> => (l[1] \in w <=> h = Cr) /\ l[Len(l)] # Cr
  <2>1. ASSUME l # <<>>
        PROVE  (l[1] \in w <=> h = Cr) /\ l[Len(l)] # Cr
    <3>1. Len(q) > 1 /\ 1 \in 1..Len(l) /\ Len(l) \in 1..Len(l)
      BY <1>1, <1>4, <2>1
    <3>2. l[1] = q[1+1] /\ l[Len(l)] = q[Len(q)]
      BY <1>1, <3>1
    <3>3. q[1+1] \in w <=> q[1] = Cr
      BY <1>1, <3>1 DEF Pairs
    <3>4. q[Len(q)] # Cr
      BY DEF Pairs
    <3> QED
      BY <3>2, <3>3, <3>4
  <2> QED
    BY <2>1
<1>7. ASSUME NEW k \in 1..Len(l), k < Len(l)
      PROVE  l[k+1] \in w <=> l[k] = Cr
  <2>1. /\ l[k] = q[k+1] /\ k+1 \in 1..Len(l) /\ l[k+1] = q[(k+1)+1]
        /\ k+1 \in 1..Len(q) /\ k+1 < Len(q)
    BY <1>1, <1>7
  <2> QED
    BY <2>1 DEF Pairs
<1>8. q[1] \in w <=> s = Cr
  BY <1>3 DEF Pairs
<1>9. CrOut(e) <=> s \in w
  BY DEF Pairs
<1>10. /\ t1 # Empty => s1 # Empty
       /\ CrOut(e) <=> s1 \in w
       /\ t1 \in w <=> (s1 = Cr /\ t1 # Empty)
  <2> HIDE DEF h
  <2>1. (s = 0 /\ s1 = h /\ t1 = 0) \/ (s # 0 /\ s1 = s /\ t1 = h)
    BY DEF h
  <2>2. h \in w <=> s = Cr
    BY <1>8 DEF h
  <2> QED
    BY <1>2, <1>9, <2>1, <2>2
<1>11. \A k \in 1..Len(e) : e[k] # Cr => (e[k] \in w <=> (k > 1 /\ e[k-1] = Cr))
  BY DEF Pairs
<1> HIDE DEF h, l
<1> QED
  BY <1>3, <1>5, <1>6, <1>7, <1>10, <1>11 DEF Pairs, l

LEMMA TickPairs ==
    ASSUME NEW w \in SUBSET Numbers, NEW e \in Echoes, NEW s, NEW t, NEW q,
           Pairs(w, e, s, t, q), NEW e1,
           \/ q # <<>> => t # Empty
           \/ w = {} /\ s # Cr /\ t # Cr,
           \/ s \in {Cr} \cup Numbers /\ e1 = Append(e, s)
           \/ s \notin {Cr} \cup Numbers /\ e1 = e
           \/ w = {} /\ s # Cr /\ e1 = e
    PROVE  Pairs(w, e1, t, 0, q)
<1>1. 0 \notin w /\ Empty = 0 /\ Cr # 0 /\ Cr \notin w /\ Len(e) \in Nat
  BY DEF Empty, Numbers, Told, Cr, Echoes
<1>2. Front(t, 0) = t /\ (t # 0 => Front(s, t) = t) /\ (t = 0 => Front(s, t) = s)
  BY <1>1 DEF Front
<1>3. /\ t # 0 => s # 0
      /\ CrOut(e) <=> s \in w
      /\ t \in w <=> (s = Cr /\ t # 0)
      /\ Front(s, t) = Cr => q # <<>>
      /\ q # <<>> => (q[1] \in w <=> Front(s, t) = Cr) /\ q[Len(q)] # Cr
  BY <1>1 DEF Pairs
<1>4. t = Cr => q # <<>>
  BY <1>1, <1>2, <1>3
<1>5. q # <<>> => (q[1] \in w <=> t = Cr) /\ q[Len(q)] # Cr
  BY <1>1, <1>2, <1>3
<1>6. s = Cr => t # 0
  BY <1>1, <1>2, <1>3
<1>7. CrOut(e1) <=> t \in w
  <2>1. CASE s \in {Cr} \cup Numbers /\ e1 = Append(e, s)
    <3>1. Len(e1) = Len(e)+1 /\ e1[Len(e)+1] = s /\ e1 # <<>>
      BY <2>1, AppendFacts
    <3>2. CrOut(e1) <=> s = Cr
      BY <3>1 DEF CrOut
    <3> QED
      BY <1>3, <1>6, <3>2
  <2>2. CASE s \notin {Cr} \cup Numbers /\ e1 = e
    BY <1>3, <2>2
  <2>3. CASE w = {} /\ s # Cr /\ e1 = e
    BY <1>3, <2>3
  <2> QED
    BY <2>1, <2>2, <2>3
<1>8. \A k \in 1..Len(e1) : e1[k] # Cr => (e1[k] \in w <=> (k > 1 /\ e1[k-1] = Cr))
  <2>1. \A k \in 1..Len(e) : e[k] # Cr => (e[k] \in w <=> (k > 1 /\ e[k-1] = Cr))
    BY DEF Pairs
  <2>2. CASE e1 = e
    BY <2>1, <2>2
  <2>3. CASE s \in {Cr} \cup Numbers /\ e1 = Append(e, s)
    <3>1. /\ Len(e1) = Len(e)+1 /\ e1[Len(e)+1] = s
          /\ \A k \in 1..Len(e) : e1[k] = e[k]
      BY <2>3, AppendFacts
    <3>2. ASSUME NEW k \in 1..Len(e), e1[k] # Cr
          PROVE  e1[k] \in w <=> (k > 1 /\ e1[k-1] = Cr)
      <4>1. e1[k] = e[k] /\ (k > 1 => e1[k-1] = e[k-1])
        BY <1>1, <3>1
      <4> QED
        BY <2>1, <3>2, <4>1
    <3>3. ASSUME NEW k \in 1..Len(e1), k \notin 1..Len(e), e1[k] # Cr
          PROVE  e1[k] \in w <=> (k > 1 /\ e1[k-1] = Cr)
      <4>1. k = Len(e)+1 /\ k-1 = Len(e) /\ e1[k] = s
        BY <1>1, <3>1, <3>3
      <4>2. CASE e = <<>>
        <5>1. ~(k > 1) /\ ~CrOut(e)
          BY <4>1, <4>2 DEF CrOut
        <5> QED
          BY <1>3, <4>1, <5>1
      <4>3. CASE e # <<>>
        <5>1. Len(e) >= 1 /\ Len(e) \in 1..Len(e) /\ k > 1
          BY <1>1, <4>1, <4>3 DEF Echoes
        <5>2. e1[k-1] = e[Len(e)]
          BY <3>1, <4>1, <5>1
        <5>3. CrOut(e) <=> e[Len(e)] = Cr
          BY <4>3 DEF CrOut
        <5> QED
          BY <1>3, <4>1, <5>1, <5>2, <5>3
      <4> QED
        BY <4>2, <4>3
    <3> QED
      BY <3>2, <3>3
  <2> QED
    BY <2>2, <2>3
<1>9. \A k \in 1..Len(q) : k < Len(q) => (q[k+1] \in w <=> q[k] = Cr)
  BY DEF Pairs
<1> QED
  BY <1>1, <1>2, <1>4, <1>5, <1>7, <1>8, <1>9 DEF Pairs

\* A line of text has no '\r' and nothing that needs one.
LEMMA TextPlain ==
    ASSUME NEW n \in Nat
    PROVE  \A k \in 1..Len(TextOf(n)) : TextOf(n)[k] # Cr /\ TextOf(n)[k] \notin Numbers
<1>1. Len(TextOf(n)) = n
  BY TextFacts
<1>2. \A k \in 1..n : TextOf(n)[k] = Text
  BY DEF TextOf
<1>3. Text # Cr /\ Text \notin Numbers
  BY DEF Text, Cr, Numbers, Told
<1> QED
  BY <1>1, <1>2, <1>3

\* Plain bytes are sent without a '\r', after a send that is over.
LEMMA PlainPairs ==
    ASSUME NEW w \in SUBSET Numbers, NEW e, NEW s, NEW t, Pairs(w, e, s, t, <<>>),
           NEW x \in Seq(Bytes), \A k \in 1..Len(x) : x[k] # Cr /\ x[k] \notin w
    PROVE  Pairs(w, e, s, t, x)
<1>1. Len(x) \in Nat /\ (x # <<>> => 1 \in 1..Len(x) /\ Len(x) \in 1..Len(x))
  OBVIOUS
<1>2. ASSUME NEW k \in 1..Len(x), k < Len(x)
      PROVE  x[k+1] \in w <=> x[k] = Cr
  <2>1. k+1 \in 1..Len(x)
    BY <1>1, <1>2
  <2> QED
    BY <2>1
<1>3. x # <<>> => x[1] \notin w /\ x[Len(x)] # Cr
  BY <1>1
<1> QED
  BY <1>2, <1>3, SendPairs

\* The answer to a byte has a '\r' in front of it exactly if it is doubled.
LEMMA AnswerPairs ==
    ASSUME NEW e, NEW s, NEW t, Pairs(Doubled, e, s, t, <<>>), NEW b \in Bytes, b # Cr,
           line \in {"rs232", "rs485"}
    PROVE  /\ Pairs(Doubled, e, s, t, EchoOf(b))
           /\ line = "rs485" => \A k \in 1..Len(EchoOf(b)) : EchoOf(b)[k] # Cr
<1>1. /\ Doubled \in SUBSET Numbers /\ Cr \notin Numbers /\ Text \notin Numbers
      /\ NewLine \notin Numbers /\ Text # Cr
  BY DEF Doubled, Numbers, Told, Cr, Text, NewLine
<1>2. ASSUME EchoOf(b) = <<b>>, b \notin Doubled
      PROVE  /\ Pairs(Doubled, e, s, t, EchoOf(b))
             /\ \A k \in 1..Len(EchoOf(b)) : EchoOf(b)[k] # Cr
  <2>1. EchoOf(b) \in Seq(Bytes) /\ \A k \in 1..Len(EchoOf(b)) : EchoOf(b)[k] = b
    BY <1>2
  <2> QED
    BY <1>1, <1>2, <2>1, PlainPairs
<1>3. ASSUME NEW c, EchoOf(b) = <<c, b>>, c \notin Doubled, b \in Doubled <=> c = Cr
      PROVE  Pairs(Doubled, e, s, t, EchoOf(b))
  <2>1. Len(EchoOf(b)) = 2 /\ EchoOf(b)[1] = c /\ EchoOf(b)[2] = b
    BY <1>3
  <2>2. ASSUME NEW k \in 1..Len(EchoOf(b)), k < Len(EchoOf(b))
        PROVE  EchoOf(b)[k+1] \in Doubled <=> EchoOf(b)[k] = Cr
    <3>1. k = 1 /\ k+1 = 2
      BY <2>1, <2>2
    <3> QED
      BY <1>3, <2>1, <3>1
  <2>3. EchoOf(b)[1] \notin Doubled /\ EchoOf(b)[Len(EchoOf(b))] # Cr
    BY <1>3, <2>1
  <2> QED
    BY <1>1, <2>2, <2>3, SendPairs
<1>4. CASE line = "rs485"
  <2>1. EchoOf(b) = <<b>> /\ b \notin Doubled
    BY <1>4 DEF EchoOf, Doubled
  <2> QED
    BY <1>2, <2>1
<1>5. CASE line # "rs485" /\ b \in Newlines
  <2>1. EchoOf(b) = <<Cr, b>> /\ b \in Doubled
    BY <1>5 DEF EchoOf, Doubled
  <2> QED
    BY <1>1, <1>3, <1>5, <2>1
<1>6. CASE line # "rs485" /\ b \notin Newlines /\ b = NewLine
  <2>1. EchoOf(b) = <<Text, b>> /\ b \notin Doubled
    BY <1>6 DEF EchoOf, Doubled
  <2> QED
    BY <1>1, <1>3, <1>6, <2>1
<1>7. CASE line # "rs485" /\ b \notin Newlines /\ b # NewLine
  <2>1. EchoOf(b) = <<b>> /\ b \notin Doubled
    BY <1>7 DEF EchoOf, Doubled
  <2> QED
    BY <1>2, <2>1
<1> QED
  BY <1>4, <1>5, <1>6, <1>7

LEMMA PairedKept == TypeOK /\ Paired /\ [Next]_vars => Paired'
<1> SUFFICES ASSUME TypeOK, Paired, [Next]_vars
             PROVE  Paired'
  OBVIOUS
<1> USE DEF wires, peer
<1>1. /\ todo \in Seq(Bytes) /\ echoed \in Echoes /\ line \in {"rs232", "rs485"}
      /\ tdr \in Byte /\ shift \in Byte /\ rdr \in Byte
  BY DEF TypeOK, Numbers, Byte, Echoes
<1>2. Empty = 0 /\ 0 # Cr /\ Doubled \in SUBSET Numbers
  BY DEF Empty, Cr, Doubled, Numbers, Told
<1>3. line' = line /\ Doubled' = Doubled
  <2>1. line' = line
    BY DEF Next, Main, Return, Greet, EnterLoop, Echo, NothingToEcho, Ping, NoPing, Rest,
           Wake, Turned, PollOut, PutDone, Drained, Tick, PeerSends, vars
  <2> QED
    BY <2>1 DEF Doubled
<1>4. ASSUME NEW x, NEW next \in {"loop", "poll", "rest"}, Send(x, next),
             pc \notin {"turn", "put"}, rdr' # Cr,
             UNCHANGED <<tdr, shift, echoed>>,
             Pairs(Doubled, echoed, shift, tdr, <<>>) => Pairs(Doubled, echoed, shift, tdr, x),
             line = "rs485" => \A k \in 1..Len(x) : x[k] # Cr
      PROVE  Paired'
  <2>1. todo = <<>> /\ todo' = x
    BY <1>4 DEF Paired, Send
  <2>2. Pairs(Doubled, echoed, shift, tdr, x)
    BY <1>4, <2>1 DEF Paired
  <2>3. pc' \in {"turn", "put"} /\ (pc' = "turn" => line = "rs485")
    BY <1>4 DEF Send
  <2>4. line = "rs485" => shift # Cr /\ tdr # Cr
    BY DEF Paired
  <2> QED
    BY <1>3, <1>4, <2>1, <2>2, <2>3, <2>4 DEF Paired
<1>5. ASSUME NEW x \in Seq(Bytes), \A k \in 1..Len(x) : x[k] # Cr /\ x[k] \notin Numbers
      PROVE  Pairs(Doubled, echoed, shift, tdr, <<>>) => Pairs(Doubled, echoed, shift, tdr, x)
  <2>1. \A k \in 1..Len(x) : x[k] # Cr /\ x[k] \notin Doubled
    BY <1>2, <1>5
  <2> QED
    BY <1>2, <2>1, PlainPairs
<1>6. CASE Greet
  <2>1. TextOf(HelloLength) \in Seq(Bytes)
    BY TextFacts
  <2>2. \A k \in 1..Len(TextOf(HelloLength)) :
           TextOf(HelloLength)[k] # Cr /\ TextOf(HelloLength)[k] \notin Numbers
    BY TextPlain
  <2>3. /\ pc = "start" /\ Send(TextOf(HelloLength), "loop")
        /\ UNCHANGED <<tdr, shift, echoed, rdr>> /\ rdr # Cr
    BY <1>6 DEF Greet, Paired
  <2> QED
    BY <1>4, <1>5, <2>1, <2>2, <2>3
<1>7. CASE Ping
  <2>1. TextOf(PingLength) \in Seq(Bytes)
    BY TextFacts
  <2>2. \A k \in 1..Len(TextOf(PingLength)) :
           TextOf(PingLength)[k] # Cr /\ TextOf(PingLength)[k] \notin Numbers
    BY TextPlain
  <2>3. /\ pc = "check" /\ Send(TextOf(PingLength), "rest")
        /\ UNCHANGED <<tdr, shift, echoed, rdr>> /\ rdr # Cr
    BY <1>7 DEF Ping, Paired
  <2> QED
    BY <1>4, <1>5, <2>1, <2>2, <2>3
<1>8. CASE Echo
  <2>1. /\ pc = "poll" /\ Send(EchoOf(rdr), "poll") /\ rdr' = Empty
        /\ UNCHANGED <<tdr, shift, echoed>> /\ rdr # Cr /\ rdr \in Bytes
    BY <1>1, <1>8 DEF Echo, Paired, Byte
  <2>2. /\ Pairs(Doubled, echoed, shift, tdr, <<>>) =>
               Pairs(Doubled, echoed, shift, tdr, EchoOf(rdr))
        /\ Pairs(Doubled, echoed, shift, tdr, <<>>) /\ line = "rs485" =>
               \A k \in 1..Len(EchoOf(rdr)) : EchoOf(rdr)[k] # Cr
    BY <1>1, <2>1, AnswerPairs
  <2>3. Pairs(Doubled, echoed, shift, tdr, <<>>)
    <3>1. todo = <<>>
      BY <2>1 DEF Paired
    <3> QED
      BY <3>1 DEF Paired
  <2> QED
    BY <1>2, <1>4, <2>1, <2>2, <2>3
<1>9. CASE EnterLoop \/ NothingToEcho \/ NoPing \/ Rest \/ Wake \/ Turned \/ PutDone
           \/ Drained \/ Return \/ UNCHANGED vars
  <2>1. UNCHANGED <<todo, tdr, shift, rdr, echoed>>
    BY <1>9 DEF EnterLoop, NothingToEcho, NoPing, Rest, Wake, Turned, PutDone, Drained,
                Return, vars
  <2>2. pc' = "turn" => pc = "turn"
    BY <1>9 DEF EnterLoop, NothingToEcho, NoPing, Rest, Wake, Turned, PutDone, Drained,
                Return, vars, TypeOK
  <2>3. pc' \notin {"turn", "put"} => pc \notin {"turn", "put"} \/ todo = <<>>
    BY <1>9 DEF EnterLoop, NothingToEcho, NoPing, Rest, Wake, Turned, PutDone, Drained,
                Return, vars
  <2> QED
    BY <1>3, <2>1, <2>2, <2>3 DEF Paired
<1>10. CASE PollOut
  <2>1. /\ todo # <<>> /\ tdr = 0 /\ todo' = Tail(todo) /\ pc' = "put"
        /\ \/ shift = 0 /\ shift' = todo[1] /\ tdr' = 0
           \/ shift # 0 /\ shift' = shift /\ tdr' = todo[1]
        /\ UNCHANGED <<rdr, echoed>>
    BY <1>1, <1>2, <1>10, HeadFacts DEF PollOut
  <2>2. Pairs(Doubled, echoed, shift', tdr', Tail(todo))
    BY <1>1, <1>2, <2>1, PutPairs DEF Paired
  <2>3. /\ 1 \in 1..Len(todo)
        /\ \A k \in 1..Len(Tail(todo)) : Tail(todo)[k] = todo[k+1] /\ k+1 \in 1..Len(todo)
    BY <1>1, <2>1, HeadFacts
  <2>4. ASSUME line = "rs485"
        PROVE  shift' # Cr /\ tdr' # Cr /\ \A k \in 1..Len(todo') : todo'[k] # Cr
    <3>1. shift # Cr /\ \A k \in 1..Len(todo) : todo[k] # Cr
      BY <2>4 DEF Paired
    <3> QED
      BY <1>2, <2>1, <2>3, <3>1
  <2>5. rdr' # Cr
    BY <2>1 DEF Paired
  <2> QED
    BY <1>3, <2>1, <2>2, <2>4, <2>5 DEF Paired
<1>11. CASE Tick
  <2>1. /\ shift' = tdr /\ tdr' = 0 /\ UNCHANGED <<rdr, todo, pc>>
        /\ \/ shift \in {Cr} \cup Numbers /\ echoed' = Append(echoed, shift)
           \/ shift \notin {Cr} \cup Numbers /\ echoed' = echoed
           \/ line # "rs232" /\ echoed' = echoed
    BY <1>2, <1>11 DEF Tick, Numbers
  <2>2. pc = "put" /\ todo # <<>> => tdr # Empty
    BY <1>11 DEF Tick, Waits
  <2>3. line = "rs485" => Doubled = {} /\ shift # Cr /\ tdr # Cr
    BY DEF Paired, Doubled
  <2>4. (todo # <<>> => tdr # Empty) \/ (Doubled = {} /\ shift # Cr /\ tdr # Cr)
    BY <2>2, <2>3 DEF Paired
  <2>5. \/ shift \in {Cr} \cup Numbers /\ echoed' = Append(echoed, shift)
        \/ shift \notin {Cr} \cup Numbers /\ echoed' = echoed
        \/ Doubled = {} /\ shift # Cr /\ echoed' = echoed
    BY <1>1, <2>1, <2>3
  <2>6. Pairs(Doubled, echoed', tdr, 0, todo)
    BY <1>1, <1>2, <2>4, <2>5, TickPairs DEF Paired
  <2> QED
    BY <1>2, <1>3, <2>1, <2>6 DEF Paired
<1>12. CASE PeerSends
  <2>1. UNCHANGED <<pc, todo, tdr, shift, echoed>>
    BY <1>12 DEF PeerSends
  <2>2. PICK b \in IF sent < MaxBytes THEN {sent+1} ELSE {Other, NewLine} :
            rdr' = rdr \/ rdr' \in Received(b)
    BY <1>12 DEF PeerSends
  <2>3. b # Cr
    BY <2>2 DEF TypeOK, Cr, Other, NewLine
  <2>4. Received(b) \subseteq {b, NoiseOf(b), Empty} /\ NoiseOf(b) # Cr /\ Empty # Cr
    BY DEF Received, NoiseOf, Other, Empty, Cr
  <2>5. rdr' # Cr
    BY <2>2, <2>3, <2>4 DEF Paired
  <2> QED
    BY <1>3, <2>1, <2>5 DEF Paired
<1> QED
  BY <1>6, <1>7, <1>8, <1>9, <1>10, <1>11, <1>12 DEF Next, Main

(***************************************************************************)
(* Noise.                                                                  *)
(***************************************************************************)

\* On RS-232 the line is never turned, and no byte is noise.
Plain(b) == b <= MaxBytes
Clean ==
    line = "rs232" =>
        /\ ~turned /\ pc \notin {"turn", "drain"}
        /\ Plain(shift) /\ Plain(tdr) /\ Plain(rdr)
        /\ \A k \in 1..Len(todo) : Plain(todo[k])
        /\ \A k \in 1..Len(echoed) : Plain(echoed[k])

LEMMA CleanKept == TypeOK /\ Clean /\ [Next]_vars => Clean'
<1> USE DEF wires, peer
<1> SUFFICES ASSUME TypeOK, Clean, [Next]_vars
             PROVE  Clean'
  OBVIOUS
<1>0. line' = line
  BY DEF Next, Main, Return, Greet, EnterLoop, Echo, NothingToEcho, Ping, NoPing, Rest,
         Wake, Turned, PollOut, PutDone, Drained, Tick, PeerSends, vars
<1> SUFFICES ASSUME line = "rs232"
             PROVE  Clean'
  BY <1>0 DEF Clean
<1>1. /\ todo \in Seq(Bytes) /\ echoed \in Echoes /\ sent \in 0..MaxBytes
      /\ tdr \in Byte /\ shift \in Byte /\ rdr \in Byte
  BY DEF TypeOK, Numbers, Byte, Echoes
<1>2. /\ ~turned /\ pc \notin {"turn", "drain"}
      /\ Plain(shift) /\ Plain(tdr) /\ Plain(rdr)
      /\ \A k \in 1..Len(todo) : Plain(todo[k])
      /\ \A k \in 1..Len(echoed) : Plain(echoed[k])
  BY DEF Clean
<1>3. Plain(Empty) /\ Plain(Text) /\ Plain(Cr) /\ Plain(Other) /\ Plain(NewLine)
  BY DEF Plain, Empty, Text, Cr, Other, NewLine
<1>4. ASSUME NEW x, NEW next \in {"loop", "poll", "rest"}, Send(x, next),
             rdr' \in {rdr, Empty}, UNCHANGED <<tdr, shift, echoed>>,
             \A k \in 1..Len(x) : Plain(x[k])
      PROVE  Clean'
  BY <1>2, <1>3, <1>4 DEF Send, Clean
<1>5. ASSUME NEW n \in Nat
      PROVE  \A k \in 1..Len(TextOf(n)) : Plain(TextOf(n)[k])
  <2>1. Len(TextOf(n)) = n
    BY TextFacts
  <2>2. \A k \in 1..n : TextOf(n)[k] = Text
    BY DEF TextOf
  <2> QED
    BY <1>3, <2>1, <2>2
<1>6. CASE Greet
  BY <1>4, <1>5, <1>6 DEF Greet
<1>7. CASE Ping
  BY <1>4, <1>5, <1>7 DEF Ping
<1>8. CASE Echo
  <2>1. rdr \in Bytes
    BY <1>8 DEF Echo, TypeOK
  <2>2. EchoOf(rdr) = <<rdr>> \/ \E c \in {Cr, Text} : EchoOf(rdr) = <<c, rdr>>
    BY DEF EchoOf
  <2>3. \A k \in 1..Len(EchoOf(rdr)) : Plain(EchoOf(rdr)[k])
    <3>1. CASE EchoOf(rdr) = <<rdr>>
      <4>1. Len(EchoOf(rdr)) = 1 /\ EchoOf(rdr)[1] = rdr /\ \A k \in 1..1 : k = 1
        BY <3>1
      <4> QED
        BY <1>2, <4>1
    <3>2. ASSUME NEW c \in {Cr, Text}, EchoOf(rdr) = <<c, rdr>>
          PROVE  \A k \in 1..Len(EchoOf(rdr)) : Plain(EchoOf(rdr)[k])
      <4>1. Len(EchoOf(rdr)) = 2 /\ EchoOf(rdr)[1] = c /\ EchoOf(rdr)[2] = rdr
            /\ \A k \in 1..2 : k = 1 \/ k = 2
        BY <3>2
      <4> QED
        BY <1>2, <1>3, <4>1
    <3> QED
      BY <2>2, <3>1, <3>2
  <2> QED
    BY <1>4, <1>8, <2>3 DEF Echo
<1>9. CASE EnterLoop \/ NothingToEcho \/ NoPing \/ Rest \/ Wake \/ Turned \/ PutDone
           \/ Drained \/ Return \/ UNCHANGED vars
  <2>1. UNCHANGED <<todo, tdr, shift, rdr, echoed, turned>>
    BY <1>2, <1>9 DEF EnterLoop, NothingToEcho, NoPing, Rest, Wake, Turned, PutDone, Drained,
                      Return, vars
  <2>2. pc' \notin {"turn", "drain"}
    BY <1>2, <1>9 DEF EnterLoop, NothingToEcho, NoPing, Rest, Wake, Turned, PutDone, Drained,
                      Return, vars, TypeOK
  <2> QED
    BY <1>2, <2>1, <2>2 DEF Clean
<1>10. CASE PollOut
  <2>1. /\ todo' = Tail(todo) /\ UNCHANGED <<rdr, echoed, turned, pc>>
        /\ shift' \in {shift, todo[1]} /\ tdr' \in {tdr, todo[1]} /\ 1 \in 1..Len(todo)
        /\ \A k \in 1..Len(Tail(todo)) : Tail(todo)[k] = todo[k+1] /\ k+1 \in 1..Len(todo)
    BY <1>1, <1>10, HeadFacts DEF PollOut
  <2> QED
    BY <1>2, <2>1 DEF Clean
<1>11. CASE Tick
  <2>1. /\ shift' = tdr /\ tdr' = Empty /\ ~turned' /\ UNCHANGED <<rdr, todo, pc>>
        /\ echoed' = echoed \/ (shift \in {Cr} \cup Numbers /\ echoed' = Append(echoed, shift))
    BY <1>11 DEF Tick, Numbers
  <2>2. \A k \in 1..Len(echoed') : Plain(echoed'[k])
    <3>1. CASE echoed' = echoed
      BY <1>2, <3>1
    <3>2. CASE shift \in {Cr} \cup Numbers /\ echoed' = Append(echoed, shift)
      <4>1. /\ Len(echoed) \in Nat /\ Len(echoed') = Len(echoed)+1
            /\ \A k \in 1..Len(echoed) : echoed'[k] = echoed[k]
            /\ echoed'[Len(echoed)+1] = shift
        BY <1>1, <3>2, AppendFacts
      <4>2. \A k \in 1..Len(echoed') : k \in 1..Len(echoed) \/ k = Len(echoed)+1
        BY <4>1
      <4> QED
        BY <1>2, <4>1, <4>2
    <3> QED
      BY <2>1, <3>1, <3>2
  <2> QED
    BY <1>2, <1>3, <2>1, <2>2 DEF Clean
<1>12. CASE PeerSends
  <2>1. UNCHANGED <<pc, todo, tdr, shift, echoed, turned>>
    BY <1>12 DEF PeerSends
  <2>2. PICK b \in IF sent < MaxBytes THEN {sent+1} ELSE {Other, NewLine} :
            rdr' = rdr \/ rdr' \in Received(b)
    BY <1>12 DEF PeerSends
  <2>3. Plain(b)
    BY <1>1, <1>3, <2>2 DEF Plain
  <2>4. Received(b) \subseteq {b, Empty}
    BY <1>2 DEF Received
  <2>5. Plain(rdr')
    BY <1>2, <1>3, <2>2, <2>3, <2>4
  <2> QED
    BY <1>2, <2>1, <2>5 DEF Clean
<1> QED
  BY <1>6, <1>7, <1>8, <1>9, <1>10, <1>11, <1>12 DEF Next, Main

\* All that leaves the board in answer to the told-apart bytes answers them at most
\* once each and in order, with the byte itself or, on RS-485 alone, its noise, and
\* on RS-232 with a '\r' exactly in front of the newlines, whichever bytes are lost
\* and however many there are.
THEOREM EchoesKeepOrder == Spec => []EchoInOrder
<1>1. Init => Rising /\ Paired /\ Clean
  <2> SUFFICES ASSUME Init
               PROVE  Rising /\ Paired /\ Clean
    OBVIOUS
  <2>1. 0 \notin Numbers /\ Empty = 0 /\ Cr # 0 /\ Len(<<>>) = 0
    BY DEF Numbers, Told, Empty, Cr
  <2>2. Rising
    <3>1. Source(0) = 0
      BY DEF Source
    <3> QED
      BY <2>1, <3>1 DEF Init, Rising, Rises, Ordered
  <2>3. Doubled \subseteq Numbers
    BY DEF Doubled, Numbers, Told
  <2>4. Paired
    BY <2>1, <2>3 DEF Init, Paired, Pairs, CrOut, Front
  <2>5. Clean
    BY <2>1 DEF Init, Clean, Plain
  <2> QED
    BY <2>2, <2>4, <2>5
<1>2. TypeOK /\ Rising /\ Paired /\ Clean => EchoInOrder
  <2> SUFFICES ASSUME TypeOK, Rising, Paired, Clean
               PROVE  EchoInOrder
    OBVIOUS
  <2>1. ASSUME NEW k \in 1..Len(echoed), echoed[k] # Cr
        PROVE  /\ Source(echoed[k]) <= sent
               /\ \A j \in 1..k-1 : Source(echoed[j]) < Source(echoed[k])
               /\ echoed[k] > MaxBytes => line = "rs485"
               /\ (line = "rs232" /\ echoed[k] \in Newlines) <=> (k > 1 /\ echoed[k-1] = Cr)
    <3>1. /\ Source(echoed[k]) <= sent
          /\ \A j \in 1..k-1 : Source(echoed[j]) < Source(echoed[k])
      BY <2>1 DEF Rising, Rises, Ordered
    <3>2. echoed[k] \in Doubled <=> (k > 1 /\ echoed[k-1] = Cr)
      BY <2>1 DEF Paired, Pairs
    <3>3. echoed[k] \in Doubled <=> (line = "rs232" /\ echoed[k] \in Newlines)
      BY DEF Doubled
    <3>4. echoed[k] > MaxBytes => line = "rs485"
      <4>1. echoed[k] \in Int
        <5>1. echoed[k] \in Byte
          BY <2>1, ByteFacts DEF TypeOK, Numbers, Byte
        <5> QED
          BY <5>1, ByteFacts
      <4>2. line \in {"rs232", "rs485"}
        BY DEF TypeOK
      <4> QED
        BY <2>1, <4>1, <4>2 DEF Clean, Plain
    <3> QED
      BY <3>1, <3>2, <3>3, <3>4
  <2>2. DOMAIN echoed = 1..Len(echoed)
    BY DEF TypeOK, Echoes
  <2> QED
    BY <2>1, <2>2 DEF EchoInOrder
<1>3. Spec => [](TypeOK /\ Rising /\ Paired /\ Clean)
  BY <1>1, RisingKept, PairedKept, CleanKept, TypeCorrect, PTL DEF Spec
<1> QED
  BY <1>2, <1>3, PTL
=============================================================================
