----------------------------- MODULE SerialEcho -----------------------------
(***************************************************************************)
(* The serial echo programs 6.rs232/src/main.c and 7.rs485/src/main.c: one *)
(* loop that echoes what a polled UART received, sends a PING line every   *)
(* second and sleeps 1 ms.  On RS-485 everything is sent by rs485_send_buf,*)
(* which turns the transceiver to sending and back; on RS-232 the line is  *)
(* full duplex and a newline is echoed as "\r\n".                          *)
(*                                                                         *)
(* The UART is external: a receive register of one byte, a transmit        *)
(* register and a shift register.  Time is counted in byte times of the    *)
(* line (87 us at 115200-8-N-1).  main is the only thread and its own      *)
(* instructions take no time: time passes when it sleeps, busy-waits or    *)
(* blocks in uart_poll_out on a full transmit register.                    *)
(***************************************************************************)
EXTENDS Integers, Sequences

CONSTANTS
    Lines,        \* the programs: a subset of {"rs232", "rs485"}
    MaxBytes,     \* bytes of the peer that are told apart
    Newlines,     \* the ones among them that are '\n'
    TurnTicks,    \* k_busy_wait(100)
    TailTicks,    \* k_msleep(2)
    LoopTicks,    \* k_msleep(1)
    PingTicks,    \* 1000 ms
    PingLength, HelloLength   \* bytes of a PING line, of the greeting

ASSUME LinesAssumption == Lines \subseteq {"rs232", "rs485"}
ASSUME BytesAssumption == MaxBytes \in Nat /\ Newlines \subseteq 1..MaxBytes
ASSUME TicksAssumption ==
    /\ TurnTicks \in Nat /\ LoopTicks \in Nat \ {0} /\ PingTicks \in Nat \ {0}
    /\ TailTicks \in Nat /\ TailTicks >= 2      \* 2 ms are 23 byte times
ASSUME LengthsAssumption == PingLength \in Nat /\ HelloLength \in Nat

VARIABLES
    line,       \* which of the programs runs
    pc,         \* where main is
    todo,       \* bytes the current send has still to put
    after,      \* where main goes on after the send
    wait,       \* byte times main still sleeps or busy-waits
    since,      \* byte times since last_ping, as far as they matter
    sending,    \* rs485_dir: the transceiver drives the line
    tdr, shift, \* UART: transmit register, shift register
    rdr,        \* UART: receive register
    sent,       \* bytes the peer has sent, up to MaxBytes
    heard,      \* a byte of the peer ended since the last Tick
    turned,     \* the direction changed since the last Tick
    pause,      \* byte times since the peer's last byte, as far as they matter
    echoed      \* history: what left the board in answer to the peer

wires == <<sending, turned>>
peer == <<sent, heard, pause>>
vars == <<line, pc, todo, after, wait, since, sending, tdr, shift, rdr,
          sent, heard, turned, pause, echoed>>

\* Bytes: the peer's n-th one is n, and MaxBytes + n what the receiver makes of
\* it when the line is turned under it (noise); '\r'; the text of a line; what
\* the peer sends later, newlines and the rest; no byte.
Cr == -1
Text == -2
Other == -3
NewLine == -4
Empty == 0
Told == 1..2*MaxBytes
Bytes == {Cr, Text, Other, NewLine} \cup Told

\* The place among the peer's bytes of the one that b is, or is the noise of.
Source(b) == IF b > MaxBytes THEN b - MaxBytes ELSE b
NoiseOf(b) == IF b \in 1..MaxBytes THEN b + MaxBytes ELSE Other

Lowest(a, b) == IF a < b THEN a ELSE b
TextOf(n) == [i \in 1..n |-> Text]

\* What turning the line adds to a send, at most.
TurnAround == IF line = "rs485" THEN TurnTicks + TailTicks+1 ELSE 0

\* The time an echo takes, at most: on RS-232 there may be two newlines of two
\* bytes to be sent, the one being echoed and the one that waits.
EchoTime == IF line = "rs485" THEN TurnAround ELSE 4

\* The longest time between two looks at the receive register: a PING line is
\* sent and the loop sleeps.
LongestTurn == PingLength + LoopTicks+1 + TurnAround

\* Bug for comparison: the carriage return follows the newline.
MutEchoOf(b) ==
    IF line = "rs485" THEN <<b>>
    ELSE IF b \in Newlines THEN <<b, Cr>>
    ELSE IF b = NewLine THEN <<b, Text>> ELSE <<b>>

\* What is sent in answer to a byte.  (The '\r' of a newline that is not told
\* apart is not told apart either.)
EchoOf(b) ==
    IF line = "rs485" THEN <<b>>
    ELSE IF b \in Newlines THEN <<Cr, b>>
    ELSE IF b = NewLine THEN <<Text, b>> ELSE <<b>>

Init ==
    /\ line \in Lines
    /\ pc = "start" /\ todo = <<>> /\ after = "loop" /\ wait = 0 /\ since = 0
    /\ sending = FALSE /\ turned = FALSE
    /\ tdr = Empty /\ shift = Empty /\ rdr = Empty
    /\ sent = 0 /\ heard = FALSE /\ pause = 0 /\ echoed = <<>>

(***************************************************************************)
(* Sending: uart_puts on RS-232, rs485_send_buf on RS-485.                 *)
(***************************************************************************)

\* A kernel sleep ends with the tick that follows its time.
Sleep(n) == wait' \in {n, n+1}

\* Sending starts; main goes on at next.
Send(bytes, next) ==
    /\ todo' = bytes /\ after' = next
    /\ IF line = "rs485"
       THEN pc' = "turn" /\ sending' = TRUE /\ turned' = TRUE /\ wait' = TurnTicks
       ELSE pc' = "put" /\ UNCHANGED <<wires, wait>>

\* The bus had its time to turn.
Turned ==
    /\ pc = "turn" /\ wait = 0
    /\ pc' = "put"
    /\ UNCHANGED <<line, todo, after, wait, since, wires, tdr, shift, rdr, peer, echoed>>

\* uart_poll_out: waits for an empty transmit register, which an idle shift
\* register empties at once.
PollOut ==
    /\ pc = "put" /\ todo # <<>> /\ tdr = Empty
    /\ IF shift = Empty
       THEN shift' = Head(todo) /\ UNCHANGED tdr
       ELSE tdr' = Head(todo) /\ UNCHANGED shift
    /\ todo' = Tail(todo)
    /\ UNCHANGED <<line, pc, after, wait, since, wires, rdr, peer, echoed>>

\* Bug for comparison: no sleep before the transceiver is turned.
MutPutDone ==
    /\ pc = "put" /\ todo = <<>>
    /\ pc' = (IF line = "rs485" THEN "drain" ELSE after)
    /\ UNCHANGED <<line, todo, after, wait, since, wires, tdr, shift, rdr, peer, echoed>>

\* All bytes are put: RS-485 waits for the last ones to leave.
PutDone ==
    /\ pc = "put" /\ todo = <<>>
    /\ IF line = "rs485"
       THEN pc' = "drain" /\ Sleep(TailTicks)
       ELSE pc' = after /\ UNCHANGED wait
    /\ UNCHANGED <<line, todo, after, since, wires, tdr, shift, rdr, peer, echoed>>

\* rs485_set_rx.
Drained ==
    /\ pc = "drain" /\ wait = 0
    /\ sending' = FALSE /\ turned' = TRUE /\ pc' = after
    /\ UNCHANGED <<line, todo, after, wait, since, tdr, shift, rdr, peer, echoed>>

(***************************************************************************)
(* main.                                                                   *)
(***************************************************************************)

\* Devices that are not ready, or a pin that cannot be configured.
Return ==
    /\ pc = "start" /\ pc' = "ended"
    /\ UNCHANGED <<line, todo, after, wait, since, wires, tdr, shift, rdr, peer, echoed>>

Greet ==
    /\ pc = "start"
    /\ Send(TextOf(HelloLength), "loop")
    /\ UNCHANGED <<line, since, tdr, shift, rdr, peer, echoed>>

\* last_ping = k_uptime_get() before the loop.
EnterLoop ==
    /\ pc = "loop"
    /\ pc' = "poll" /\ since' = 0
    /\ UNCHANGED <<line, todo, after, wait, wires, tdr, shift, rdr, peer, echoed>>

\* uart_poll_in returns a byte, which is echoed.
Echo ==
    /\ pc = "poll" /\ rdr # Empty
    /\ rdr' = Empty
    /\ Send(EchoOf(rdr), "poll")
    /\ UNCHANGED <<line, since, tdr, shift, peer, echoed>>

\* uart_poll_in returns nothing.
NothingToEcho ==
    /\ pc = "poll" /\ rdr = Empty
    /\ pc' = "check"
    /\ UNCHANGED <<line, todo, after, wait, since, wires, tdr, shift, rdr, peer, echoed>>

Ping ==
    /\ pc = "check" /\ since >= PingTicks
    /\ since' = 0
    /\ Send(TextOf(PingLength), "rest")
    /\ UNCHANGED <<line, tdr, shift, rdr, peer, echoed>>

\* Bug for comparison: last_ping is brought forward although nothing is due.
MutNoPing ==
    /\ pc = "check" /\ since < PingTicks
    /\ pc' = "rest" /\ since' = 0
    /\ UNCHANGED <<line, todo, after, wait, wires, tdr, shift, rdr, peer, echoed>>

NoPing ==
    /\ pc = "check" /\ since < PingTicks
    /\ pc' = "rest"
    /\ UNCHANGED <<line, todo, after, wait, since, wires, tdr, shift, rdr, peer, echoed>>

\* Bug for comparison: twice the sleep.
MutRest ==
    /\ pc = "rest" /\ pc' = "sleep" /\ Sleep(2 * LoopTicks)
    /\ UNCHANGED <<line, todo, after, since, wires, tdr, shift, rdr, peer, echoed>>

\* k_msleep(1).
Rest ==
    /\ pc = "rest" /\ pc' = "sleep" /\ Sleep(LoopTicks)
    /\ UNCHANGED <<line, todo, after, since, wires, tdr, shift, rdr, peer, echoed>>

\* Bug for comparison: the loop does not sleep to the end.
MutWake ==
    /\ pc = "sleep" /\ pc' = "poll"
    /\ UNCHANGED <<line, todo, after, wait, since, wires, tdr, shift, rdr, peer, echoed>>

Wake ==
    /\ pc = "sleep" /\ wait = 0 /\ pc' = "poll"
    /\ UNCHANGED <<line, todo, after, wait, since, wires, tdr, shift, rdr, peer, echoed>>

Main ==
    \/ Greet \/ EnterLoop \/ Echo \/ NothingToEcho \/ Ping \/ NoPing \/ Rest \/ Wake
    \/ Turned \/ PollOut \/ PutDone \/ Drained

(***************************************************************************)
(* The UART, the line and the peer.                                        *)
(***************************************************************************)

\* main lets time pass.
Waits ==
    \/ pc \in {"turn", "drain", "sleep"} /\ wait > 0
    \/ pc = "put" /\ todo # <<>> /\ tdr # Empty
    \/ pc = "ended"

\* A byte time: the shift register is out and takes the next byte.  Off an
\* RS-485 line that the transceiver does not drive, nothing arrives.
Tick ==
    /\ Waits
    /\ wait' = (IF wait > 0 THEN wait-1 ELSE 0)
    /\ since' = Lowest(since+1, PingTicks)
    /\ pause' = Lowest(pause+1, LongestTurn+1)
    /\ heard' = FALSE /\ turned' = FALSE
    /\ shift' = tdr /\ tdr' = Empty
    /\ echoed' = IF shift \in {Cr} \cup Told /\ (line = "rs232" \/ sending)
                 THEN Append(echoed, shift) ELSE echoed
    /\ UNCHANGED <<line, pc, todo, after, sending, rdr, sent>>

\* What the receiver makes of a byte b of the peer: with the transceiver
\* sending it hears nothing, and of a byte that was under way when it turned,
\* noise or nothing.
Received(b) ==
    IF turned THEN {NoiseOf(b), Empty} ELSE IF sending THEN {Empty} ELSE {b}

\* A byte of the peer ends, at most one in a byte time.  While the receive
\* register is full it is lost.  Bytes beyond MaxBytes are not told apart.
PeerSends ==
    /\ ~heard
    /\ heard' = TRUE /\ pause' = 0
    /\ sent' = Lowest(sent+1, MaxBytes)
    /\ \E b \in IF sent < MaxBytes THEN {sent+1} ELSE {Other, NewLine} :
       \E r \in Received(b) : rdr' = IF rdr = Empty THEN r ELSE rdr
    /\ UNCHANGED <<line, pc, todo, after, wait, since, wires, tdr, shift, echoed>>

Next == Main \/ Return \/ Tick \/ PeerSends

Spec == Init /\ [][Next]_vars

\* main runs, and time passes.
LiveSpec == Spec /\ WF_vars(Main) /\ WF_vars(Tick)

(***************************************************************************)
(* Properties.                                                             *)
(***************************************************************************)

\* Every variable has its type; main waits only where it sleeps.
TypeOK ==
    /\ line \in Lines
    /\ pc \in {"start", "loop", "poll", "check", "rest", "sleep", "turn", "put",
               "drain", "ended"}
    /\ todo \in Seq(Bytes) /\ after \in {"loop", "poll", "rest"}
    /\ wait \in Nat /\ (wait > 0 => pc \in {"turn", "drain", "sleep"})
    /\ since \in 0..PingTicks /\ pause \in 0..LongestTurn+1
    /\ sending \in BOOLEAN /\ turned \in BOOLEAN /\ heard \in BOOLEAN
    /\ {tdr, shift, rdr} \subseteq Bytes \cup {Empty}
    /\ sent \in 0..MaxBytes /\ echoed \in Seq({Cr} \cup Told)

\* 7.rs485/src/main.c:33, the last byte is out before the direction is
\* switched: whenever the transceiver does not drive the line, no byte of the
\* board is in the UART, so none is cut off.
NothingCutOff == line = "rs485" /\ ~sending => tdr = Empty /\ shift = Empty

\* What leaves in answer to the bytes that are told apart, all of it recorded:
\* although bytes are lost to overruns and to the half-duplex line, each is
\* answered at most once and in the order they were sent, and with what was
\* received - on RS-485 either the byte or the noise of it ("whatever is received
\* is echoed", 7.rs485/src/main.c:5), on RS-232 the byte, with a '\r' in front of
\* the newlines and of nothing else (6.rs232/src/main.c:64).  That '\r' is not in
\* what 6.rs232/src/main.c:7 says, "the received bytes are echoed unchanged".
EchoInOrder ==
    \A i \in DOMAIN echoed : echoed[i] # Cr =>
        /\ Source(echoed[i]) <= sent
        /\ \A j \in 1..i-1 : Source(echoed[j]) < Source(echoed[i])
        /\ echoed[i] > MaxBytes => line = "rs485"
        /\ (line = "rs232" /\ echoed[i] \in Newlines) <=> (i > 1 /\ echoed[i-1] = Cr)

\* The receiver holds one byte, and the loop sleeps, sends and turns the line
\* between two looks at it: from the first answer on, a byte that comes
\* LongestTurn after the one before finds the register empty.
PausedBytesFit == after # "loop" /\ rdr # Empty => pause <= LongestTurn

\* 6.rs232/src/main.c:58, "Every 1s the MCU sends a PING line": PING lines keep
\* coming - except from a peer that for ever leaves no pause longer than an echo
\* takes, which can keep main in the loop that echoes.
PingsKeepComing ==
    []<>(pc = "ended" \/ (since = 0 /\ after = "rest")) \/ <>[](pause <= EchoTime)
=============================================================================
