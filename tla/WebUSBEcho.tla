----------------------------- MODULE WebUSBEcho -----------------------------
(***************************************************************************)
(* The bulk echo function of 16.webusb/src/sfunc.c.  It owns one transfer  *)
(* buffer: enabling the function takes it from the pool and queues it on   *)
(* the OUT endpoint, a completed OUT transfer queues it on the IN endpoint *)
(* with the data received, a completed IN transfer queues it on OUT again, *)
(* and a transfer that ends with an error, or ends while the function is   *)
(* disabled, gives it back.                                                *)
(*                                                                         *)
(* The USB device stack is external.  It calls sfunc_enable and            *)
(* sfunc_disable when the host selects and leaves the configuration, and   *)
(* sfunc_request_handler some time after a transfer ended: the ends of     *)
(* transfers and the control requests pass through one queue of events,    *)
(* so a transfer that ended before a request is handled before it.         *)
(***************************************************************************)
EXTENDS WebUSBEchoState

buffer == <<free, ep, data>>
stack == <<configured, ended>>
history == <<taken, echoed>>
vars == <<configured, state, free, ep, ended, data, crashed, taken, echoed, failures>>

Init ==
    /\ configured = FALSE /\ state = FALSE
    /\ free = 1 /\ ep = "none" /\ ended = "no" /\ data = <<>>
    /\ crashed = FALSE
    /\ taken = <<>> /\ echoed = <<>> /\ failures = 0

Failure == failures < MaxFailures /\ failures' = failures + 1

\* usbd_ep_enqueue of the buffer on endpoint e, and its release when the
\* stack refuses it; the buffer is not in the pool before.
Enqueue(e) ==
    \/ ep' = e /\ free' = 0 /\ UNCHANGED failures
    \/ ep' = "none" /\ free' = 1 /\ Failure

(***************************************************************************)
(* Callbacks of the function.                                              *)
(***************************************************************************)

\* The bit is set, the buffer taken and queued on OUT.  sfunc_buf_alloc resets
\* the buffer before it looks whether there is one.
sfunc_enable ==
    /\ ~configured /\ ended = "no"
    /\ configured' = TRUE
    /\ taken' = <<>> /\ echoed' = <<>>
    /\ state' = TRUE
    /\ IF state THEN UNCHANGED <<buffer, crashed, failures>>
       ELSE IF free = 0 THEN crashed' = TRUE /\ UNCHANGED <<buffer, failures>>
       ELSE data' = <<>> /\ Enqueue("out") /\ UNCHANGED crashed
    /\ UNCHANGED ended

\* Bug for comparison: the buffer is freed here already.
MutDisable ==
    /\ configured
    /\ configured' = FALSE
    /\ state' = FALSE
    /\ ended' = IF ep # "none" /\ ended = "no" THEN "error" ELSE ended
    /\ free' = 1
    /\ UNCHANGED <<ep, data, crashed, history, failures>>

\* The endpoints are disabled with the configuration: a running transfer ends.
sfunc_disable ==
    /\ configured
    /\ configured' = FALSE
    /\ state' = FALSE
    /\ ended' = IF ep # "none" /\ ended = "no" THEN "error" ELSE ended
    /\ UNCHANGED <<buffer, crashed, history, failures>>

\* Bug for comparison: the buffer of an IN transfer is queued without a reset.
MutContents == data
\* What the buffer holds once it is queued again: net_buf_reset after IN.
Contents == IF ep = "in" THEN <<>> ELSE data

\* Bug for comparison: what was received is not sent back.
MutOther(e) == "out"
\* The direction a completed transfer is queued in next.
Other(e) == IF e = "in" THEN "out" ELSE "in"

\* sfunc_request_handler, enabled and err = 0.
RequestDone ==
    /\ ended = "ok" /\ state
    /\ ended' = "no"
    /\ data' = Contents
    /\ Enqueue(Other(ep))
    /\ UNCHANGED <<configured, state, crashed, history>>

\* Bug for comparison: the buffer of a failed transfer is not freed.
MutRequestOver ==
    /\ ended = "error" \/ (ended = "ok" /\ ~state)
    /\ ended' = "no"
    /\ ep' = "none" /\ UNCHANGED free
    /\ UNCHANGED <<configured, state, data, crashed, history, failures>>

\* sfunc_request_handler, disabled or err # 0.
RequestOver ==
    /\ ended = "error" \/ (ended = "ok" /\ ~state)
    /\ ended' = "no"
    /\ ep' = "none" /\ free' = free + 1
    /\ UNCHANGED <<configured, state, data, crashed, history, failures>>

sfunc_request_handler == RequestDone \/ RequestOver

(***************************************************************************)
(* The stack and the host.                                                 *)
(***************************************************************************)

\* The host sends a packet, which is stored behind what the buffer holds.
PacketOut(p) ==
    /\ configured /\ ep = "out" /\ ended = "no"
    /\ Len(taken) < MaxTaken
    /\ data' = Append(data, p)
    /\ taken' = Append(taken, p)
    /\ ended' = "ok"
    /\ UNCHANGED <<configured, state, free, ep, crashed, echoed, failures>>

\* The host fetches the IN transfer.
PacketIn ==
    /\ configured /\ ep = "in" /\ ended = "no"
    /\ echoed' = Append(echoed, data)
    /\ ended' = "ok"
    /\ UNCHANGED <<configured, state, buffer, crashed, taken, failures>>

TransferFails ==
    /\ configured /\ ep # "none" /\ ended = "no"
    /\ Failure
    /\ ended' = "error"
    /\ UNCHANGED <<configured, state, buffer, crashed, history>>

Host == (\E p \in Packets : PacketOut(p)) \/ PacketIn \/ TransferFails

Next == sfunc_enable \/ sfunc_disable \/ sfunc_request_handler \/ Host

\* The thread of the stack runs, and a host that sent a packet fetches the
\* answer; nothing forces the host to configure the device or to send.
Spec == /\ Init /\ [][Next]_vars
        /\ WF_vars(sfunc_request_handler) /\ WF_vars(PacketIn)

(***************************************************************************)
(* Properties (see also WebUSBEchoState).                                  *)
(***************************************************************************)

\* A packet taken is echoed and the function listens for the next one, unless
\* the configuration is left or a failure gave the buffer back.
EchoReturns ==
    \A n \in 1..MaxTaken :
        Len(taken) = n ~> \/ Len(echoed) >= n /\ ep = "out"
                          \/ ~configured
                          \/ ep = "none"
=============================================================================
