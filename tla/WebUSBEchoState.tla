-------------------------- MODULE WebUSBEchoState ---------------------------
(***************************************************************************)
(* The state of the bulk echo function of 16.webusb/src/sfunc.c, of the    *)
(* stack and of the host, and what is to hold of it; WebUSBEcho has the    *)
(* steps.                                                                  *)
(***************************************************************************)
EXTENDS Integers, Sequences

CONSTANTS
    Packets,        \* the data of a packet
    MaxTaken,       \* bound: packets taken while the function stays enabled
    MaxFailures     \* bound: failed transfers and refused enqueues

ASSUME EchoBounds == MaxTaken \in Nat /\ MaxFailures \in Nat

VARIABLES
    configured, \* stack: the host has selected the configuration
    state,      \* SAMPLE_FUNCTION_ENABLED
    free,       \* buffers in sfunc_pool (it holds one)
    ep,         \* bi->ep while the stack holds the buffer, "none" otherwise
    ended,      \* stack: how the transfer ended, "no" while it is running
    data,       \* contents of sfunc_buf: the packets stored in it
    crashed,    \* net_buf_reset was called on NULL
    taken,      \* history: packets received since the function was enabled
    echoed,     \* history: contents of the IN transfers the host got since
    failures    \* history: failed transfers and refused enqueues

\* Every variable has its type.
EchoTypeOK ==
    /\ configured \in BOOLEAN /\ state \in BOOLEAN /\ crashed \in BOOLEAN
    /\ free \in 0..1
    /\ ep \in {"none", "out", "in"}
    /\ ended \in {"no", "ok", "error"}
    /\ data \in Seq(Packets) /\ taken \in Seq(Packets)
    /\ echoed \in Seq(Seq(Packets))
    /\ Len(taken) <= MaxTaken
    /\ failures \in 0..MaxFailures

\* The n-th IN transfer carries exactly the n-th packet taken since the
\* configuration was selected: nothing left over from an earlier packet or an
\* earlier configuration, nothing skipped, repeated or swapped.
EchoInOrder ==
    /\ Len(echoed) <= Len(taken)
    /\ \A n \in 1..Len(echoed) : echoed[n] = <<taken[n]>>

\* The one buffer is back in the pool whenever the host selects the
\* configuration, however the previous one ended; sfunc_buf_alloc would
\* otherwise reset a buffer that is not there (sfunc.c:130).
BufferComesBack == ~crashed
=============================================================================
