---------------------------- MODULE HidKeyboard -----------------------------
(***************************************************************************)
(* The USB keyboard of 17.hid_keyboard/src/main.c.  The input callback     *)
(* (CONFIG_INPUT_MODE_SYNCHRONOUS: in the context of the gpio-keys driver) *)
(* puts key events into a message queue of two; main takes them, keeps the *)
(* report and submits it.  The USB device stack and the host are external: *)
(* they switch the interface on and off, suspend and resume the bus, and   *)
(* fetch the submitted report when the host polls.                         *)
(***************************************************************************)
EXTENDS HidKeyboardState

board == <<pressed, edges>>
usb == <<kb_ready, suspended, wakeup>>
history == <<missed, upToDate>>
vars == <<pressed, kb_msgq, report, pc, press, kb_ready, suspended, wakeup,
          host, missed, upToDate, edges>>

Init ==
    /\ pressed = {} /\ kb_msgq = <<>> /\ report = {}
    /\ pc = "get" /\ press = FALSE
    /\ kb_ready = FALSE /\ suspended = FALSE /\ wakeup = FALSE
    /\ host = {} /\ missed = {} /\ upToDate = TRUE
    /\ edges = 0

(***************************************************************************)
(* input_cb: an event that finds the queue full is dropped.                *)
(***************************************************************************)
KeyEdge(k) ==
    /\ edges < MaxEdges /\ edges' = edges + 1
    /\ pressed' = IF k \in pressed THEN pressed \ {k} ELSE pressed \cup {k}
    /\ IF Len(kb_msgq) < QueueSize
       THEN /\ kb_msgq' = Append(kb_msgq, [code |-> k, value |-> k \in pressed'])
            /\ missed' = missed \ {k}
       ELSE /\ missed' = missed \cup {k}
            /\ UNCHANGED kb_msgq
    /\ UNCHANGED <<report, pc, press, usb, host, upToDate>>

(***************************************************************************)
(* main.                                                                   *)
(***************************************************************************)

\* Bug for comparison: an unknown key gets into the report.
MutApplied(e) == IF e.value THEN report \cup {e.code} ELSE report \ {e.code}
\* The fields of the event's key; an unknown key leaves the report.
Applied(e) == IF e.code \notin Keys THEN report
              ELSE IF e.value THEN report \cup {e.code} ELSE report \ {e.code}

\* Bug for comparison: changes are dropped while the interface is not ready.
MutTake ==
    /\ pc = "get" /\ kb_msgq # <<>>
    /\ LET e == Head(kb_msgq)
       IN  /\ report' = IF kb_ready THEN Applied(e) ELSE report
           /\ press' = e.value
           /\ pc' = IF e.code \in Keys THEN "ready" ELSE "get"
           /\ upToDate' = (upToDate /\ e.code \notin Keys)
    /\ kb_msgq' = Tail(kb_msgq)
    /\ UNCHANGED <<board, usb, host, missed>>

Take ==
    /\ pc = "get" /\ kb_msgq # <<>>
    /\ LET e == Head(kb_msgq)
       IN  /\ report' = Applied(e)
           /\ press' = e.value
           /\ pc' = IF e.code \in Keys THEN "ready" ELSE "get"
           /\ upToDate' = (upToDate /\ e.code \notin Keys)
    /\ kb_msgq' = Tail(kb_msgq)
    /\ UNCHANGED <<board, usb, host, missed>>

CheckReady ==
    /\ pc = "ready"
    /\ pc' = IF kb_ready THEN "bus" ELSE "get"
    /\ UNCHANGED <<board, kb_msgq, report, press, usb, host, history>>

\* Bug for comparison: a release requests the wakeup.
MutCheckSuspended ==
    /\ pc = "bus"
    /\ IF RemoteWakeup /\ suspended
       THEN pc' = "get" /\ wakeup' = (wakeup \/ ~press)
       ELSE pc' = "submit" /\ UNCHANGED wakeup
    /\ UNCHANGED <<board, kb_msgq, report, press, kb_ready, suspended, host, history>>

\* On a suspended bus a press requests a wakeup; the report is not submitted.
CheckSuspended ==
    /\ pc = "bus"
    /\ IF RemoteWakeup /\ suspended
       THEN pc' = "get" /\ wakeup' = (wakeup \/ press)
       ELSE pc' = "submit" /\ UNCHANGED wakeup
    /\ UNCHANGED <<board, kb_msgq, report, press, kb_ready, suspended, host, history>>

\* hid_device_submit_report queues the report and, without an
\* input_report_done callback, waits until the host fetched it; it fails if
\* the interface is gone.
Submit ==
    /\ pc = "submit"
    /\ pc' = IF kb_ready THEN "blocked" ELSE "get"
    /\ UNCHANGED <<board, kb_msgq, report, press, usb, host, history>>

(***************************************************************************)
(* The USB device stack and the host.                                      *)
(***************************************************************************)

\* The host polls: it gets the report and main goes on.
Fetch ==
    /\ pc = "blocked" /\ kb_ready /\ ~suspended
    /\ host' = report
    /\ upToDate' = TRUE
    /\ pc' = "get"
    /\ UNCHANGED <<board, kb_msgq, report, press, usb, missed>>

\* The stack cancels the transfer of an interface that is gone.
Cancel ==
    /\ pc = "blocked" /\ ~kb_ready
    /\ pc' = "get"
    /\ UNCHANGED <<board, kb_msgq, report, press, usb, host, history>>

\* kb_iface_ready: the host starts with no key held.
InterfaceReady ==
    /\ ~kb_ready /\ kb_ready' = TRUE
    /\ UNCHANGED <<board, kb_msgq, report, pc, press, suspended, wakeup, host, history>>

InterfaceGone ==
    /\ kb_ready /\ kb_ready' = FALSE
    /\ suspended' = FALSE /\ wakeup' = FALSE
    /\ host' = {} /\ upToDate' = FALSE
    /\ UNCHANGED <<board, kb_msgq, report, pc, press, missed>>

Suspend ==
    /\ kb_ready /\ ~suspended /\ suspended' = TRUE
    /\ UNCHANGED <<board, kb_msgq, report, pc, press, kb_ready, wakeup, host, history>>

Resume ==
    /\ suspended /\ suspended' = FALSE
    /\ wakeup' = FALSE
    /\ UNCHANGED <<board, kb_msgq, report, pc, press, kb_ready, host, history>>

Main == Take \/ CheckReady \/ CheckSuspended \/ Submit
Stack == Fetch \/ Cancel
Bus == InterfaceReady \/ InterfaceGone \/ Suspend \/ Resume

Next == (\E k \in AllKeys : KeyEdge(k)) \/ Main \/ Stack \/ Bus

Spec == Init /\ [][Next]_vars

\* main is scheduled, a host that polls gets the report, a host asked to wake
\* up does; nothing makes it resume by itself.
LiveSpec == Spec /\ WF_vars(Main) /\ WF_vars(Stack) /\ WF_vars(wakeup /\ Resume)

(***************************************************************************)
(* Properties (see also HidKeyboardState).                                 *)
(***************************************************************************)

PressWaiting == \E i \in DOMAIN kb_msgq : kb_msgq[i].value /\ kb_msgq[i].code \in Keys

\* A press that is queued while the bus is suspended wakes the host, unless
\* main is still in the submission of an earlier report (and provided that the
\* host has allowed remote wakeup, without which the request is refused).
FreePressWakesHost ==
    kb_ready /\ suspended /\ PressWaiting /\ pc \in {"get", "ready", "bus"}
        ~> ~suspended \/ ~kb_ready
=============================================================================
