------------------------------ MODULE HidMouse ------------------------------
(***************************************************************************)
(* The USB mouse of 18.hid_mouse/src/main.c.  The input callback builds    *)
(* the report in a static buffer and puts a copy into a queue of two; main *)
(* takes a report, drops it if the interface is not ready, and submits it  *)
(* (the LED it toggles is left out).  Buttons stay in the buffer, movement *)
(* is cleared after each put, whether or not the put succeeded.            *)
(*                                                                         *)
(* The USB stack and the host are external: the interface comes and goes,  *)
(* the bus is suspended and resumed, and the host fetches a submitted      *)
(* report when it polls.                                                   *)
(***************************************************************************)
EXTENDS HidDevice, FiniteSets

Buttons == {"left", "right"}             \* INPUT_KEY_0, INPUT_KEY_1
Axes == {"x", "y"}                       \* INPUT_KEY_2, INPUT_KEY_3
Inputs == Buttons \cup Axes \cup {"other"}
Distance == 10                           \* movement of one press

VARIABLES
    tmp,          \* input_cb: its static report
    mouse_msgq,   \* reports put and not yet taken
    mouse_ready,  \* USB: interface ready
    presses,      \* history: presses of each axis
    newest,       \* history: the report built last was not dropped
    lost          \* history: some report was dropped

usb == <<mouse_ready, suspended>>
board == <<pressed, presses, edges>>
vars == <<pressed, tmp, mouse_msgq, pc, report, mouse_ready, suspended,
          host, presses, newest, lost, edges>>

Still == [a \in Axes |-> 0]
Blank == [buttons |-> {}, move |-> Still]

Init ==
    /\ pressed = {} /\ tmp = Blank /\ mouse_msgq = <<>>
    /\ pc = "get" /\ report = Blank
    /\ mouse_ready = FALSE /\ suspended = FALSE
    /\ host = Blank /\ presses = Still
    /\ newest = TRUE /\ lost = FALSE /\ edges = 0

(***************************************************************************)
(* input_cb.                                                               *)
(***************************************************************************)

Flip(S, i) == IF i \in S THEN S \ {i} ELSE S \cup {i}

\* The static report after input i went down or up (8-bit movement).
Built(i, down) ==
    IF i \in Buttons
    THEN [tmp EXCEPT !.buttons = IF down THEN @ \cup {i} ELSE @ \ {i}]
    ELSE [tmp EXCEPT !.move[i] = IF down THEN (@ + Distance) % 256 ELSE @]

\* Bug for comparison: the movement stays in the static report.
MutKept(r) == r
\* Bug for comparison: the buttons are cleared with the movement.
MutKeptNothing(r) == Blank
\* What the static report keeps after the put: buttons, not movement.
Kept(r) == [r EXCEPT !.move = Still]

\* A new edge of an input; an unknown one is not put.
InputEdge(i) ==
    /\ edges < MaxEdges /\ edges' = edges + 1
    /\ pressed' = Flip(pressed, i)
    /\ presses' = IF i \in Axes /\ i \in pressed'
                  THEN [presses EXCEPT ![i] = @ + 1] ELSE presses
    /\ IF i = "other"
       THEN UNCHANGED <<tmp, mouse_msgq, newest, lost>>
       ELSE LET r == Built(i, i \in pressed')
                fits == Len(mouse_msgq) < QueueSize
            IN  /\ mouse_msgq' = IF fits THEN Append(mouse_msgq, r) ELSE mouse_msgq
                /\ tmp' = Kept(r)
                /\ newest' = fits
                /\ lost' = (lost \/ ~fits)
    /\ UNCHANGED <<pc, report, usb, host>>

(***************************************************************************)
(* main.                                                                   *)
(***************************************************************************)

Take ==
    /\ pc = "get" /\ mouse_msgq # <<>>
    /\ report' = Head(mouse_msgq)
    /\ mouse_msgq' = Tail(mouse_msgq)
    /\ pc' = "ready"
    /\ UNCHANGED <<board, tmp, usb, host, newest, lost>>

\* main drops the report in hand: the newest if nothing is queued behind it
\* and nothing built after it was refused by the queue.
Discard ==
    /\ pc' = "get"
    /\ newest' = (newest /\ mouse_msgq # <<>>)
    /\ lost' = TRUE

CheckReady ==
    /\ pc = "ready"
    /\ IF mouse_ready
       THEN pc' = "submit" /\ UNCHANGED <<newest, lost>>
       ELSE Discard
    /\ UNCHANGED <<board, tmp, mouse_msgq, report, usb, host>>

\* hid_device_submit_report waits until the host fetched the report; it fails
\* if the interface is gone.  Nothing here looks at a suspended bus.
Submit ==
    /\ pc = "submit"
    /\ IF mouse_ready
       THEN pc' = "blocked" /\ UNCHANGED <<newest, lost>>
       ELSE Discard
    /\ UNCHANGED <<board, tmp, mouse_msgq, report, usb, host>>

(***************************************************************************)
(* The USB device stack and the host.                                      *)
(***************************************************************************)

Fetch ==
    /\ pc = "blocked" /\ mouse_ready /\ ~suspended
    /\ host' = [buttons |-> report.buttons,
                move |-> [a \in Axes |-> host.move[a] + report.move[a]]]
    /\ pc' = "get"
    /\ UNCHANGED <<board, tmp, mouse_msgq, report, usb, newest, lost>>

\* The transfer of an interface that is gone is cancelled.
Cancel ==
    /\ pc = "blocked" /\ ~mouse_ready
    /\ pc' = "get"
    /\ newest' = (newest /\ mouse_msgq # <<>>)
    /\ lost' = TRUE
    /\ UNCHANGED <<board, tmp, mouse_msgq, report, usb, host>>

\* mouse_iface_ready.  A host without the device sees no button held.
InterfaceReady ==
    /\ ~mouse_ready /\ mouse_ready' = TRUE
    /\ UNCHANGED <<board, tmp, mouse_msgq, pc, report, suspended, host,
                   newest, lost>>

InterfaceGone ==
    /\ mouse_ready /\ mouse_ready' = FALSE
    /\ suspended' = FALSE
    /\ host' = [host EXCEPT !.buttons = {}]
    /\ newest' = (newest /\ (mouse_msgq # <<>> \/ pc # "get"))
    /\ UNCHANGED <<board, tmp, mouse_msgq, pc, report, lost>>

Suspend ==
    /\ mouse_ready /\ ~suspended /\ suspended' = TRUE
    /\ UNCHANGED <<board, tmp, mouse_msgq, pc, report, mouse_ready, host,
                   newest, lost>>

Resume ==
    /\ suspended /\ suspended' = FALSE
    /\ UNCHANGED <<board, tmp, mouse_msgq, pc, report, mouse_ready, host,
                   newest, lost>>

Main == Take \/ CheckReady \/ Submit
Stack == Fetch \/ Cancel
Bus == InterfaceReady \/ InterfaceGone \/ Suspend \/ Resume

Next == (\E i \in Inputs : InputEdge(i)) \/ Main \/ Stack \/ Bus

Spec == Init /\ [][Next]_vars

(***************************************************************************)
(* Properties.                                                             *)
(***************************************************************************)

Reports == [buttons : SUBSET Buttons, move : [Axes -> {0, Distance}]]

\* Every variable has its type.
TypeOK ==
    /\ pressed \subseteq Inputs
    /\ tmp \in Reports /\ report \in Reports
    /\ mouse_msgq \in Seq(Reports) /\ Len(mouse_msgq) <= QueueSize
    /\ pc \in {"get", "ready", "submit", "blocked"}
    /\ mouse_ready \in BOOLEAN /\ suspended \in BOOLEAN
    /\ host \in [buttons : SUBSET Buttons, move : [Axes -> Nat]]
    /\ presses \in [Axes -> Nat]
    /\ newest \in BOOLEAN /\ lost \in BOOLEAN /\ edges \in 0..MaxEdges

\* The movement along axis a that the reports of q carry, unit by unit (of the
\* 255 a report can carry): <<i, n>> is the n-th unit of report i.
Units(q, a) == {u \in (DOMAIN q) \X (1 .. 255) : u[2] <= q[u[1]].move[a]}

\* The movement along axis a that is on its way to the host.
OnTheWay(a) ==
    Cardinality(Units(mouse_msgq, a))
      + (IF pc \in {"ready", "submit", "blocked"} THEN report.move[a] ELSE 0)

\* One press moves the pointer once: movement is neither invented by a report
\* that repeats an earlier one, nor lost unless a report was dropped.
MotionConserved ==
    \A a \in Axes :
        LET total == host.move[a] + OnTheWay(a)
        IN  IF lost THEN total <= Distance * presses[a]
                    ELSE total = Distance * presses[a]

\* Buttons heal: when main is idle and the report built last got through, the
\* host holds the buttons that are held, however many reports were dropped by
\* the queue or while the interface was not ready.
HostSeesButtons ==
    mouse_msgq = <<>> /\ pc = "get" /\ newest =>
        host.buttons = pressed \cap Buttons
=============================================================================
