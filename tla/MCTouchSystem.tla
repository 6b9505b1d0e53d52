--------------------------- MODULE MCTouchSystem ----------------------------
(* Values of the constants of TouchSystem for TLC. *)
EXTENDS TouchSystem

Contact(id, x, y) == [id |-> id, x |-> x, y |-> y]

\* Two fingers whose track numbers take different slots, and a third that
\* shares the slot of the first and lies outside the display.
MCContacts == {Contact(0, 1, 1), Contact(1, 2, 0), Contact(2, 7, 9)}

\* A release, one finger, and two.
MCFrames == {<<>>, <<Contact(0, 1, 1)>>, <<Contact(1, 2, 0), Contact(2, 7, 9)>>}

Polling == {"polling"}

OneBoard == {[primary |-> "gt115x", alt |-> "none"]}
=============================================================================
