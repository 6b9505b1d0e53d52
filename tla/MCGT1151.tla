------------------------------ MODULE MCGT1151 ------------------------------
(* Values of the constants of GT1151 for TLC. *)
EXTENDS GT1151

CONSTANTS c1, c2

MCContacts == {c1, c2}

\* A release (no contact), one contact, two contacts in either order, and more
\* than the driver keeps.
MCFrames == {<<>>, <<c1>>, <<c1, c2>>, <<c2, c1>>, <<c1, c2, c1>>}

BothModes == {"interrupt", "polling"}

At(primary, alt) == [primary |-> primary, alt |-> alt]

\* The controller at either address or absent, another chip on the bus.
AnyBoard == {At("gt115x", "none"), At("none", "gt115x"), At("other", "gt115x"),
             At("other", "none"), At("none", "none")}
=============================================================================
