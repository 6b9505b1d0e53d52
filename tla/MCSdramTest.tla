---------------------------- MODULE MCSdramTest -----------------------------
(* Values of the constants of SdramTest for TLC. *)
EXTENDS SdramTest

\* Any wrong decoding of the tested window, with at most one stuck bit in the
\* chip, and lines tied next to each other, or tied where no pattern tells
\* them apart (lines 2 and 4: even, and above the bits of an index).
MCDecodes == {d \in [Index -> Cells] : d[Size-1] = Size-1}
MCStuck == {{}} \cup {{f} : f \in Cells \X Bits}
MCTies == {{}, {0, 1}, {2, 4}}

MCFaults ==
    {[decode |-> d, low |-> s, high |-> {}, tied |-> t] :
        d \in MCDecodes, s \in MCStuck, t \in MCTies}
      \cup
    {[decode |-> d, low |-> {}, high |-> s, tied |-> t] :
        d \in MCDecodes, s \in MCStuck, t \in MCTies}
=============================================================================
