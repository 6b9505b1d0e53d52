-------------------------- MODULE SdramTestProofs --------------------------
(***************************************************************************)
(* Proofs about the SDRAM test and benchmark (SdramTest), for every size   *)
(* of the memory and of the windows, every width of the words and every    *)
(* combination of faults: a memory that passes is sound, a failure has a   *)
(* cause at the printed address, the stores stay in their window.          *)
(*                                                                         *)
(* A word that reads back as its pattern shows something of the fault for  *)
(* ever (Shown): the invariant collects what the reads so far have shown.  *)
(* That no two addresses share a cell shows only at the end of the last    *)
(* pass, where all words of the window are known at once (Holding).        *)
(***************************************************************************)
EXTENDS SdramTest, TLAPS

\* What the read of word n in pass p shows when it gives the pattern.
Shown(p, n) ==
    /\ \A b \in Bits :
          /\ Pattern(p, n)[b] = 1 => <<fault.decode[n], b>> \notin fault.low
          /\ Pattern(p, n)[b] = 0 /\ b \notin fault.tied
                => <<fault.decode[n], b>> \notin fault.high
    /\ \A a, b \in fault.tied : Pattern(p, n)[a] = Pattern(p, n)[b]

Control ==
    /\ fault \in Faults
    /\ pass \in 1..3
    /\ i \in Nat
    /\ pc = "read" => i <= Words
    /\ verdict = "pass" <=> pc \in {"bench_write", "copy_out", "copy_in", "blink"}

\* The passes that are over, and the part of this one that was read.
Seen ==
    /\ \A p \in 1..3, n \in Window : p < pass => Shown(p, n)
    /\ pc = "read" => \A n \in Window : n < i => Shown(pass, n)

\* Reading changes nothing: the words already read still hold their pattern.
Holding == pc = "read" => \A n \in Window : n < i => Read(n) = Pattern(pass, n)

IInv == Control /\ Seen /\ Holding /\ PassMeansSound

LEMMA SizeFacts ==
    /\ Words \in Nat \ {0} /\ BenchWords \in Nat \ {0} /\ Width \in Nat \ {0}
    /\ Chunk \in Nat \ {0}
    /\ Window \subseteq Nat /\ Window \subseteq Index
  BY SizesAssumption, SMT DEF Words, BenchWords, Smaller, Window, Index

\* The levels of a pattern are 0 and 1.
LEMMA PatternLevels ==
    ASSUME NEW p \in 1..3, NEW n \in Window
    PROVE  Pattern(p, n) \in Word
<1>1. \A b \in Bits : b % 2 \in {0, 1}
  BY SizesAssumption, SMT DEF Bits
<1>2. Binary(n) \in Word BY DEF Binary, Word
<1> QED BY <1>1, <1>2 DEF Pattern, Word

LEMMA FaultFacts ==
    ASSUME fault \in Faults
    PROVE  fault.tied \subseteq Bits /\ fault.low \cap fault.high = {}
  BY FaultsAssumption DEF AnyFault

\* A word that reads back as its pattern shows what Shown says.
LEMMA ReadShows ==
    ASSUME fault \in Faults, NEW p \in 1..3, NEW n \in Window,
           Read(n) = Pattern(p, n)
    PROVE  Shown(p, n)
<1> DEFINE c == fault.decode[n]
           w == Sense(c)
<1>0. Lines(w) = Pattern(p, n) BY DEF Read
<1>1. \A b \in Bits : Pattern(p, n)[b] =
        (IF b \in fault.tied /\ \E a \in fault.tied : w[a] = 0 THEN 0 ELSE w[b])
  <2> SUFFICES ASSUME NEW b \in Bits
               PROVE  Lines(w)[b] = (IF b \in fault.tied /\ \E a \in fault.tied : w[a] = 0
                                     THEN 0 ELSE w[b])
    BY <1>0
  <2> HIDE DEF w
  <2> QED BY DEF Lines
<1>2. \A b \in Bits : /\ <<c, b>> \in fault.low => w[b] = 0
                      /\ <<c, b>> \in fault.high => w[b] = 1
  BY FaultFacts DEF Sense
<1> HIDE DEF w, c
<1>3. ASSUME NEW b \in Bits, Pattern(p, n)[b] = 1
      PROVE  <<c, b>> \notin fault.low
  BY <1>1, <1>2, <1>3
<1>4. ASSUME NEW b \in Bits, Pattern(p, n)[b] = 0, b \notin fault.tied
      PROVE  <<c, b>> \notin fault.high
  BY <1>1, <1>2, <1>4
<1>5. ASSUME NEW a \in fault.tied, NEW b \in fault.tied
      PROVE  Pattern(p, n)[a] = Pattern(p, n)[b]
  <2>1. CASE \E d \in fault.tied : w[d] = 0
    BY <1>1, <2>1, FaultFacts
  <2>2. CASE \A d \in fault.tied : w[d] # 0
    <3>1. w[a] = 1 /\ w[b] = 1
      BY <1>1, <2>2, FaultFacts, PatternLevels DEF Word
    <3> QED BY <3>1, <1>1, <2>2, FaultFacts
  <2> QED BY <2>1, <2>2
<1> QED BY <1>3, <1>4, <1>5 DEF Shown, c

(***************************************************************************)
(* At the end of the last pass the reads have shown a sound memory.        *)
(***************************************************************************)

LEMMA PassesShowSound ==
    ASSUME Control, Seen, Holding, TestPasses
    PROVE  NoAlias /\ NoStuckBit /\ TiedAlike
<1>1. \A p \in 1..3, n \in Window : Shown(p, n)
  <2> SUFFICES ASSUME NEW p \in 1..3, NEW n \in Window PROVE Shown(p, n)
    OBVIOUS
  <2>1. n < i BY SizeFacts DEF TestPasses, Window
  <2>2. CASE p < pass BY <2>2 DEF Seen
  <2>3. CASE p = pass BY <2>1, <2>3 DEF Seen, TestPasses
  <2> QED BY <2>2, <2>3, SMT DEF TestPasses
<1>2. NoAlias
  <2> SUFFICES ASSUME NEW m \in Window, NEW n \in Window,
                      fault.decode[m] = fault.decode[n]
               PROVE  m = n
    BY DEF NoAlias
  <2>1. m < i /\ n < i BY SizeFacts DEF TestPasses, Window
  <2>2. Read(m) = Pattern(3, m) /\ Read(n) = Pattern(3, n)
    BY <2>1 DEF Holding, TestPasses
  <2>3. Read(m) = Read(n) BY DEF Read
  <2>4. Binary(m) = Binary(n) BY <2>2, <2>3 DEF Pattern
  <2> QED BY <2>4, IndexFitsAssumption
<1>3. NoStuckBit
  <2> SUFFICES ASSUME NEW n \in Window, NEW b \in Bits
               PROVE  /\ <<fault.decode[n], b>> \notin fault.low
                      /\ b \notin fault.tied => <<fault.decode[n], b>> \notin fault.high
    BY DEF NoStuckBit
  <2>1. Shown(1, n) /\ Shown(2, n) BY <1>1
  <2>2. Pattern(1, n)[b] = b % 2 /\ Pattern(2, n)[b] = 1 - (b % 2) BY DEF Pattern
  <2>3. \/ Pattern(1, n)[b] = 1 /\ Pattern(2, n)[b] = 0
        \/ Pattern(1, n)[b] = 0 /\ Pattern(2, n)[b] = 1
    BY <2>2, SizesAssumption, SMT DEF Bits
  <2> QED BY <2>1, <2>3 DEF Shown
<1>4. TiedAlike BY <1>1 DEF TiedAlike, Shown
<1> QED BY <1>2, <1>3, <1>4

(***************************************************************************)
(* The invariant.                                                          *)
(***************************************************************************)

LEMMA InitIInv == Init => IInv
  BY SizeFacts DEF Init, IInv, Control, Seen, Holding, PassMeansSound

\* The fault stays, and with it what the reads have shown of it.
LEMMA FaultStays == IInv /\ [Next]_vars => fault' = fault
  BY DEF Next, Start, Test, Bench, WriteLoop, ReadMatches, ReadDiffers, NextPass,
         TestPasses, BenchWrite, CopyOut, FillChunk, CopyIn, BenchDone, vars

LEMMA ShownStays ==
    ASSUME fault' = fault
    PROVE  /\ \A p \in 1..3, n \in Window : (Shown(p, n)' <=> Shown(p, n))
           /\ (NoAlias' <=> NoAlias)
           /\ (NoStuckBit' <=> NoStuckBit)
           /\ (TiedAlike' <=> TiedAlike)
<1>1. \A p \in 1..3, n \in Window : (Shown(p, n)' <=> Shown(p, n))
  BY DEF Shown
<1>2. NoAlias' <=> NoAlias BY DEF NoAlias
<1>3. NoStuckBit' <=> NoStuckBit BY DEF NoStuckBit
<1>4. TiedAlike' <=> TiedAlike BY DEF TiedAlike
<1> QED BY <1>1, <1>2, <1>3, <1>4

LEMMA StepIInv == IInv /\ [Next]_vars => IInv'
<1> SUFFICES ASSUME IInv, [Next]_vars PROVE IInv'
  OBVIOUS
<1>0. fault' = fault BY FaultStays
<1> USE SizeFacts DEF IInv
<1>1. CASE Start
  BY <1>0, <1>1, ShownStays DEF Start, Control, Seen, Holding, PassMeansSound
<1>2. CASE WriteLoop
  <2>1. Control'
    BY <1>2 DEF WriteLoop, Control
  <2>2. Seen'
    BY <1>0, <1>2, ShownStays DEF WriteLoop, Control, Seen, Window
  <2>3. Holding'
    BY <1>2 DEF WriteLoop, Holding, Window
  <2>4. PassMeansSound'
    BY <1>0, <1>2, ShownStays DEF WriteLoop, Control, PassMeansSound
  <2> QED BY <2>1, <2>2, <2>3, <2>4
<1>3. CASE ReadMatches
  <2>1. Control' BY <1>3 DEF ReadMatches, Control
  <2>2. i \in Window BY <1>3 DEF ReadMatches, Control, Window
  <2>3. Shown(pass, i) BY <1>3, <2>2, ReadShows DEF ReadMatches, Control
  <2>4. \A n \in Window : n < i' => n < i \/ n = i
    BY <1>3 DEF ReadMatches, Control, Window
  <2>5. Seen'
    <3>1. pass' = pass /\ pc' = "read" /\ pc = "read" /\ pass \in 1..3
      BY <1>3 DEF ReadMatches, Control
    <3>2. \A n \in Window : n < i' => Shown(pass, n)
      BY <2>3, <2>4, <3>1 DEF Seen
    <3> QED BY <1>0, <3>1, <3>2, ShownStays DEF Seen
  <2>6. Holding'
    <3>1. pass' = pass /\ mem' = mem /\ pc = "read" /\ Read(i) = Pattern(pass, i)
      BY <1>3 DEF ReadMatches
    <3>2. \A n \in Window : Read(n)' = Read(n)
      BY <1>0, <3>1 DEF Read, Lines, Sense
    <3> QED BY <2>4, <3>1, <3>2 DEF Holding
  <2>7. PassMeansSound'
    BY <1>0, <1>3, ShownStays DEF ReadMatches, PassMeansSound
  <2> QED BY <2>1, <2>5, <2>6, <2>7
<1>4. CASE ReadDiffers
  BY <1>0, <1>4, ShownStays DEF ReadDiffers, Control, Seen, Holding, PassMeansSound
<1>5. CASE NextPass
  <2>1. Control' BY <1>5 DEF NextPass, Control
  <2>2. Seen'
    <3>1. \A n \in Window : n < i BY <1>5 DEF NextPass, Window
    <3>2. \A p \in 1..3, n \in Window : p < pass' => Shown(p, n)
      BY <1>5, <3>1 DEF NextPass, Control, Seen
    <3>3. pc' # "read" BY <1>5 DEF NextPass
    <3> QED BY <1>0, <3>2, <3>3, ShownStays DEF Seen
  <2>3. Holding' BY <1>5 DEF NextPass, Holding
  <2>4. PassMeansSound'
    BY <1>0, <1>5, ShownStays DEF NextPass, PassMeansSound
  <2> QED BY <2>1, <2>2, <2>3, <2>4
<1>6. CASE TestPasses
  <2>1. Control' BY <1>6 DEF TestPasses, Control
  <2>2. Seen' BY <1>0, <1>6, ShownStays DEF TestPasses, Seen
  <2>3. Holding' BY <1>6 DEF TestPasses, Holding
  <2>4. PassMeansSound'
    BY <1>0, <1>6, PassesShowSound, ShownStays DEF PassMeansSound
  <2> QED BY <2>1, <2>2, <2>3, <2>4
<1>7. CASE Bench
  <2>1. /\ pass' = pass /\ verdict' = verdict
        /\ pc \in {"bench_write", "copy_out", "copy_in"}
        /\ pc' \in {"bench_write", "copy_out", "copy_in", "blink"}
    BY <1>7 DEF Bench, BenchWrite, CopyOut, FillChunk, CopyIn, BenchDone
  <2>2. i' \in Nat
    BY <1>7 DEF Bench, BenchWrite, CopyOut, FillChunk, CopyIn, BenchDone,
                ChunkLength, Smaller, Control
  <2>3. Control' BY <1>0, <2>1, <2>2 DEF Control
  <2>4. Seen' BY <1>0, <2>1, ShownStays DEF Seen
  <2>5. Holding' BY <2>1 DEF Holding
  <2>6. PassMeansSound' BY <1>0, <2>1, ShownStays DEF PassMeansSound
  <2> QED BY <2>3, <2>4, <2>5, <2>6
<1>8. CASE UNCHANGED vars
  <2>1. \A n \in Window : Read(n)' = Read(n)
    BY <1>8 DEF vars, Read, Lines, Sense
  <2> QED
    BY <1>0, <1>8, <2>1, ShownStays DEF vars, Control, Seen, Holding, PassMeansSound
<1> QED
  BY <1>1, <1>2, <1>3, <1>4, <1>5, <1>6, <1>7, <1>8 DEF Next, Test

\* A memory that passes the test decodes every address of the window to a cell
\* of its own, has no stuck bit there, and no tied lines that a pattern tells
\* apart, however large it is and however its faults combine.
THEOREM PassedMemoryIsSound == Spec => []PassMeansSound
<1>1. Init => IInv BY InitIInv
<1>2. IInv /\ [Next]_vars => IInv' BY StepIInv
<1>3. IInv => PassMeansSound BY DEF IInv
<1> QED BY <1>1, <1>2, <1>3, PTL DEF Spec

(***************************************************************************)
(* What a failure says of the memory.                                      *)
(***************************************************************************)

\* No other address of the window selects the cell of n.
Alone(n) == \A m \in Window \ {n} : fault.decode[m] # fault.decode[n]

\* The word of n is what the lines made of its pattern.
Kept(n) == mem[fault.decode[n]] = Lines(Pattern(pass, n))

\* Words no other address overwrites are kept until they are read.
Located ==
    /\ DOMAIN mem = Cells
    /\ pc = "leds" => i = 0
    /\ pc = "write" => \A n \in Window : n < i /\ Alone(n) => Kept(n)
    /\ pc = "read" => \A n \in Window : Alone(n) => Kept(n)
    /\ verdict = "fail" <=> pc = "stopped"
    /\ FailureLocated

\* A word that is kept, on lines that carry it and in a cell without a stuck bit,
\* reads back as it was written.
LEMMA KeptReads ==
    ASSUME Control, pass \in 1..3, NEW n \in Window, Kept(n),
           \A b \in Bits : <<fault.decode[n], b>> \notin fault.low \cup fault.high,
           \A a, b \in fault.tied : Pattern(pass, n)[a] = Pattern(pass, n)[b]
    PROVE  Read(n) = Pattern(pass, n)
<1> DEFINE w == Pattern(pass, n)
           c == fault.decode[n]
<1>1. w \in Word
  BY PatternLevels
<1>2. fault.tied \subseteq Bits
  BY FaultFacts DEF Control
<1>3. \A b \in Bits : (IF b \in fault.tied /\ \E a \in fault.tied : w[a] = 0
                       THEN 0 ELSE w[b]) = w[b]
  <2>1. \A a, b \in fault.tied : w[a] = w[b]
    OBVIOUS
  <2> HIDE DEF w
  <2> QED
    BY <2>1
<1>4. [b \in Bits |-> w[b]] = w
  <2> HIDE DEF w
  <2> QED
    BY <1>1 DEF Word
<1>5. Lines(w) = w
  <2> HIDE DEF w
  <2> QED
    BY <1>3, <1>4 DEF Lines
<1>6. mem[c] = w
  BY <1>5 DEF Kept
<1>7. Sense(c) = w
  <2>1. \A b \in Bits : <<c, b>> \notin fault.low /\ <<c, b>> \notin fault.high
    OBVIOUS
  <2> HIDE DEF w, c
  <2> QED
    BY <1>4, <1>6, <2>1 DEF Sense
<1> QED
  BY <1>5, <1>7 DEF Read

LEMMA InitLocated == Init => Located
  BY DEF Init, Located, FailureLocated

LEMMA LocatedKept == IInv /\ Located /\ [Next]_vars => Located'
<1> SUFFICES ASSUME IInv, Located, [Next]_vars
             PROVE  Located'
  OBVIOUS
<1>0. fault' = fault
  BY FaultStays
<1>1. \A n \in Window : Alone(n)' <=> Alone(n)
  BY <1>0 DEF Alone
<1>2. fault.decode \in [Index -> Cells]
  BY FaultsAssumption DEF IInv, Control, AnyFault
<1>3. CASE WriteLoop
  <2>1. CASE i < Words
    <3>1. /\ mem' = [mem EXCEPT ![fault.decode[i]] = Lines(Pattern(pass, i))]
          /\ i' = i+1 /\ pc' = "write" /\ pc = "write"
          /\ UNCHANGED <<fault, pass, verdict>>
      BY <1>3, <2>1 DEF WriteLoop, Write
    <3>2. i \in Window /\ i \in Index /\ i \in Nat
      BY <2>1, SizeFacts DEF IInv, Control, Window
    <3>3. DOMAIN mem' = Cells
      BY <3>1 DEF Located
    <3>4. ASSUME NEW n \in Window, n < i', Alone(n)'
          PROVE  Kept(n)'
      <4>0. Alone(n) /\ n \in Nat
        BY <1>1, <3>4, SizeFacts
      <4>1. Lines(Pattern(pass, n))' = Lines(Pattern(pass, n))
        BY <3>1 DEF Lines, Pattern, Binary
      <4>2. CASE n = i
        <5>1. mem'[fault.decode[i]] = Lines(Pattern(pass, i))
          BY <1>2, <3>1, <3>2 DEF Located
        <5> QED
          BY <3>1, <4>1, <4>2, <5>1 DEF Kept
      <4>3. CASE n # i
        <5>1. fault.decode[n] # fault.decode[i]
          BY <3>2, <4>0, <4>3 DEF Alone
        <5>2. n < i
          BY <3>1, <3>2, <3>4, <4>0, <4>3
        <5>3. Kept(n)
          BY <3>1, <4>0, <5>2 DEF Located
        <5>4. fault.decode[n] \in Cells
          BY <1>2, SizeFacts
        <5>5. mem'[fault.decode[n]] = mem[fault.decode[n]]
          BY <3>1, <5>1, <5>4 DEF Located
        <5> QED
          BY <3>1, <4>1, <5>3, <5>5 DEF Kept
      <4> QED
        BY <4>2, <4>3
    <3> QED
      BY <3>1, <3>3, <3>4 DEF Located, FailureLocated
  <2>2. CASE ~(i < Words)
    <3>1. pc = "write" /\ pc' = "read" /\ UNCHANGED <<fault, mem, pass, verdict>>
      BY <1>3, <2>2 DEF WriteLoop
    <3>2. \A n \in Window : n < i
      BY <2>2, SizeFacts DEF Window, IInv, Control
    <3>3. \A n \in Window : Kept(n)' <=> Kept(n)
      BY <3>1 DEF Kept, Lines, Pattern, Binary
    <3> QED
      BY <1>1, <3>1, <3>2, <3>3 DEF Located, FailureLocated
  <2> QED
    BY <2>1, <2>2
<1>4. CASE ReadMatches
  <2>1. /\ pc = "read" /\ pc' = "read"
        /\ UNCHANGED <<fault, mem, pass, verdict>>
    BY <1>4 DEF ReadMatches
  <2>2. \A n \in Window : Kept(n)' <=> Kept(n)
    BY <2>1 DEF Kept, Lines, Pattern, Binary
  <2> QED
    BY <1>1, <2>1, <2>2 DEF Located, FailureLocated
<1>5. CASE ReadDiffers
  <2>1. /\ pc = "read" /\ i < Words /\ Read(i) # Pattern(pass, i)
        /\ pc' = "stopped" /\ verdict' = "fail"
        /\ UNCHANGED <<fault, mem, pass, i>>
    BY <1>5 DEF ReadDiffers
  <2>2. i \in Window
    BY <2>1, SizeFacts DEF IInv, Control, Window
  <2>3. \/ \E b \in Bits : <<fault.decode[i], b>> \in fault.low \cup fault.high
        \/ ~Alone(i)
        \/ \E a, b \in fault.tied : Pattern(pass, i)[a] # Pattern(pass, i)[b]
    <3>1. Alone(i) => Kept(i)
      BY <2>1, <2>2 DEF Located
    <3> QED
      BY <2>1, <2>2, <3>1, KeptReads DEF IInv, Control
  <2>4. FailureLocated
    BY <2>1, <2>2 DEF Located, FailureLocated
  <2>5. FailureLocated'
    <3>1. Pattern(pass, i)' = Pattern(pass, i)
      BY <2>1 DEF Pattern, Binary
    <3> QED
      BY <2>1, <2>3, <3>1 DEF FailureLocated, Alone
  <2> QED
    BY <2>1, <2>5 DEF Located
<1>6. CASE NextPass
  <2>1. pc' = "write" /\ i' = 0 /\ UNCHANGED <<mem, verdict>> /\ pc = "read"
    BY <1>6 DEF NextPass
  <2>2. \A n \in Window : ~(n < 0)
    BY SizeFacts DEF Window
  <2> QED
    BY <2>1, <2>2 DEF Located, FailureLocated
<1>7. CASE Start
  <2>1. pc = "leds" /\ pc' \in {"write", "ended"} /\ UNCHANGED <<mem, i, verdict>>
    BY <1>7 DEF Start
  <2>2. \A n \in Window : ~(n < 0)
    BY SizeFacts DEF Window
  <2> QED
    BY <2>1, <2>2 DEF Located, FailureLocated
<1>8. CASE TestPasses \/ Bench
  <2>1. /\ pc \in {"read", "bench_write", "copy_out", "copy_in"}
        /\ pc' \in {"bench_write", "copy_out", "copy_in", "blink"}
        /\ verdict' \in {verdict, "pass"}
    BY <1>8 DEF TestPasses, Bench, BenchWrite, CopyOut, FillChunk, CopyIn, BenchDone
  <2>2. DOMAIN mem' = Cells
    BY <1>8 DEF Located, TestPasses, Bench, BenchWrite, CopyOut, FillChunk, CopyIn,
                BenchDone, Write
  <2> QED
    BY <2>1, <2>2 DEF Located, FailureLocated
<1>9. CASE UNCHANGED vars
  <2>1. \A n \in Window : Kept(n)' <=> Kept(n)
    BY <1>9 DEF vars, Kept, Lines, Pattern, Binary
  <2>2. FailureLocated' <=> FailureLocated
    BY <1>9 DEF vars, FailureLocated, Pattern, Binary
  <2>3. UNCHANGED <<pc, i, mem, verdict>>
    BY <1>9 DEF vars
  <2> QED
    BY <1>1, <2>1, <2>2, <2>3 DEF Located
<1> QED
  BY <1>3, <1>4, <1>5, <1>6, <1>7, <1>8, <1>9 DEF Next, Test

\* The address a failed test prints has a stuck bit in its cell, shares its cell
\* with another address of the window or holds a word that tied lines corrupt:
\* a sound memory of any size passes.
THEOREM FailuresHaveCause == Spec => []FailureLocated
<1>1. Located => FailureLocated
  BY DEF Located
<1>2. Spec => [](IInv /\ Located)
  BY InitIInv, StepIInv, InitLocated, LocatedKept, PTL DEF Spec
<1> QED
  BY <1>1, <1>2, PTL

(***************************************************************************)
(* What the benchmark leaves in the memory.                                *)
(***************************************************************************)

Refilled(n) == mem[fault.decode[n]] = Lines(Binary(OffsetOf(n)))
Outside(c) == \A n \in Window : fault.decode[n] # c

\* The copies go on chunk by chunk, and no store leaves the window.
Filled ==
    /\ DOMAIN mem = Cells
    /\ \A c \in Cells : Outside(c) => mem[c] = Zero
    /\ pc = "copy_in" =>
         /\ sram = [k \in 0 .. Chunk-1 |-> Binary(k)]
         /\ i >= BenchWords \/ \E q \in Nat : i = Chunk * q
         /\ \A n \in 0 .. BenchWords-1 : n < i => Refilled(n)
    /\ pc = "blink" => \A n \in 0 .. BenchWords-1 : Refilled(n)

\* The offset of a word in the chunk that begins at a multiple of the length.
LEMMA OffsetFacts ==
    ASSUME NEW q \in Nat, NEW k \in Nat, k < Chunk
    PROVE  OffsetOf(Chunk * q + k) = k
<1> DEFINE n == Chunk * q + k
           d == n \div Chunk
<1>1. Chunk \in Nat \ {0}
  BY SizeFacts
<1>2. \A x, y \in Nat : Chunk * (x+1+y) = Chunk * x + Chunk + Chunk * y
                        /\ Chunk * x \in Nat /\ Chunk * y \in Nat
  BY <1>1
<1>3. n \in Nat
  BY <1>1, <1>2
<1>4. d \in Nat /\ Chunk * d <= n /\ n < Chunk * (d+1)
  <2> HIDE DEF n
  <2> QED
    BY <1>1, <1>3
<1>5. Chunk * (d+1) = Chunk * d + Chunk /\ Chunk * d \in Nat /\ Chunk * q \in Nat
  <2> HIDE DEF d, n
  <2> QED
    BY <1>1, <1>2, <1>4
<1>6. d = q
  <2>1. CASE d < q
    <3>1. PICK y \in Nat : q = d+1+y
      <4> HIDE DEF d, n
      <4>1. q-d-1 \in Nat
        BY <1>4, <2>1
      <4> QED
        BY <1>4, <4>1
    <3>2. Chunk * q = Chunk * d + Chunk + Chunk * y /\ Chunk * y \in Nat
      <4> HIDE DEF d, n
      <4> QED
        BY <1>2, <1>4, <3>1
    <3> DEFINE u == Chunk * q
               v == Chunk * d
               w == Chunk * y
    <3>3. n = u + k /\ u = v + Chunk + w /\ n < v + Chunk
      BY <1>4, <1>5, <3>2
    <3>4. u \in Nat /\ v \in Nat /\ w \in Nat
      BY <1>5, <3>2
    <3> HIDE DEF n, u, v, w
    <3> QED
      BY <1>1, <3>3, <3>4
  <2>2. CASE q < d
    <3>1. PICK y \in Nat : d = q+1+y
      <4> HIDE DEF d, n
      <4>1. d-q-1 \in Nat
        BY <1>4, <2>2
      <4> QED
        BY <1>4, <4>1
    <3>2. Chunk * d = Chunk * q + Chunk + Chunk * y /\ Chunk * y \in Nat
      <4> HIDE DEF d, n
      <4> QED
        BY <1>2, <1>4, <3>1
    <3> DEFINE u == Chunk * q
               v == Chunk * d
               w == Chunk * y
    <3>3. n = u + k /\ v = u + Chunk + w /\ v <= n
      BY <1>4, <3>2
    <3>4. u \in Nat /\ v \in Nat /\ w \in Nat
      BY <1>5, <3>2
    <3> HIDE DEF n, u, v, w
    <3> QED
      BY <1>1, <3>3, <3>4
  <2> QED
    BY <1>4, <2>1, <2>2
<1>7. OffsetOf(n) = n - Chunk * d
  BY DEF OffsetOf
<1>8. OffsetOf(n) = n - Chunk * q
  BY <1>6, <1>7
<1> DEFINE u == Chunk * q
<1>9. u \in Nat /\ n = u + k /\ OffsetOf(n) = n - u
  BY <1>5, <1>8
<1> HIDE DEF n, u
<1> QED
  BY <1>9 DEF n

\* A store of the test or the benchmark's first loop stays in the window.
LEMMA StoreStaysInside ==
    ASSUME Filled, fault \in Faults, NEW w, i \in Window, Write(i, w), fault' = fault
    PROVE  /\ DOMAIN mem' = Cells
           /\ \A c \in Cells : Outside(c)' => mem'[c] = Zero
<1>1. DOMAIN mem' = Cells
  BY DEF Write, Filled
<1>2. ASSUME NEW c \in Cells, Outside(c)'
      PROVE  mem'[c] = Zero
  <2>1. fault.decode[i] # c /\ Outside(c)
    BY <1>2 DEF Outside
  <2>2. mem'[c] = mem[c]
    BY <2>1 DEF Write, Filled
  <2> QED
    BY <2>1, <2>2 DEF Filled
<1> QED
  BY <1>1, <1>2

\* A copy of a chunk refills its words and no other, and stays in the window.
LEMMA CopyFills ==
    ASSUME IInv, Filled, CopyIn
    PROVE  Filled'
<1>1. /\ pc = "copy_in" /\ pc' = "copy_in" /\ i < BenchWords /\ i' = i + ChunkLength
      /\ UNCHANGED <<fault, sram>> /\ fault \in Faults /\ i \in Nat
  BY DEF CopyIn, IInv, Control
<1>2. /\ NoAlias
      /\ BenchWords \in Nat /\ Chunk \in Nat \ {0}
      /\ \A n \in 0 .. BenchWords-1 : n \in Window
  <2>1. NoAlias
    BY <1>1 DEF IInv, Control, PassMeansSound
  <2> QED
    BY <2>1, SizeFacts, SizesAssumption DEF BenchWords, Words, Window, Smaller
<1>3. PICK q \in Nat : i = Chunk * q
  BY <1>1, <1>2 DEF Filled
<1>3a. sram = [k \in 0 .. Chunk-1 |-> Binary(k)]
  BY <1>1 DEF Filled
<1>4. /\ ChunkLength \in Nat /\ ChunkLength <= Chunk /\ i + ChunkLength <= BenchWords
      /\ ChunkLength = Chunk \/ i + ChunkLength = BenchWords
  BY <1>1, <1>2 DEF ChunkLength, Smaller
<1> DEFINE len == ChunkLength
           Hit(c, k) == fault.decode[i + k] = c
<1>5. mem' = [c \in Cells |-> IF \E k \in 0 .. len-1 : Hit(c, k)
                              THEN Lines(sram[CHOOSE k \in 0 .. len-1 : Hit(c, k)])
                              ELSE mem[c]]
  BY DEF CopyIn
<1>6. fault.decode \in [Index -> Cells]
  BY <1>1, FaultsAssumption DEF AnyFault
<1>7. \A k \in 0 .. len-1 : i + k \in 0 .. BenchWords-1 /\ k \in Nat /\ k < Chunk
  BY <1>1, <1>2, <1>4
<1> HIDE DEF len
<1>8. ASSUME NEW c \in Cells, Outside(c)'
      PROVE  mem'[c] = Zero
  <2>1. Outside(c)
    BY <1>1, <1>8 DEF Outside
  <2>2. \A k \in 0 .. len-1 : ~Hit(c, k)
    BY <1>2, <1>7, <2>1 DEF Outside
  <2>3. mem'[c] = mem[c]
    BY <1>5, <2>2
  <2> QED
    BY <2>1, <2>3 DEF Filled
<1>9. ASSUME NEW n \in 0 .. BenchWords-1, n < i'
      PROVE  Refilled(n)'
  <2>1. n \in Window /\ n \in Nat /\ fault.decode[n] \in Cells
    BY <1>2, <1>6, SizeFacts
  <2>2. Lines(Binary(OffsetOf(n)))' = Lines(Binary(OffsetOf(n)))
    BY <1>1 DEF Lines, Binary, OffsetOf
  <2>3. CASE n < i
    <3>1. \A k \in 0 .. len-1 : ~Hit(fault.decode[n], k)
      <4>1. ASSUME NEW k \in 0 .. len-1
            PROVE  ~Hit(fault.decode[n], k)
        <5>1. i + k \in Window /\ i + k # n
          BY <1>1, <1>2, <1>7, <2>1, <2>3
        <5> QED
          BY <1>2, <2>1, <5>1 DEF NoAlias
      <4> QED
        BY <4>1
    <3>2. mem'[fault.decode[n]] = mem[fault.decode[n]]
      BY <1>5, <2>1, <3>1
    <3>3. Refilled(n)
      BY <1>1, <2>3 DEF Filled
    <3> QED
      BY <1>1, <2>2, <3>2, <3>3 DEF Refilled
  <2>4. CASE n >= i
    <3> DEFINE k == n - i
    <3>1. k \in 0 .. len-1 /\ k \in Nat /\ n = i + k
      BY <1>1, <1>4, <1>9, <2>1, <2>4 DEF len
    <3> HIDE DEF k
    <3>2. \A m \in 0 .. len-1 : Hit(fault.decode[n], m) <=> m = k
      <4>1. ASSUME NEW m \in 0 .. len-1, Hit(fault.decode[n], m)
            PROVE  m = k
        <5>1. i + m \in Window /\ m \in Nat
          BY <1>2, <1>7
        <5>2. i + m = n
          BY <1>2, <2>1, <4>1, <5>1 DEF NoAlias
        <5> QED
          BY <1>1, <3>1, <5>1, <5>2
      <4> QED
        BY <3>1, <4>1
    <3>3. (CHOOSE m \in 0 .. len-1 : Hit(fault.decode[n], m)) = k
      <4> HIDE DEF Hit
      <4> QED
        BY <3>1, <3>2
    <3>4. mem'[fault.decode[n]] = Lines(sram[k])
      <4>1. \E m \in 0 .. len-1 : Hit(fault.decode[n], m)
        BY <3>1, <3>2
      <4> HIDE DEF Hit
      <4> QED
        BY <1>5, <2>1, <3>3, <4>1
    <3>5. sram[k] = Binary(k)
      <4>1. k \in Nat /\ k < Chunk
        BY <1>7, <3>1
      <4>2. k \in 0 .. Chunk-1
        BY <1>2, <4>1
      <4> QED
        BY <1>3a, <4>2
    <3>6. OffsetOf(n) = k
      BY <1>3, <1>7, <3>1, OffsetFacts
    <3> QED
      BY <1>1, <2>2, <3>4, <3>5, <3>6 DEF Refilled
  <2> QED
    BY <1>1, <2>1, <2>3, <2>4
<1>10. i' >= BenchWords \/ \E r \in Nat : i' = Chunk * r
  <2>1. CASE ChunkLength = Chunk
    <3>1. i' = Chunk * (q+1)
      <4>1. Chunk * (q+1) = Chunk * q + Chunk
        BY <1>2
      <4> QED
        BY <1>1, <1>3, <2>1, <4>1
    <3> QED
      BY <3>1
  <2>2. CASE i + ChunkLength = BenchWords
    BY <1>1, <1>2, <2>2
  <2> QED
    BY <1>4, <2>1, <2>2
<1>11. DOMAIN mem' = Cells
  BY <1>5
<1> QED
  BY <1>1, <1>8, <1>9, <1>10, <1>11 DEF Filled

LEMMA FilledKept == IInv /\ Filled /\ [Next]_vars => Filled'
<1> SUFFICES ASSUME IInv, Filled, [Next]_vars
             PROVE  Filled'
  OBVIOUS
<1>0. fault' = fault /\ fault \in Faults
  BY FaultStays DEF IInv, Control
<1>1. \A c \in Cells : Outside(c)' <=> Outside(c)
  BY <1>0 DEF Outside
<1>2. CASE WriteLoop
  <2>1. pc' \in {"write", "read"}
    BY <1>2 DEF WriteLoop
  <2>2. CASE i < Words
    <3>1. i \in Window /\ Write(i, Pattern(pass, i))
      BY <1>2, <2>2, SizeFacts DEF WriteLoop, Window, IInv, Control
    <3> QED
      BY <1>0, <2>1, <3>1, StoreStaysInside DEF Filled
  <2>3. CASE ~(i < Words)
    BY <1>1, <1>2, <2>1, <2>3 DEF WriteLoop, Filled
  <2> QED
    BY <2>2, <2>3
<1>3. CASE BenchWrite
  <2>1. pc' \in {"bench_write", "copy_out"}
    BY <1>3 DEF BenchWrite
  <2>2. CASE i < BenchWords
    <3>1. i \in Window /\ Write(i, Binary(i))
      BY <1>3, <2>2, SizeFacts, SizesAssumption
         DEF BenchWrite, Window, IInv, Control, BenchWords, Words, Smaller
    <3> QED
      BY <1>0, <2>1, <3>1, StoreStaysInside DEF Filled
  <2>3. CASE ~(i < BenchWords)
    BY <1>1, <1>3, <2>1, <2>3 DEF BenchWrite, Filled
  <2> QED
    BY <2>2, <2>3
<1>4. CASE Start \/ ReadMatches \/ ReadDiffers \/ NextPass \/ TestPasses \/ CopyOut
  <2>1. mem' = mem /\ pc' \notin {"copy_in", "blink"}
    BY <1>4 DEF Start, ReadMatches, ReadDiffers, NextPass, TestPasses, CopyOut
  <2> QED
    BY <1>1, <2>1 DEF Filled
<1>5. CASE FillChunk
  <2>1. /\ mem' = mem /\ pc' = "copy_in" /\ i' = 0
        /\ sram' = [k \in 0 .. Chunk-1 |-> Binary(k)]
    BY <1>5 DEF FillChunk
  <2>2. 0 = Chunk * 0
    BY SizeFacts
  <2>3. \A n \in 0 .. BenchWords-1 : ~(n < 0)
    BY SizeFacts
  <2> QED
    BY <1>1, <2>1, <2>2, <2>3 DEF Filled
<1>6. CASE CopyIn
  BY <1>6, CopyFills
<1>7. CASE BenchDone
  <2>1. /\ pc = "copy_in" /\ pc' = "blink" /\ i >= BenchWords /\ UNCHANGED mem
    BY <1>7 DEF BenchDone
  <2>2. \A n \in 0 .. BenchWords-1 : n < i
    BY <2>1, SizeFacts DEF IInv, Control
  <2>3. \A n \in 0 .. BenchWords-1 : Refilled(n)' <=> Refilled(n)
    BY <1>0, <2>1 DEF Refilled, Lines, Binary, OffsetOf
  <2> QED
    BY <1>1, <2>1, <2>2, <2>3 DEF Filled
<1>8. CASE UNCHANGED vars
  <2>1. UNCHANGED <<mem, pc, i, sram>>
    BY <1>8 DEF vars
  <2>2. \A n \in 0 .. BenchWords-1 : Refilled(n)' <=> Refilled(n)
    BY <1>0, <2>1 DEF Refilled, Lines, Binary, OffsetOf
  <2> QED
    BY <1>1, <2>1, <2>2 DEF Filled
<1> QED
  BY <1>2, <1>3, <1>4, <1>5, <1>6, <1>7, <1>8 DEF Next, Test, Bench

\* The test and the benchmark stay in their windows, whatever the sizes of
\* memory, windows and chunk, and the benchmark leaves no old word in its window.
THEOREM WindowIsRefilled == Spec => []WindowRefilled
<1>1. Init => Filled
  BY DEF Init, Filled
<1>2. Filled => WindowRefilled
  BY DEF Filled, WindowRefilled, Outside, Refilled
<1>3. Spec => [](IInv /\ Filled)
  BY <1>1, InitIInv, StepIInv, FilledKept, PTL DEF Spec
<1> QED
  BY <1>2, <1>3, PTL
==============================================================================
