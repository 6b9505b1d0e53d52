----------------------------- MODULE SdramTest ------------------------------
(***************************************************************************)
(* The SDRAM self test and benchmark of 3.fmc_sdram_speedtest/src/main.c,  *)
(* run against a memory that may be faulty: address lines that select the  *)
(* wrong cell, bits stuck at a level, data lines tied together.            *)
(*                                                                         *)
(* The program is one thread.  The test accesses the memory through a      *)
(* volatile pointer, word by word; the SDRAM is assumed not to be cached   *)
(* (main.c:50), so every access reaches it.  A word is a function from     *)
(* data lines to levels.  The words of the benchmark are their index or    *)
(* their offset in the chunk, XORed with a constant (0xA5A50000 and        *)
(* 0x5A5A0000) that is left out.                                           *)
(***************************************************************************)
EXTENDS Integers

CONSTANTS
    Size,         \* SDRAM_SIZE, in words
    TestLimit,    \* SDRAM_TEST_BYTES, in words
    BenchLimit,   \* SDRAM_BENCH_BYTES, in words
    Chunk,        \* CHUNK_SIZE, in words
    Width,        \* data lines of a word
    Faults        \* the ways the memory may be broken

Smaller(a, b) == IF a <= b THEN a ELSE b

Words == Smaller(TestLimit, Size)           \* words the test covers
BenchWords == Smaller(BenchLimit, Size)     \* words the benchmark covers
Index == 0 .. Size-1
Window == 0 .. Words-1
Bits == 0 .. Width-1
Word == [Bits -> {0, 1}]
Cells == 0 .. Size-1

ASSUME SizesAssumption ==
    /\ {Size, TestLimit, BenchLimit, Chunk, Width} \subseteq Nat \ {0}
    /\ BenchLimit <= TestLimit

\* decode: the cell each address selects.  low, high: bits stuck at 0 and 1.
\* tied: data lines connected to each other; a 0 on one pulls all of them down.
AnyFault == [decode : [Index -> Cells], low : SUBSET (Cells \X Bits),
             high : SUBSET (Cells \X Bits), tied : SUBSET Bits]

ASSUME FaultsAssumption ==
    /\ Faults \subseteq AnyFault
    /\ \A f \in Faults : f.low \cap f.high = {}

\* The index i as a word, on the data lines.
Binary(i) == [b \in Bits |-> IF (i \div 2^b) % 2 = 1 THEN 1 ELSE 0]

\* A word is wide enough for every index of the window.
ASSUME IndexFitsAssumption ==
    \A i, j \in Window : Binary(i) = Binary(j) => i = j

VARIABLES
    fault,    \* the memory's fault, the same for ever
    mem,      \* what was last stored in each cell
    pc,       \* the loop main is in
    pass,     \* sdram_quick_test: which pattern
    i,        \* loop index, or done, in words
    sram,     \* sram_chunk
    verdict   \* what main made of the test: blue or red LED

vars == <<fault, mem, pc, pass, i, sram, verdict>>

Zero == [b \in Bits |-> 0]

Init ==
    /\ fault \in Faults
    /\ mem = [c \in Cells |-> Zero]
    /\ pc = "leds"
    /\ pass = 1 /\ i = 0
    /\ sram = [k \in 0 .. Chunk-1 |-> Zero]
    /\ verdict = "none"

(***************************************************************************)
(* The memory.                                                             *)
(***************************************************************************)

\* A word as it passes the data lines.
Lines(w) ==
    [b \in Bits |-> IF b \in fault.tied /\ \E a \in fault.tied : w[a] = 0
                    THEN 0 ELSE w[b]]

\* The levels a cell gives.
Sense(c) ==
    [b \in Bits |-> IF <<c, b>> \in fault.low THEN 0
                    ELSE IF <<c, b>> \in fault.high THEN 1
                    ELSE mem[c][b]]

Read(n) == Lines(Sense(fault.decode[n]))
Write(n, w) == mem' = [mem EXCEPT ![fault.decode[n]] = Lines(w)]

(***************************************************************************)
(* main up to the test, and sdram_quick_test.                              *)
(***************************************************************************)

\* leds_init, and the return of main when it fails.
Start ==
    /\ pc = "leds"
    /\ pc' \in {"write", "ended"}
    /\ UNCHANGED <<fault, mem, pass, i, sram, verdict>>

\* Bug for comparison: the second pattern is the first one again.
MutPattern(p, n) == IF p = 3 THEN Binary(n) ELSE [b \in Bits |-> b % 2]
\* 0xAAAAAAAA, 0x55555555, the index.
Pattern(p, n) ==
    IF p = 3 THEN Binary(n)
    ELSE [b \in Bits |-> IF p = 1 THEN b % 2 ELSE 1 - (b % 2)]

\* Bug for comparison: the last word of the window is not written.
MutWriteLoop ==
    /\ pc = "write"
    /\ IF i < Words - 1
       THEN Write(i, Pattern(pass, i)) /\ i' = i + 1 /\ UNCHANGED pc
       ELSE pc' = "read" /\ i' = 0 /\ UNCHANGED mem
    /\ UNCHANGED <<fault, pass, sram, verdict>>

WriteLoop ==
    /\ pc = "write"
    /\ IF i < Words
       THEN Write(i, Pattern(pass, i)) /\ i' = i + 1 /\ UNCHANGED pc
       ELSE pc' = "read" /\ i' = 0 /\ UNCHANGED mem
    /\ UNCHANGED <<fault, pass, sram, verdict>>

ReadMatches ==
    /\ pc = "read" /\ i < Words /\ Read(i) = Pattern(pass, i)
    /\ i' = i + 1
    /\ UNCHANGED <<fault, mem, pc, pass, sram, verdict>>

\* -EIO: main turns the red LED on and stops.
ReadDiffers ==
    /\ pc = "read" /\ i < Words /\ Read(i) # Pattern(pass, i)
    /\ pc' = "stopped" /\ verdict' = "fail"
    /\ UNCHANGED <<fault, mem, pass, i, sram>>

NextPass ==
    /\ pc = "read" /\ i = Words /\ pass < 3
    /\ pass' = pass + 1
    /\ pc' = "write" /\ i' = 0
    /\ UNCHANGED <<fault, mem, sram, verdict>>

\* The test returns 0: main turns the blue LED on and goes on to sdram_bench.
TestPasses ==
    /\ pc = "read" /\ i = Words /\ pass = 3
    /\ verdict' = "pass"
    /\ pc' = "bench_write" /\ i' = 0
    /\ UNCHANGED <<fault, mem, pass, sram>>

(***************************************************************************)
(* sdram_bench.                                                            *)
(***************************************************************************)

BenchWrite ==
    /\ pc = "bench_write"
    /\ IF i < BenchWords
       THEN Write(i, Binary(i)) /\ i' = i + 1 /\ UNCHANGED pc
       ELSE pc' = "copy_out" /\ i' = 0 /\ UNCHANGED mem
    /\ UNCHANGED <<fault, pass, sram, verdict>>

\* Bug for comparison: the last chunk is a whole one.
MutChunkLength == Chunk
ChunkLength == Smaller(Chunk, BenchWords - i)

\* memcpy of a chunk to SRAM.
CopyOut ==
    /\ pc = "copy_out" /\ i < BenchWords
    /\ sram' = [k \in 0 .. Chunk-1 |-> IF k < ChunkLength THEN Read(i + k) ELSE sram[k]]
    /\ i' = i + ChunkLength
    /\ UNCHANGED <<fault, mem, pc, pass, verdict>>

\* The chunk is filled with its offsets.
FillChunk ==
    /\ pc = "copy_out" /\ i >= BenchWords
    /\ sram' = [k \in 0 .. Chunk-1 |-> Binary(k)]
    /\ pc' = "copy_in" /\ i' = 0
    /\ UNCHANGED <<fault, mem, pass, verdict>>

\* Bug for comparison: the copy always starts at the beginning of the window.
MutCopyIn ==
    /\ pc = "copy_in" /\ i < BenchWords
    /\ mem' = [c \in Cells |->
         IF \E k \in 0 .. ChunkLength-1 : fault.decode[k] = c
         THEN Lines(sram[CHOOSE k \in 0 .. ChunkLength-1 : fault.decode[k] = c])
         ELSE mem[c]]
    /\ i' = i + ChunkLength
    /\ UNCHANGED <<fault, pc, pass, sram, verdict>>

\* memcpy of the chunk to SDRAM; the memory passed the test, so the words of a
\* chunk go to different cells.
CopyIn ==
    /\ pc = "copy_in" /\ i < BenchWords
    /\ mem' = [c \in Cells |->
         IF \E k \in 0 .. ChunkLength-1 : fault.decode[i + k] = c
         THEN Lines(sram[CHOOSE k \in 0 .. ChunkLength-1 : fault.decode[i + k] = c])
         ELSE mem[c]]
    /\ i' = i + ChunkLength
    /\ UNCHANGED <<fault, pc, pass, sram, verdict>>

\* main blinks the LEDs for ever.
BenchDone ==
    /\ pc = "copy_in" /\ i >= BenchWords
    /\ pc' = "blink"
    /\ UNCHANGED <<fault, mem, pass, i, sram, verdict>>

Test == WriteLoop \/ ReadMatches \/ ReadDiffers \/ NextPass \/ TestPasses
Bench == BenchWrite \/ CopyOut \/ FillChunk \/ CopyIn \/ BenchDone

Next == Start \/ Test \/ Bench

Spec == Init /\ [][Next]_vars

(***************************************************************************)
(* Properties.                                                             *)
(***************************************************************************)

\* Every variable has its type, and no loop leaves its range.
TypeOK ==
    /\ fault \in AnyFault
    /\ mem \in [Cells -> Word]
    /\ pc \in {"leds", "ended", "write", "read", "stopped", "bench_write",
               "copy_out", "copy_in", "blink"}
    /\ pass \in 1..3
    /\ i \in 0 .. Words
    /\ sram \in [0 .. Chunk-1 -> Word]
    /\ verdict \in {"none", "pass", "fail"}

\* Two addresses of the window never share a cell.
NoAlias == \A m, n \in Window : fault.decode[m] = fault.decode[n] => m = n

\* No bit of the window is stuck; a bit stuck at 1 on a line tied to others
\* is pulled down with them and cannot be seen.
NoStuckBit ==
    \A n \in Window, b \in Bits :
        /\ <<fault.decode[n], b>> \notin fault.low
        /\ b \notin fault.tied => <<fault.decode[n], b>> \notin fault.high

\* Tied lines carry the same level in every word the test writes.
TiedAlike ==
    \A a, b \in fault.tied, p \in 1..3, n \in Window : Pattern(p, n)[a] = Pattern(p, n)[b]

\* The comment on the three patterns (main.c:43-45): a memory that passes has
\* no address that selects another one's cell, no stuck bit, and no data lines
\* tied together that some pattern tells apart, in the whole window and even
\* if several such faults mask each other's traces.
PassMeansSound == verdict = "pass" => NoAlias /\ NoStuckBit /\ TiedAlike

\* The address printed with a failure (main.c:115) is one of the trouble: its
\* cell has a stuck bit or is shared with another address, or its word is one
\* that tied lines corrupt.  A sound memory never fails.
FailureLocated ==
    verdict = "fail" =>
        \/ \E b \in Bits : <<fault.decode[i], b>> \in fault.low \cup fault.high
        \/ \E n \in Window \ {i} : fault.decode[n] = fault.decode[i]
        \/ \E a, b \in fault.tied : Pattern(pass, i)[a] # Pattern(pass, i)[b]

\* n % Chunk, as the provers can take it.
OffsetOf(n) == n - Chunk * (n \div Chunk)

\* The loops of test and benchmark stay in their windows, also when these are
\* not whole numbers of chunks: a cell no address of the window selects is never
\* written, and after the benchmark every word of its window holds its offset in
\* its chunk, the last and shorter chunk included, save for what tied lines
\* carry.
WindowRefilled ==
    /\ \A c \in Cells : (\A n \in Window : fault.decode[n] # c) => mem[c] = Zero
    /\ pc = "blink" =>
           \A n \in 0 .. BenchWords-1 :
               mem[fault.decode[n]] = Lines(Binary(OffsetOf(n)))
=============================================================================
