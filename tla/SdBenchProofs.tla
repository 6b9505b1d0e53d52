--------------------------- MODULE SdBenchProofs ----------------------------
(***************************************************************************)
(* Proofs about the SD card benchmark (SdBench), for any size of the       *)
(* benchmark and of its chunks, any card, and any calls that fail.         *)
(***************************************************************************)
EXTENDS SdBench, TLAPS

(***************************************************************************)
(* What is released when main returns.                                     *)
(***************************************************************************)

\* A file is open only from its open to its close, and a volume that is
\* mounted when it should not be could not be unmounted.
Handles ==
    /\ open => pc \in {"zero", "close zero", "write", "close write", "read", "close read"}
    /\ pc = "mount" => ~mounted
    /\ pc \in {"remount", "ended"} => ~mounted \/ stuck

\* Whichever calls fail: no file is open when main unmounts or returns, and a
\* volume is left mounted only by an unmount that failed.
THEOREM AlwaysReleased == Spec => []Released
<1>1. Init => Handles
  BY DEF Init, Handles
<1>2. Handles /\ [Next]_vars => Handles'
  <2> SUFFICES ASSUME Handles, [Next]_vars
               PROVE  Handles'
    OBVIOUS
  <2> USE DEF Handles, Goto, card, log
  <2>2. CASE Mount("mount", "unlink") \/ Mount("remount", "open read")
    <3>1. CASE Mount("mount", "unlink")
      <4>1. pc' = "unlink" /\ ~open'
        BY <3>1 DEF Mount
      <4> QED
        BY <4>1
    <3>2. CASE Mount("remount", "open read")
      <4>1. pc' = "open read" /\ ~open'
        BY <3>2 DEF Mount
      <4> QED
        BY <4>1
    <3> QED
      BY <2>2, <3>1, <3>2
  <2>3. CASE MountFails("mount") \/ MountFails("remount")
    <3>1. pc' = "ended" /\ ~open'
      <4>1. pc \in {"mount", "remount"} /\ pc' = "ended" /\ open' = open
        BY <2>3 DEF MountFails
      <4> QED
        BY <4>1
    <3>2. ~mounted \/ stuck
      BY <2>3 DEF MountFails
    <3>3. UNCHANGED <<mounted, stuck>>
      BY <2>3 DEF MountFails
    <3> QED
      BY <3>1, <3>2, <3>3
  <2>4. CASE Unmount("unmount", "remount") \/ Unmount("out", "ended")
    <3>1. pc' \in {"remount", "ended"} /\ ~open'
      <4>1. pc \in {"unmount", "out"} /\ pc' \in {"remount", "ended"} /\ open' = open
        BY <2>4 DEF Unmount
      <4> QED
        BY <4>1
    <3>2. ~mounted' \/ stuck'
      BY <2>4 DEF Unmount
    <3> QED
      BY <3>1, <3>2
  <2>5. CASE BenchWrite
    <3>1. CASE Unlink("unlink", IF mode = 1 THEN "zero open" ELSE "open")
      <4>1. pc = "unlink" /\ pc' \in {"zero open", "open"} /\ open' = open
        BY <3>1 DEF Unlink
      <4> QED
        BY <4>1
    <3>2. CASE Unlink("unlink zero", "open")
      BY <3>2 DEF Unlink
    <3>3. CASE OpenEmpty("zero open", "zero") \/ OpenEmpty("open", "write")
      BY <3>3 DEF OpenEmpty
    <3>4. CASE OpenFails("zero open", "zero over") \/ OpenFails("open", "out")
      <4>1. /\ pc \in {"zero open", "open"} /\ pc' \in {"zero over", "out"}
            /\ open' = open
        BY <3>4 DEF OpenFails
      <4> QED
        BY <4>1
    <3>5. CASE WriteChunk("zero") \/ WriteChunk("write")
      BY <3>5 DEF WriteChunk
    <3>6. CASE TransferFails("zero", "close zero") \/ TransferFails("write", "close write")
      BY <3>6 DEF TransferFails
    <3>7. CASE Sync("zero", "close zero") \/ Sync("write", "close write")
      BY <3>7 DEF Sync
    <3>8. CASE Close("close zero", "zero over")
      BY <3>8 DEF Close
    <3>9. CASE Close("close write", IF rc < 0 THEN "out" ELSE "unmount")
      BY <3>9 DEF Close
    <3>10. CASE PreallocateOver
      BY <3>10 DEF PreallocateOver
    <3> QED
      BY <2>5, <3>1, <3>2, <3>3, <3>4, <3>5, <3>6, <3>7, <3>8, <3>9, <3>10
         DEF BenchWrite, Preallocate
  <2>6. CASE BenchRead
    <3>1. CASE OpenToRead
      BY <3>1 DEF OpenToRead
    <3>2. CASE NoFileToRead
      BY <3>2 DEF NoFileToRead
    <3>3. CASE ReadChunk
      BY <3>3 DEF ReadChunk
    <3>4. CASE TransferFails("read", "close read")
      BY <3>4 DEF TransferFails
    <3>5. CASE ReadOver
      BY <3>5 DEF ReadOver
    <3>6. CASE CloseRead
      BY <3>6 DEF CloseRead
    <3> QED
      BY <2>6, <3>1, <3>2, <3>3, <3>4, <3>5, <3>6 DEF BenchRead
  <2>7. CASE Reset
    BY <2>7 DEF Reset
  <2>8. CASE UNCHANGED vars
    BY <2>8 DEF vars
  <2> QED
    BY <2>2, <2>3, <2>4, <2>5, <2>6, <2>7, <2>8 DEF Next, Main
<1>3. Handles => Released
  BY DEF Handles, Released
<1> QED
  BY <1>1, <1>2, <1>3, PTL DEF Spec

(***************************************************************************)
(* What the READ line accounts for.                                        *)
(***************************************************************************)

\* The quantities are numbers, and no loop goes past its end.
Amounts ==
    /\ done \in 0..Total /\ rc \in {-1, 0} /\ free \in Nat
    /\ length \in Int /\ length >= NoFile
    /\ entry \in Int /\ entry >= NoFile

\* How far the file is complete, at each call from the write on.
Complete ==
    /\ pc = "write" => length = done
    /\ pc = "close write" /\ rc = 0 => length = Total
    /\ pc \in {"unmount", "remount"} => unflushed \/ (length = Total /\ entry = Total)
    /\ pc \in {"open read", "read"} => unflushed \/ length = Total
    /\ pc = "close read" /\ rc = 0 => unflushed \/ done = Total
    /\ readBack # NoReport => readBack = Total \/ unflushed

\* A write stores a part of what it is given, and of what is free.
LEMMA StoredFacts ==
    ASSUME Amounts, done < Total
    PROVE  LET w == Stored(Lesser(Chunk, Total - done))
           IN  w \in Nat /\ w <= Total - done /\ w <= free
  BY LengthsAssumption DEF Amounts, Stored, Lesser

\* The amounts stay numbers, whichever call comes next.
LEMMA AmountsKept == Amounts /\ [Next]_vars => Amounts'
<1> SUFFICES ASSUME Amounts, [Next]_vars
             PROVE  Amounts'
  OBVIOUS
<1> USE LengthsAssumption DEF Amounts, card, log, NoFile
<1>1. ASSUME UNCHANGED <<length, entry, free>>, UNCHANGED done \/ done' = 0,
             rc' \in {-1, 0, rc}
      PROVE  Amounts'
  BY <1>1
<1>2. ASSUME NEW from, NEW to,
             \/ OpenFails(from, to) \/ TransferFails(from, to) \/ Unmount(from, to)
             \/ MountFails(from)
      PROVE  Amounts'
  BY <1>1, <1>2 DEF OpenFails, TransferFails, Unmount, MountFails
<1>3. ASSUME NEW from, NEW to,
             Mount(from, to) \/ Sync(from, to) \/ Close(from, to)
      PROVE  Amounts'
  BY <1>3 DEF Mount, Sync, Close
<1>4. ASSUME NEW from, NEW to, Unlink(from, to) \/ OpenEmpty(from, to)
      PROVE  Amounts'
  BY <1>4 DEF Unlink, OpenEmpty, Used
<1>5. ASSUME NEW at, WriteChunk(at)
      PROVE  Amounts'
  <2> DEFINE w == Stored(Lesser(Chunk, Total - done))
  <2>1. w \in Nat /\ w <= Total - done /\ w <= free
    BY <1>5, StoredFacts DEF WriteChunk
  <2>2. /\ done' = done + w /\ length' = length + w /\ free' = free - w
        /\ UNCHANGED <<rc, entry>>
    BY <1>5 DEF WriteChunk
  <2> HIDE DEF w
  <2> QED
    BY <2>1, <2>2
<1>6. CASE PreallocateOver
  BY <1>1, <1>6 DEF PreallocateOver
<1>7. CASE OpenToRead \/ NoFileToRead \/ ReadOver \/ CloseRead
  BY <1>1, <1>7 DEF OpenToRead, NoFileToRead, ReadOver, CloseRead
<1>8. CASE ReadChunk
  <2>1. Rest \in Int /\ Rest <= Total - done
    BY DEF Rest, Lesser
  <2>2. done' = done + Rest /\ Rest > 0 /\ UNCHANGED <<rc, length, entry, free>>
    BY <1>8 DEF ReadChunk
  <2> QED
    BY <2>1, <2>2
<1>9. CASE Reset
  BY <1>9 DEF Reset
<1>10. CASE UNCHANGED vars
  BY <1>10 DEF vars
<1> QED
  BY <1>2, <1>3, <1>4, <1>5, <1>6, <1>7, <1>8, <1>9, <1>10
     DEF Next, Main, BenchWrite, Preallocate, BenchRead

\* A READ line accounts for every byte of the benchmark, unless the directory
\* was never brought up to date.
THEOREM ReadLineIsWhole == Spec => []ReadsAllBack
<1>1. Init => Amounts /\ Complete
  BY LengthsAssumption, CardsAssumption DEF Init, Amounts, Complete, NoFile
<1>2. Amounts /\ Complete /\ [Next]_vars => Complete'
  <2> SUFFICES ASSUME Amounts, Complete, [Next]_vars
               PROVE  Complete'
    OBVIOUS
  <2> USE LengthsAssumption DEF Goto, card, log
  <2>1. ASSUME UNCHANGED readBack, unflushed => unflushed',
               pc' \notin {"write", "close write", "unmount", "remount", "open read",
                           "read", "close read"}
        PROVE  Complete'
    BY <2>1 DEF Complete
  <2>2. CASE Mount("mount", "unlink") \/ MountFails("mount") \/ MountFails("remount")
             \/ Unmount("out", "ended")
    BY <2>1, <2>2 DEF Mount, MountFails, Unmount
  <2>3. CASE Mount("remount", "open read")
    BY <2>3 DEF Mount, Complete
  <2>4. CASE Unmount("unmount", "remount")
    BY <2>4 DEF Unmount, Complete
  <2>5. CASE BenchWrite
    <3>1. CASE Unlink("unlink", IF mode = 1 THEN "zero open" ELSE "open")
               \/ Unlink("unlink zero", "open")
      BY <2>1, <3>1 DEF Unlink
    <3>2. CASE OpenEmpty("zero open", "zero")
      BY <2>1, <3>2 DEF OpenEmpty
    <3>3. CASE OpenFails("zero open", "zero over") \/ OpenFails("open", "out")
      BY <2>1, <3>3 DEF OpenFails
    <3>4. CASE WriteChunk("zero")
      BY <2>1, <3>4 DEF WriteChunk
    <3>5. CASE TransferFails("zero", "close zero")
      BY <2>1, <3>5 DEF TransferFails
    <3>6. CASE Sync("zero", "close zero")
      BY <2>1, <3>6 DEF Sync
    <3>7. CASE Close("close zero", "zero over")
      <4>1. pc' = "zero over" /\ readBack' = readBack
        BY <3>7, Zenon DEF Close
      <4>2. unflushed => unflushed'
        BY <3>7, Zenon DEF Close
      <4> QED
        BY <2>1, <4>1, <4>2
    <3>8. CASE PreallocateOver
      BY <2>1, <3>8 DEF PreallocateOver
    <3>9. CASE OpenEmpty("open", "write")
      BY <3>9 DEF OpenEmpty, Complete
    <3>10. CASE WriteChunk("write")
      <4> DEFINE w == Stored(Lesser(Chunk, Total - done))
      <4>1. w \in Nat
        BY <3>10, StoredFacts DEF WriteChunk
      <4>2. /\ done' = done + w /\ length' = length + w /\ pc = "write" /\ pc' = "write"
            /\ UNCHANGED <<readBack, unflushed>>
        BY <3>10 DEF WriteChunk
      <4> HIDE DEF w
      <4> QED
        BY <4>1, <4>2 DEF Complete
    <3>11. CASE TransferFails("write", "close write")
      <4>1. pc' = "close write" /\ UNCHANGED <<readBack, unflushed>>
        BY <3>11 DEF TransferFails
      <4>2. rc' # 0
        <5>1. rc' = -1
          BY <3>11, Zenon DEF TransferFails
        <5> QED
          BY <5>1
      <4> QED
        BY <4>1, <4>2 DEF Complete
    <3>12. CASE Sync("write", "close write")
      <4>1. /\ pc = "write" /\ pc' = "close write" /\ done >= Total
            /\ UNCHANGED <<readBack, unflushed, length>>
        BY <3>12 DEF Sync
      <4>2. length = Total
        <5>1. length = done
          BY <4>1, Zenon DEF Complete
        <5>2. done >= Total
          BY <4>1, Zenon
        <5>3. done = Total
          BY <5>2 DEF Amounts
        <5> QED
          BY <5>1, <5>3
      <4> QED
        BY <4>1, <4>2 DEF Complete
    <3>13. CASE Close("close write", IF rc < 0 THEN "out" ELSE "unmount")
      <4>1. CASE rc < 0
        <5>1. pc' = "out" /\ readBack' = readBack
          BY <3>13, <4>1, Zenon DEF Close
        <5>2. unflushed => unflushed'
          BY <3>13, Zenon DEF Close
        <5> QED
          BY <2>1, <5>1, <5>2
      <4>2. CASE rc = 0
        <5>1. /\ pc = "close write" /\ pc' = "unmount"
              /\ UNCHANGED <<length, readBack>>
          <6>1. ~(rc < 0)
            BY <4>2
          <6> QED
            BY <3>13, <6>1, Zenon DEF Close
        <5>2. unflushed' <=> (unflushed \/ entry' # length)
          BY <3>13 DEF Close
        <5> QED
          BY <4>2, <5>1, <5>2 DEF Complete
      <4> QED
        BY <4>1, <4>2 DEF Amounts
    <3> QED
      BY <2>5, <3>1, <3>2, <3>3, <3>4, <3>5, <3>6, <3>7, <3>8, <3>9, <3>10, <3>11,
         <3>12, <3>13 DEF BenchWrite, Preallocate
  <2>6. CASE BenchRead
    <3>1. CASE OpenToRead
      BY <3>1 DEF OpenToRead, Complete
    <3>2. CASE NoFileToRead
      BY <2>1, <3>2 DEF NoFileToRead
    <3>3. CASE ReadChunk
      BY <3>3 DEF ReadChunk, Complete
    <3>4. CASE TransferFails("read", "close read")
      <4>1. pc' = "close read" /\ UNCHANGED <<readBack, unflushed>>
        BY <3>4 DEF TransferFails
      <4>2. rc' # 0
        <5>1. rc' = -1
          BY <3>4, Zenon DEF TransferFails
        <5> QED
          BY <5>1
      <4> QED
        BY <4>1, <4>2 DEF Complete
    <3>5. CASE ReadOver
      <4>1. length = Total => done = Total
        <5>1. done >= Total \/ Rest = 0
          BY <3>5 DEF ReadOver
        <5> QED
          BY <5>1 DEF Rest, Lesser, Amounts
      <4> QED
        <5>1. /\ pc = "read" /\ pc' = "close read"
              /\ UNCHANGED <<done, length, readBack, unflushed>>
          BY <3>5 DEF ReadOver
        <5> QED
          BY <4>1, <5>1 DEF Complete
    <3>6. CASE CloseRead
      BY <3>6 DEF CloseRead, Complete
    <3> QED
      BY <2>6, <3>1, <3>2, <3>3, <3>4, <3>5, <3>6 DEF BenchRead
  <2>7. CASE Reset
    BY <2>7 DEF Reset, NoReport, Complete
  <2>8. CASE UNCHANGED vars
    BY <2>8 DEF vars, Complete
  <2> QED
    BY <2>2, <2>3, <2>4, <2>5, <2>6, <2>7, <2>8 DEF Next, Main
<1>3. Complete => ReadsAllBack
  BY DEF Complete, ReadsAllBack
<1> QED
  BY <1>1, <1>2, <1>3, AmountsKept, PTL DEF Spec
=============================================================================
