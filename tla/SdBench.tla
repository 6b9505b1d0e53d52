------------------------------ MODULE SdBench -------------------------------
(***************************************************************************)
(* The SD card benchmark of 4.sdmmc_sd_speedtest/src/main.c: mount, write  *)
(* a file, remount, read it back, unmount.  The file system and the card   *)
(* are external: any call may fail, a write on a full card stores less     *)
(* than it was given (in the end nothing) without an error, and what the   *)
(* directory says of a file (its length on the card) is brought up to date *)
(* by a sync or a close that succeeds.  The board may be reset between any *)
(* two calls; the card keeps what it holds.                                *)
(*                                                                         *)
(* A step is one call into the file system with what the code does until   *)
(* the next one.  Lengths are in units the chunk is a multiple of.         *)
(***************************************************************************)
EXTENDS Integers

CONSTANTS
    Total,        \* total_bytes
    Chunk,        \* CHUNK_SIZE
    Modes,        \* builds: values of PREALLOC_MODE
    Spaces,       \* free space a card may come with
    Remains,      \* lengths of a file an earlier run may have left
    MaxFaults,    \* bound: calls that fail
    MaxResets     \* bound: resets of the board

ASSUME LengthsAssumption == Total \in Nat /\ Chunk \in Nat \ {0}
ASSUME ModesAssumption == Modes \subseteq {0, 1}
ASSUME CardsAssumption == Spaces \subseteq Nat /\ Remains \subseteq Nat
ASSUME BoundsAssumption == MaxFaults \in Nat /\ MaxResets \in Nat

VARIABLES
    mode,         \* PREALLOC_MODE of this build
    pc,           \* the call main is about to make
    rc,           \* result of preallocate_by_zero_fill or of a benchmark
    done,         \* done, written, read_total
    mounted,      \* mp is mounted
    open,         \* a file is open
    length,       \* length of the file as the mounted file system knows it
    entry,        \* ... and as the directory on the card gives it
    free,         \* free space of the card
    readBack,     \* history: bytes the READ line reports
    unflushed,    \* history: the benchmark file could not be flushed
    stuck,        \* history: an unmount failed
    faults, resets

vars == <<mode, pc, rc, done, mounted, open, length, entry, free, readBack,
          unflushed, stuck, faults, resets>>

card == <<length, entry, free>>
log == <<readBack, unflushed, stuck>>

NoFile == -1
NoReport == -1
Lesser(a, b) == IF a < b THEN a ELSE b
Used(n) == IF n = NoFile THEN 0 ELSE n

Init ==
    /\ mode \in Modes
    /\ pc = "mount" /\ rc = 0 /\ done = 0
    /\ mounted = FALSE /\ open = FALSE
    /\ entry \in {NoFile} \cup Remains /\ length = entry
    /\ free \in Spaces
    /\ readBack = NoReport /\ unflushed = FALSE /\ stuck = FALSE
    /\ faults = 0 /\ resets = 0

\* A call fails (while the bound lasts), or it does not.
Fault == faults < MaxFaults /\ faults' = faults+1
NoFault == UNCHANGED faults

Goto(from, to) == pc = from /\ pc' = to

(***************************************************************************)
(* fs_mount and fs_unmount in main.                                        *)
(***************************************************************************)

\* What the mounted file system knows is what the card holds.
Mount(from, to) ==
    /\ Goto(from, to)
    /\ ~mounted /\ mounted' = TRUE
    /\ length' = entry
    /\ NoFault /\ UNCHANGED <<mode, rc, done, open, entry, free, log, resets>>

\* A mount point that is in use is refused.  main returns.
MountFails(from) ==
    /\ Goto(from, "ended")
    /\ (mounted /\ NoFault) \/ Fault
    /\ UNCHANGED <<mode, rc, done, mounted, open, card, log, resets>>

\* The result of fs_unmount is ignored.
Unmount(from, to) ==
    /\ Goto(from, to)
    /\ \/ mounted' = FALSE /\ NoFault /\ UNCHANGED stuck
       \/ Fault /\ stuck' = TRUE /\ UNCHANGED mounted
    /\ UNCHANGED <<mode, rc, done, open, card, readBack, unflushed, resets>>

(***************************************************************************)
(* The calls of the benchmarks.                                            *)
(***************************************************************************)

\* fs_unlink: the result is ignored.
Unlink(from, to) ==
    /\ Goto(from, to)
    /\ \/ /\ length' = NoFile /\ entry' = NoFile /\ free' = free + Used(length)
          /\ NoFault
       \/ Fault /\ UNCHANGED card
    /\ UNCHANGED <<mode, rc, done, mounted, open, log, resets>>

\* fs_open with FS_O_CREATE | FS_O_WRITE | FS_O_TRUNC: an empty file.
OpenEmpty(from, to) ==
    /\ Goto(from, to)
    /\ open' = TRUE /\ done' = 0
    /\ length' = 0 /\ entry' = 0 /\ free' = free + Used(length)
    /\ NoFault /\ UNCHANGED <<mode, rc, mounted, log, resets>>

OpenFails(from, to) ==
    /\ Goto(from, to)
    /\ Fault /\ rc' = -1
    /\ UNCHANGED <<mode, done, mounted, open, card, log, resets>>

\* What a write of n units stores.
Stored(n) == Lesser(n, free)

\* Bug for comparison: a short write counts as a whole one.
MutWriteChunk(at) ==
    /\ pc = at /\ done < Total
    /\ LET n == Lesser(Chunk, Total - done)
           w == Stored(n)
       IN  done' = done + n /\ length' = length + w /\ free' = free - w
    /\ NoFault /\ UNCHANGED <<mode, pc, rc, mounted, open, entry, log, resets>>

\* One round of the loop; on a full card nothing changes and the loop goes on.
WriteChunk(at) ==
    /\ pc = at /\ done < Total
    /\ LET w == Stored(Lesser(Chunk, Total - done))
       IN  done' = done + w /\ length' = length + w /\ free' = free - w
    /\ NoFault /\ UNCHANGED <<mode, pc, rc, mounted, open, entry, log, resets>>

\* fs_write or fs_read returns an error: the file is closed.
TransferFails(at, to) ==
    /\ Goto(at, to) /\ done < Total
    /\ Fault /\ rc' = -1
    /\ UNCHANGED <<mode, done, mounted, open, card, log, resets>>

\* The loop is over: fs_sync, the result is ignored.
Sync(at, to) ==
    /\ Goto(at, to) /\ done >= Total
    /\ \/ entry' = length /\ NoFault
       \/ Fault /\ UNCHANGED entry
    /\ UNCHANGED <<mode, rc, done, mounted, open, length, free, log, resets>>

\* Bug for comparison: the file is left open after an error.
MutClose(at, to) ==
    /\ Goto(at, to)
    /\ open' = (rc < 0) /\ entry' = length /\ NoFault
    /\ UNCHANGED <<mode, rc, done, mounted, length, free, log, resets>>

\* fs_close: the result is ignored, and the handle is gone.  It brings the
\* directory up to date if a sync did not.
Close(at, to) ==
    /\ Goto(at, to)
    /\ open' = FALSE
    /\ \/ entry' = length /\ NoFault
       \/ Fault /\ UNCHANGED entry
    /\ unflushed' = (unflushed \/ (at = "close write" /\ entry' # length))
    /\ UNCHANGED <<mode, rc, done, mounted, length, free, readBack, stuck, resets>>

(***************************************************************************)
(* preallocate_by_zero_fill.                                               *)
(***************************************************************************)

Preallocate ==
    \/ OpenEmpty("zero open", "zero")
    \/ OpenFails("zero open", "zero over")
    \/ WriteChunk("zero")
    \/ TransferFails("zero", "close zero")
    \/ Sync("zero", "close zero")
    \/ Close("close zero", "zero over")

\* bench_write goes on after a failed preallocation, without the file.
PreallocateOver ==
    /\ Goto("zero over", IF rc < 0 THEN "unlink zero" ELSE "open")
    /\ rc' = 0
    /\ NoFault /\ UNCHANGED <<mode, done, mounted, open, card, log, resets>>

(***************************************************************************)
(* bench_write, bench_read and main.                                       *)
(***************************************************************************)

BenchWrite ==
    \/ Unlink("unlink", IF mode = 1 THEN "zero open" ELSE "open")
    \/ Preallocate \/ PreallocateOver \/ Unlink("unlink zero", "open")
    \/ OpenEmpty("open", "write")
    \/ OpenFails("open", "out")
    \/ WriteChunk("write")
    \/ TransferFails("write", "close write")
    \/ Sync("write", "close write")
    \/ Close("close write", IF rc < 0 THEN "out" ELSE "unmount")

\* fs_open with FS_O_READ.
OpenToRead ==
    /\ Goto("open read", "read")
    /\ length # NoFile
    /\ open' = TRUE /\ done' = 0
    /\ NoFault /\ UNCHANGED <<mode, rc, mounted, card, log, resets>>

NoFileToRead ==
    /\ Goto("open read", "out")
    /\ (length = NoFile /\ NoFault) \/ Fault
    /\ rc' = -1
    /\ UNCHANGED <<mode, done, mounted, open, card, log, resets>>

\* What is left of the file for the next read.
Rest == Lesser(Lesser(Chunk, Total - done), length - done)

ReadChunk ==
    /\ pc = "read" /\ done < Total /\ Rest > 0
    /\ done' = done + Rest
    /\ NoFault /\ UNCHANGED <<mode, pc, rc, mounted, open, card, log, resets>>

\* Bug for comparison: the loop has no look at the end of the file.
MutReadOver ==
    /\ Goto("read", "close read")
    /\ done >= Total
    /\ NoFault /\ UNCHANGED <<mode, rc, done, mounted, open, card, log, resets>>

\* Everything is read, or the file ends before that.
ReadOver ==
    /\ Goto("read", "close read")
    /\ done >= Total \/ Rest = 0
    /\ NoFault /\ UNCHANGED <<mode, rc, done, mounted, open, card, log, resets>>

\* The file is closed; without an error the READ line is printed.
CloseRead ==
    /\ Goto("close read", "out")
    /\ open' = FALSE
    /\ Fault \/ NoFault
    /\ readBack' = (IF rc = 0 THEN done ELSE readBack)
    /\ UNCHANGED <<mode, rc, done, mounted, card, unflushed, stuck, resets>>

BenchRead ==
    OpenToRead \/ NoFileToRead \/ ReadChunk \/ TransferFails("read", "close read") \/
    ReadOver \/ CloseRead

Main ==
    \/ Mount("mount", "unlink") \/ MountFails("mount")
    \/ BenchWrite
    \/ Unmount("unmount", "remount")
    \/ Mount("remount", "open read") \/ MountFails("remount")
    \/ BenchRead
    \/ Unmount("out", "ended")

\* The board is reset: the program starts afresh.  A file that was being
\* written has some length, and the space beyond it is lost.
Reset ==
    /\ resets < MaxResets /\ resets' = resets+1
    /\ pc' = "mount" /\ rc' = 0 /\ done' = 0 /\ mounted' = FALSE /\ open' = FALSE
    /\ entry' \in entry .. (IF open THEN length ELSE entry)
    /\ length' = entry'
    /\ readBack' = NoReport /\ unflushed' = FALSE /\ stuck' = FALSE
    /\ UNCHANGED <<mode, free, faults>>

Next == Main \/ Reset

Spec == Init /\ [][Next]_vars

\* main runs on; nothing makes a call fail.
LiveSpec == Spec /\ WF_vars(Main /\ NoFault)

(***************************************************************************)
(* Properties.                                                             *)
(***************************************************************************)

\* main's error paths (main.c:111, :149, :187, :199): whatever fails, no file
\* is open when the volume is unmounted or main returns, and main returns with
\* the volume unmounted unless an unmount failed.
Released ==
    /\ pc \in {"unmount", "remount", "out", "ended"} => ~open
    /\ pc = "ended" => ~mounted \/ stuck

\* Comment of main.c:189: the file is read back through a fresh mount.  A READ
\* line accounts for every byte of the benchmark, although an older file was
\* there that could not be removed, the preallocation failed or the board was
\* reset before - unless the directory was never brought up to date.
ReadsAllBack == readBack # NoReport => readBack = Total \/ unflushed

\* The benchmark comes to an end each time, except on a card that is full
\* before the file is complete: the loops of main.c:63 and :106 then go on for
\* ever.
BenchEnds == []<>(pc = "ended") \/ <>[](pc \in {"zero", "write"} /\ free = 0)
=============================================================================
