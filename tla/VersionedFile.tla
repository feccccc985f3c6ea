--------------------------- MODULE VersionedFile ---------------------------
(***************************************************************************)
(* What the block store promises for one versioned main file: the live    *)
(* file changes only by whole pwrite()s, and the file as it was when the  *)
(* latest snapshot was taken stays readable, byte for byte, through the   *)
(* snapshot.  The implementation (BlockStore) reconstructs the snapshot   *)
(* view from the map file, the dat (log) file and the main file; this     *)
(* module states the view as a variable that never changes.  ftruncate() *)
(* cuts or extends the live file as a whole, in one step.                 *)
(*                                                                         *)
(* Bytes are abstracted to values: the byte at offset p of the snapshot-  *)
(* time content is p + 1, a byte written by a writer is the writer's id,  *)
(* and a hole created by writing past the end of the file reads as 0.     *)
(***************************************************************************)
EXTENDS Naturals, Sequences

CONSTANTS
  SnSize,   \* st_size recorded in the map header at snapshot time
  Writers,  \* the threads that issue write() calls
  Offsets,  \* the write offsets the model enumerates
  Sizes,    \* the write sizes the model enumerates
  TruncSizes \* the new sizes ftruncate() is called with

VARIABLES
  live,     \* the main file, a sequence of byte values
  snap      \* the file as seen through the snapshot: offset -> byte value

avars == <<live, snap>>

(* The snapshot-time byte at offset p.                                     *)
Orig(p) == p + 1

(* The snapshot-time content of the file, as a sequence.                  *)
OrigFile == [i \in 1..SnSize |-> Orig(i - 1)]

(* pwrite(fd, buf, size, off) with every byte of buf equal to v: bytes    *)
(* [off, off+size) become v, a gap past the old end becomes a hole of 0.  *)
PWrite(f, off, size, v) ==
  LET newLen == IF off + size > Len(f) THEN off + size ELSE Len(f)
  IN  [i \in 1..newLen |->
         IF off < i /\ i <= off + size THEN v
         ELSE IF i <= Len(f) THEN f[i] ELSE 0]

(* ftruncate(fd, n): the file keeps its first n bytes; growing it adds a  *)
(* hole of 0 bytes.                                                        *)
PTruncate(f, n) == [i \in 1..n |-> IF i <= Len(f) THEN f[i] ELSE 0]

AInit ==
  /\ live = OrigFile
  /\ snap = [p \in 0..SnSize - 1 |-> Orig(p)]

(* A whole write lands in the live file; the snapshot view is untouched.  *)
AWrite(off, size, v) ==
  /\ live' = PWrite(live, off, size, v)
  /\ UNCHANGED snap

(* A whole truncation of the live file; the snapshot view is untouched.  *)
ATruncate(n) ==
  /\ live' = PTruncate(live, n)
  /\ UNCHANGED snap

ANext ==
  \/ \E off \in Offsets, size \in Sizes, v \in Writers : AWrite(off, size, v)
  \/ \E n \in TruncSizes : ATruncate(n)

ASpec == AInit /\ [][ANext]_avars

=============================================================================
