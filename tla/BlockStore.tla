----------------------------- MODULE BlockStore -----------------------------
(***************************************************************************)
(* The copy-on-write block store of one versioned main file (block.c,     *)
(* esfs_b_write) driven by concurrent write() calls (fuse_fd_write.c,      *)
(* esfs_write).  Each thread runs one write() at a time: b_write walks the *)
(* blocks the write touches, saves the old content of every block whose   *)
(* map pointer is still 0 into the dat file under the per-inode lock, and *)
(* only then write() issues the unlocked pwrite() into the main file.     *)
(* ftruncate() (esfs_ftruncate) calls b_truncate, which saves the same    *)
(* way every snapshot-time block the new size cuts off (spec 4.2; its body *)
(* is not in src), and then truncates the main file, also unlocked.       *)
(*                                                                         *)
(* Every system call is one step, so the steps of different threads       *)
(* interleave exactly where the C code can be preempted.  With Faults,    *)
(* every call that can fail may fail the way the code checks for.         *)
(***************************************************************************)
EXTENDS Integers, Sequences, FiniteSets

CONSTANTS
  Threads,    \* threads calling write() on the same open file
  BL_SLOG,    \* ESFS_BL_SLOG: log2 of the block size
  SnSize,     \* mapheader.fstat.st_size: file size when the snapshot was taken
  Offsets,    \* write offsets enumerated
  Sizes,      \* write sizes enumerated
  TruncSizes, \* ftruncate() new sizes enumerated
  MaxWrites,  \* bound: write() and ftruncate() calls per thread
  Faults,     \* whether I/O, allocation and lock calls may fail
  NoThread    \* lock owner when the lock is free

ASSUME BL_SLOG \in Nat /\ SnSize \in Nat \ {0} /\ MaxWrites \in Nat
ASSUME Offsets \subseteq Nat /\ Sizes \subseteq Nat /\ Faults \in BOOLEAN
ASSUME TruncSizes \subseteq Nat

BL == 2 ^ BL_SLOG   \* ESFS_BL_S, the block size

MaxOf(S) == CHOOSE x \in S : \A y \in S : y <= x

(* Every map slot a write can reach (the map file is sparse: 0 if unset). *)
BlockIdx == 0..((MaxOf(Offsets) + MaxOf(Sizes)) \div BL + 1)

Errors == {"EIO", "ENXIO", "EFAULT", "ENOMEM"}

VARIABLES
  main,     \* content of the main file
  map,      \* pointer slots of the map file: block index -> 0 | dat block + 1
  dat,      \* content of the dat (append-only log) file
  lock,     \* owner of the per-inode lock (esfs_flock_lock), or NoThread
  pc,       \* where each thread is in write()/b_write()
  req,      \* the request being served: [op, off, size]; for an
            \* ftruncate() (op "trunc") off is the new size
  bo,       \* b_write's blockoffset: the block being processed
  bn,       \* b_write's blocknumber: blocks left to process
  held,     \* lock != -1 in b_write: this call holds the lock
  buf,      \* the one-block buffer read from the main file
  datsize,  \* the dat file size returned by lseek(SEEK_END)
  werr,     \* b_write's waserror, "none" for 0
  result,   \* what the last write() or ftruncate() returned: "none", "ok", an error, or
            \* "count" (a positive value that is not the pwrite's)
  nwrites   \* write() and ftruncate() calls issued per thread

vars == <<main, map, dat, lock, pc, req, bo, bn, held, buf, datsize,
          werr, result, nwrites>>

(* The file as read through the snapshot (b_read): a block whose pointer  *)
(* is non-0 is read from the dat file, any other from the main file; -1   *)
(* stands for bytes that are not there (past either file's end).           *)
SnapView ==
  [p \in 0..SnSize - 1 |->
     LET ptr == map[p \div BL]
     IN  IF ptr = 0 THEN (IF p < Len(main) THEN main[p + 1] ELSE -1)
         ELSE IF ptr * BL <= Len(dat) THEN dat[(ptr - 1) * BL + (p % BL) + 1]
         ELSE -1]

VF == INSTANCE VersionedFile WITH live <- main, snap <- SnapView,
                                  Writers <- Threads

PCs == {"idle", "spec", "lock", "reread", "readmain", "seek", "append",
        "mapwrite", "cleanup", "pwrite"}

Init ==
  /\ main = VF!OrigFile
  /\ map = [b \in BlockIdx |-> 0]
  /\ dat = <<>>
  /\ lock = NoThread
  /\ pc = [t \in Threads |-> "idle"]
  /\ req = [t \in Threads |-> [op |-> "write", off |-> 0, size |-> 0]]
  /\ bo = [t \in Threads |-> 0]
  /\ bn = [t \in Threads |-> 0]
  /\ held = [t \in Threads |-> FALSE]
  /\ buf = [t \in Threads |-> [i \in 1..BL |-> 0]]
  /\ datsize = [t \in Threads |-> 0]
  /\ werr = [t \in Threads |-> "none"]
  /\ result = [t \in Threads |-> "none"]
  /\ nwrites = [t \in Threads |-> 0]

Goto(t, l) == pc' = [pc EXCEPT ![t] = l]

(* break out of the block loop with waserror = e.                          *)
Fail(t, e) ==
  /\ werr' = [werr EXCEPT ![t] = e]
  /\ Goto(t, "cleanup")

(* Mutant: the loop condition blocknumber >= 0 instead of > 0.          *)
NextBlock_LoopOffByOne(t) ==
  /\ bn' = [bn EXCEPT ![t] = @ - 1]
  /\ bo' = [bo EXCEPT ![t] = @ + 1]
  /\ Goto(t, IF bn[t] - 1 >= 0 THEN "spec" ELSE "cleanup")

(* The for-loop step: next block, or leave the loop when none is left.     *)
NextBlock(t) ==
  /\ bn' = [bn EXCEPT ![t] = @ - 1]
  /\ bo' = [bo EXCEPT ![t] = @ + 1]
  /\ Goto(t, IF bn[t] - 1 > 0 THEN "spec" ELSE "cleanup")

(* Mutant: blocknumber = writesize >> BL_SLOG, without the + 1.           *)
StartWrite_NoPlusOne(t) ==
  /\ pc[t] = "idle"
  /\ nwrites[t] < MaxWrites
  /\ \E off \in Offsets, size \in Sizes :
       LET wsize == IF off + size > SnSize THEN SnSize - off ELSE size
           nblk  == wsize \div BL
       IN  /\ req' = [req EXCEPT ![t] = [op |-> "write", off |-> off, size |-> size]]
           /\ IF off + size > SnSize /\ off >= SnSize
                THEN /\ Goto(t, "pwrite")
                     /\ UNCHANGED <<bo, bn>>
                ELSE /\ bo' = [bo EXCEPT ![t] = off \div BL]
                     /\ bn' = [bn EXCEPT ![t] = nblk]
                     /\ Goto(t, IF nblk > 0 THEN "spec" ELSE "cleanup")
  /\ nwrites' = [nwrites EXCEPT ![t] = @ + 1]
  /\ werr' = [werr EXCEPT ![t] = "none"]
  /\ result' = [result EXCEPT ![t] = "none"]
  /\ UNCHANGED <<main, map, dat, lock, held, buf, datsize>>

(* write() entry and b_write's prologue: clamp the range to the snapshot- *)
(* time size, return 0 at once if it starts past it, else compute the     *)
(* first block and the number of blocks with the block shift.             *)
StartWrite(t) ==
  /\ pc[t] = "idle"
  /\ nwrites[t] < MaxWrites
  /\ \E off \in Offsets, size \in Sizes :
       LET wsize == IF off + size > SnSize THEN SnSize - off ELSE size
           nblk  == (wsize \div BL) + 1
       IN  /\ req' = [req EXCEPT ![t] = [op |-> "write", off |-> off, size |-> size]]
           /\ IF off + size > SnSize /\ off >= SnSize
                THEN /\ Goto(t, "pwrite")
                     /\ UNCHANGED <<bo, bn>>
                ELSE /\ bo' = [bo EXCEPT ![t] = off \div BL]
                     /\ bn' = [bn EXCEPT ![t] = nblk]
                     /\ Goto(t, IF nblk > 0 THEN "spec" ELSE "cleanup")
  /\ nwrites' = [nwrites EXCEPT ![t] = @ + 1]
  /\ werr' = [werr EXCEPT ![t] = "none"]
  /\ result' = [result EXCEPT ![t] = "none"]
  /\ UNCHANGED <<main, map, dat, lock, held, buf, datsize>>

(* Spec-modelled (b_truncate, not in src): the snapshot-time blocks a    *)
(* truncation to n cuts off, from the block holding byte n (cut in part  *)
(* or whole) to the last block of the snapshot-time size.                  *)
TruncFirst(n) == n \div BL
TruncCount(n) == IF n >= SnSize THEN 0 ELSE (SnSize - 1) \div BL - TruncFirst(n) + 1

(* Mutant: the main file is truncated before b_truncate saves its tail.  *)
FTruncate_TruncateFirst(t) ==
  /\ pc[t] = "idle"
  /\ nwrites[t] < MaxWrites
  /\ \E n \in TruncSizes :
       /\ main' = VF!PTruncate(main, n)
       /\ req' = [req EXCEPT ![t] = [op |-> "trunc", off |-> n, size |-> 0]]
       /\ bo' = [bo EXCEPT ![t] = TruncFirst(n)]
       /\ bn' = [bn EXCEPT ![t] = TruncCount(n)]
       /\ Goto(t, IF TruncCount(n) > 0 THEN "spec" ELSE "cleanup")
  /\ nwrites' = [nwrites EXCEPT ![t] = @ + 1]
  /\ werr' = [werr EXCEPT ![t] = "none"]
  /\ result' = [result EXCEPT ![t] = "none"]
  /\ UNCHANGED <<map, dat, lock, held, buf, datsize>>

(* ftruncate() entry and b_truncate: the blocks the new size cuts off go   *)
(* through the same save loop as a write's; with none, b_truncate returns *)
(* 0 at once.  (mfd_validate, not in src, succeeds: the latest snapshot   *)
(* does not change while the file system is mounted.)                      *)
FTruncate(t) ==
  /\ pc[t] = "idle"
  /\ nwrites[t] < MaxWrites
  /\ \E n \in TruncSizes :
       /\ req' = [req EXCEPT ![t] = [op |-> "trunc", off |-> n, size |-> 0]]
       /\ bo' = [bo EXCEPT ![t] = TruncFirst(n)]
       /\ bn' = [bn EXCEPT ![t] = TruncCount(n)]
       /\ Goto(t, IF TruncCount(n) > 0 THEN "spec" ELSE "cleanup")
  /\ nwrites' = [nwrites EXCEPT ![t] = @ + 1]
  /\ werr' = [werr EXCEPT ![t] = "none"]
  /\ result' = [result EXCEPT ![t] = "none"]
  /\ UNCHANGED <<main, map, dat, lock, held, buf, datsize>>

(* The speculative, unlocked read of the block's map pointer.  A non-0    *)
(* pointer means the block is saved; when the lock is already held this   *)
(* read was the real one.                                                  *)
ReadPointer(t) ==
  /\ pc[t] = "spec"
  /\ \/ /\ Faults
        /\ Fail(t, "EIO")
        /\ UNCHANGED <<bo, bn>>
     \/ /\ map[bo[t]] # 0
        /\ NextBlock(t)
        /\ UNCHANGED werr
     \/ /\ map[bo[t]] = 0
        /\ Goto(t, IF held[t] THEN "readmain" ELSE "lock")
        /\ UNCHANGED <<bo, bn, werr>>
  /\ UNCHANGED <<main, map, dat, lock, req, held, buf, datsize, result, nwrites>>

(* Mutant: a lock that does not exclude (e.g. keyed by descriptor).       *)
Lock_NoExclusion(t) ==
  /\ pc[t] = "lock"
  /\ lock' = t
  /\ held' = [held EXCEPT ![t] = TRUE]
  /\ Goto(t, "reread")
  /\ UNCHANGED <<main, map, dat, req, bo, bn, buf, datsize, werr, result, nwrites>>

(* esfs_flock_lock on the main file's inode: blocks while another thread  *)
(* holds it; fails when the lock table is full.                            *)
Lock(t) ==
  /\ pc[t] = "lock"
  /\ \/ /\ lock = NoThread
        /\ lock' = t
        /\ held' = [held EXCEPT ![t] = TRUE]
        /\ Goto(t, "reread")
        /\ UNCHANGED werr
     \/ /\ Faults                   \* lock = -errno: no longer -1
        /\ Fail(t, "ENOMEM")
        /\ held' = [held EXCEPT ![t] = TRUE]
        /\ UNCHANGED lock
  /\ UNCHANGED <<main, map, dat, req, bo, bn, buf, datsize, result, nwrites>>

(* Mutant: no re-read after taking the lock; the speculative 0 is trusted. *)
Reread_Skip(t) ==
  /\ pc[t] = "reread"
  /\ Goto(t, "readmain")
  /\ UNCHANGED <<main, map, dat, lock, req, bo, bn, held, buf, datsize, werr, result, nwrites>>

(* The authoritative re-read of the pointer under the lock.               *)
Reread(t) ==
  /\ pc[t] = "reread"
  /\ \/ /\ Faults
        /\ Fail(t, "EIO")
        /\ UNCHANGED <<bo, bn>>
     \/ /\ map[bo[t]] # 0
        /\ NextBlock(t)
        /\ UNCHANGED werr
     \/ /\ map[bo[t]] = 0
        /\ Goto(t, "readmain")
        /\ UNCHANGED <<bo, bn, werr>>
  /\ UNCHANGED <<main, map, dat, lock, req, held, buf, datsize, result, nwrites>>

(* malloc the buffer and pread the whole block from the main file; a read *)
(* of 0 bytes (the block starts at or past EOF) is ENXIO.  A short read  *)
(* is accepted: bytes past EOF keep what the buffer held.                  *)
ReadMain(t) ==
  LET n == Len(main) - bo[t] * BL
  IN
  /\ pc[t] = "readmain"
  /\ \/ /\ Faults
        /\ \E e \in {"ENOMEM", "EIO"} : Fail(t, e)
        /\ UNCHANGED buf
     \/ /\ n < 1
        /\ Fail(t, "ENXIO")
        /\ UNCHANGED buf
     \/ /\ n >= 1
        /\ buf' = [buf EXCEPT ![t] =
                     [i \in 1..BL |-> IF i <= n THEN main[bo[t] * BL + i]
                                      ELSE buf[t][i]]]
        /\ Goto(t, "seek")
        /\ UNCHANGED werr
  /\ UNCHANGED <<main, map, dat, lock, req, bo, bn, held, datsize, result, nwrites>>

(* lseek(datfd, 0, SEEK_END) and the block-alignment sanity check.         *)
Seek(t) ==
  /\ pc[t] = "seek"
  /\ \/ /\ Faults
        /\ Fail(t, "EIO")
        /\ UNCHANGED datsize
     \/ /\ Len(dat) % BL # 0
        /\ Fail(t, "EFAULT")
        /\ UNCHANGED datsize
     \/ /\ Len(dat) % BL = 0
        /\ datsize' = [datsize EXCEPT ![t] = Len(dat)]
        /\ Goto(t, "append")
        /\ UNCHANGED werr
  /\ UNCHANGED <<main, map, dat, lock, req, bo, bn, held, buf, result, nwrites>>

(* write(datfd, buf, BL): the block is appended; a failed write appends   *)
(* nothing (EIO), a short one appends a prefix (ENXIO).                   *)
AppendDat(t) ==
  /\ pc[t] = "append"
  /\ \/ /\ dat' = dat \o buf[t]
        /\ Goto(t, "mapwrite")
        /\ UNCHANGED werr
     \/ /\ Faults
        /\ Fail(t, "EIO")
        /\ UNCHANGED dat
     \/ /\ Faults
        /\ \E k \in 1..(BL - 1) : dat' = dat \o SubSeq(buf[t], 1, k)
        /\ Fail(t, "ENXIO")
  /\ UNCHANGED <<main, map, lock, req, bo, bn, held, buf, datsize, result, nwrites>>

(* pointer = (datsize >> BL_SLOG) + 1, pwritten into the block's slot.    *)
MapWrite(t) ==
  /\ pc[t] = "mapwrite"
  /\ \/ /\ map' = [map EXCEPT ![bo[t]] = datsize[t] \div BL + 1]
        /\ NextBlock(t)
        /\ UNCHANGED werr
     \/ /\ Faults
        /\ Fail(t, "EIO")
        /\ UNCHANGED <<map, bo, bn>>
  /\ UNCHANGED <<main, dat, lock, req, held, buf, datsize, result, nwrites>>

(* flock_unlock(lock) at cleanup, called whenever lock != -1: it frees   *)
(* the lock if this call took it; after a failed flock_lock it is given   *)
(* -errno, which names no lock, and leaves the lock as it is.             *)
Released(t) == IF lock = t THEN NoThread ELSE lock

(* Mutant: the lock is released only on the success path.                 *)
Cleanup_KeepLockOnError(t) ==
  /\ pc[t] = "cleanup"
  /\ lock' = IF werr[t] = "none" THEN Released(t) ELSE lock
  /\ held' = [held EXCEPT ![t] = FALSE]
  /\ IF werr[t] = "none"
       THEN /\ Goto(t, "pwrite")
            /\ UNCHANGED result
       ELSE /\ Goto(t, "idle")
            /\ result' = [result EXCEPT ![t] = werr[t]]
  /\ UNCHANGED <<main, map, dat, req, bo, bn, buf, datsize, werr, nwrites>>

(* Mutant: write() goes on to the pwrite whatever b_write returned.       *)
Cleanup_IgnoreError(t) ==
  /\ pc[t] = "cleanup"
  /\ lock' = Released(t)
  /\ held' = [held EXCEPT ![t] = FALSE]
  /\ Goto(t, "pwrite")
  /\ UNCHANGED <<main, map, dat, req, bo, bn, buf, datsize, werr, result, nwrites>>

(* b_write's cleanup: if lock != -1, call flock_unlock; return           *)
(* -waserror; write() returns the error, or goes on to the pwrite.  If    *)
(* flock_unlock fails, b_write returns -lock, a positive number, which    *)
(* write() passes up as a byte count; whether the lock manager still      *)
(* holds the lock is not known to the caller.  This happens also after a *)
(* failed flock_lock, whose -errno is passed to flock_unlock.              *)
Cleanup(t) ==
  /\ pc[t] = "cleanup"
  /\ \/ /\ lock' = Released(t)
        /\ IF werr[t] = "none"
             THEN /\ Goto(t, "pwrite")
                  /\ UNCHANGED result
             ELSE /\ Goto(t, "idle")
                  /\ result' = [result EXCEPT ![t] = werr[t]]
     \/ /\ Faults /\ held[t]
        /\ lock' \in {Released(t), lock}
        /\ Goto(t, "idle")
        /\ result' = [result EXCEPT ![t] = "count"]
  /\ held' = [held EXCEPT ![t] = FALSE]
  /\ UNCHANGED <<main, map, dat, req, bo, bn, buf, datsize, werr, nwrites>>

(* write()'s pwrite into the main file, not under the lock.               *)
MainWrite(t) ==
  /\ pc[t] = "pwrite" /\ req[t].op = "write"
  /\ \/ /\ main' = VF!PWrite(main, req[t].off, req[t].size, t)
        /\ result' = [result EXCEPT ![t] = "ok"]
     \/ /\ Faults
        /\ result' = [result EXCEPT ![t] = "EIO"]
        /\ UNCHANGED main
  /\ Goto(t, "idle")
  /\ UNCHANGED <<map, dat, lock, req, bo, bn, held, buf, datsize, werr, nwrites>>

(* ftruncate()'s truncation of the main file once b_truncate returned 0, *)
(* not under the lock.                                                     *)
MainTruncate(t) ==
  /\ pc[t] = "pwrite" /\ req[t].op = "trunc"
  /\ \/ /\ main' = VF!PTruncate(main, req[t].off)
        /\ result' = [result EXCEPT ![t] = "ok"]
     \/ /\ Faults
        /\ result' = [result EXCEPT ![t] = "EIO"]
        /\ UNCHANGED main
  /\ Goto(t, "idle")
  /\ UNCHANGED <<map, dat, lock, req, bo, bn, held, buf, datsize, werr, nwrites>>

(* Every thread has issued all its writes and returned.                    *)
Terminating ==
  /\ \A t \in Threads : pc[t] = "idle" /\ nwrites[t] = MaxWrites
  /\ UNCHANGED vars

Step(t) ==
  \/ ReadPointer(t) \/ Lock(t) \/ Reread(t) \/ ReadMain(t) \/ Seek(t)
  \/ AppendDat(t) \/ MapWrite(t) \/ Cleanup(t) \/ MainWrite(t) \/ MainTruncate(t)

Next ==
  \/ \E t \in Threads : StartWrite(t) \/ FTruncate(t) \/ Step(t)
  \/ Terminating

(* A thread inside write() only waits for the lock, which every holder    *)
(* releases on every path; the kernel keeps scheduling runnable threads.  *)
Spec == Init /\ [][Next]_vars /\ \A t \in Threads : WF_vars(Step(t))

-----------------------------------------------------------------------------
TypeOK ==
  /\ main \in Seq(Nat \cup Threads)
  /\ map \in [BlockIdx -> Nat]
  /\ dat \in Seq(Nat \cup Threads)
  /\ lock \in Threads \cup {NoThread}
  /\ pc \in [Threads -> PCs]
  /\ req \in [Threads -> [op : {"write", "trunc"}, off : Offsets \cup TruncSizes \cup {0},
                          size : Sizes \cup {0}]]
  /\ bo \in [Threads -> Nat] /\ bn \in [Threads -> Nat]
  /\ held \in [Threads -> BOOLEAN]
  /\ buf \in [Threads -> [1..BL -> Nat \cup Threads]]
  /\ datsize \in [Threads -> Nat]
  /\ werr \in [Threads -> Errors \cup {"none"}]
  /\ result \in [Threads -> Errors \cup {"none", "ok", "count"}]
  /\ nwrites \in [Threads -> 0..MaxWrites]

(* The store implements VersionedFile: every step either leaves the file  *)
(* seen through the snapshot unchanged and the main file unchanged, or is *)
(* a whole pwrite() of the main file that leaves the snapshot view intact *)
(* -- b_write saved every block the pwrite overwrites beforehand.         *)
Refinement == VF!ASpec

(* Every block is saved at most once (spec 3: a non-0 pointer never       *)
(* changes): once a map slot is non-0, no step rewrites it.  This is what *)
(* the re-read under the lock is for.                                      *)
PointerWriteOnce ==
  [][\A b \in BlockIdx : map[b] # 0 => map'[b] = map[b]]_vars

(* The dat file holds exactly one block per saved map slot, plus the one  *)
(* block of each thread that appended and has yet to write its pointer,   *)
(* and no two slots point at the same dat block: the lseek / append /     *)
(* pointer sequence is not interleaved between threads.                   *)
ExactlyOnce ==
  LET saved   == {b \in BlockIdx : map[b] # 0}
      pending == {t \in Threads : pc[t] = "mapwrite"}
  IN  /\ Len(dat) = BL * (Cardinality(saved) + Cardinality(pending))
      /\ \A b1, b2 \in saved : b1 # b2 => map[b1] # map[b2]

(* Every write() that starts returns: no thread is left waiting forever   *)
(* on the inode lock.                                                      *)
WriteReturns == \A t \in Threads : pc[t] # "idle" ~> pc[t] = "idle"

(* The snapshot-time blocks the range [off, off + size) of request r      *)
(* overlaps.                                                               *)
Overlapped(r) == {p \div BL : p \in {q \in r.off..r.off + r.size - 1 : q < SnSize}}

(* Spec 4.2 and 7: when no call fails, write() succeeds, and it returns   *)
(* only once every snapshot-time block its range overlaps has been saved  *)
(* (so the pwrite that follows destroys no block the snapshot still       *)
(* reads from the main file).                                              *)
PreservesOverlapped ==
  ~Faults =>
    \A t \in Threads :
      result[t] # "none" =>
        /\ result[t] = "ok"
        /\ \A b \in Overlapped(req[t]) : map[b] # 0

(* write() returns a positive byte count only from its own pwrite: in    *)
(* the step in which a thread's write() returns success, the main file    *)
(* receives its bytes (esfs_write passes up any non-0 b_write result).    *)
CountMeansWritten ==
  [][\A t \in Threads :
       (result'[t] \in {"ok", "count"} /\ pc[t] # "idle" /\ pc'[t] = "idle")
         => main' = VF!PWrite(main, req[t].off, req[t].size, t)]_vars

=============================================================================
