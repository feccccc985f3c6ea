---------------------------- MODULE MC_BlockStore ----------------------------
(***************************************************************************)
(* Model-checking instance of BlockStore.  Block size 2 (BL_SLOG = 1) and *)
(* a 4-byte file at snapshot time give two blocks in the snapshot; the    *)
(* offsets and sizes cover writes inside one block, across the block      *)
(* boundary, up to the end of the snapshot-time size, and past it (which  *)
(* grows the main file and lets the block loop reach a block past EOF).   *)
(***************************************************************************)
EXTENDS BlockStore, TLC

MCOffsets == {0, 1, 2, 4}
MCSizes == {1, 2}

(* Truncations cutting block 0 in part (1) and block 1 in part (3).        *)
MCTruncSizes == {1, 3}

(* Fewer requests for the run with failures: aligned and unaligned writes *)
(* inside the snapshot and one past it.                                    *)
MCFaultOffsets == {1, 2, 4}
MCFaultSizes == {2}
MCFaultTruncSizes == {1}

(* Threads are interchangeable: permuting them permutes the written bytes *)
(* and the per-thread state alike.  Used only by safety-only runs.         *)
MCSymmetry == Permutations(Threads)

=============================================================================
