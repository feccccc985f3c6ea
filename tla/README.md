# TLA+ models of ESFS

ESFS is a FUSE filesystem that adds copy-on-write snapshots to a directory
tree. This directory holds TLA+ models of its C sources (`src/`), the TLC
configurations that check them, and `PROJECT.json`. `PROJECT.json` lists the
components, runs, mutants, the source lines each definition models, findings
and hazards.

## The system

| Part | Source | State | Operations |
|---|---|---|---|
| Block store | `block.c` (`b_write`), `fuse_fd_write.c` (`esfs_write`) | per versioned file: the main file; the map file (header plus one pointer per block: 0 = not saved, n = dat block n-1); the dat file (append-only log of saved blocks) | `write()`: save every touched block not yet saved, then `pwrite` the main file |
| Lock manager | `flock_lock`/`flock_unlock` (not in `src/`) | one lock per inode | taken once per `b_write` call, released in its cleanup |
| Snapshot chain | `snapshot.c` | `/snapshots` directory; `.hid` latest pointer file; snapshot root directories; `fsdata->sn_is_any`, `fsdata->sn_lat_dir` | `sn_check_dir`, `sn_get_latest` (at mount), `sn_set_latest`, `sn_create` |
| Overlay merge | `fuse_fd_read.c` (`_sn_readdir`) | the same directory in snapshot N, in every newer snapshot, and in the main space; the `pathmark` array of names already seen | list a snapshot's directory |
| Dispatch layer | `fuse_fd_read.c`, `fuse_fd_close.c`, `fuse_fd_write.c` | open-file descriptors (`mfd`) | `read`, `readdir`, `fgetattr`, `release`, `flush`, `fsync`, `ftruncate` |
| Path utilities | `util.c`, and the sites that compose paths in `snapshot.c` and `fuse_fd_read.c` | fixed `char[PATH_MAX]` buffers on the stack | `IF_PATH_SN` (`_IS_PATH_IN_SN`, `decompose_sn_path`), `map_path`, `get_hid_path`, the `.hid` path, readdir's `fpath`, `get_sndir_from_file`, `recursive_remove`, `check_params` |

How the parts interact:

- A `write()` on a versioned file calls `b_write`. `b_write` takes the inode lock the first time it finds a block to save.
- Writers of the same file run in parallel FUSE threads. They meet only at the lock, the map file and the dat file.
- A snapshot listing reads directory layers one after another. Meanwhile other threads save files into the newest snapshot and change the main directory.
- The snapshot chain decides which snapshot the block store saves into.

The hard behaviours are:

- the unlocked speculative pointer read against the locked re-read;
- the non-atomic pair lseek/append on the dat file;
- the unlocked main `pwrite` after the lock is released;
- every call of `b_write` failing, short dat writes included;
- a crash between the truncate and the write of `.hid`;
- the block arithmetic at block and file boundaries;
- the order in which listing layers hide one another;
- writers changing the layers while a listing reads them;
- the terminator byte at every `PATH_MAX` check.

## Modules

- **`VersionedFile`**: the abstract spec of one versioned file.
  - `live` is the main file. It changes only by whole `pwrite`s (`PWrite`, the semantics of `pwrite` including the hole past EOF) and whole `ftruncate`s (`PTruncate`, which cuts the file or extends it with a hole).
  - `snap` is the snapshot-time content, which never changes.
- **`BlockStore`**: `b_write` and `write()` for a set of `Threads`, one system call per action, so threads interleave where the C code can be preempted.
  - Actions:
    - `StartWrite`: clamp to the snapshot size, compute blockoffset/blocknumber;
    - `ReadPointer`: speculative read;
    - `Lock`;
    - `Reread`;
    - `ReadMain`: malloc + pread; 0 bytes is ENXIO;
    - `Seek`: lseek + alignment check;
    - `AppendDat`: full, failed or short write;
    - `MapWrite`;
    - `Cleanup`: unlock, return; under `Faults` the unlock may fail, and `write()` then returns the positive `-lock` (`"count"`);
    - `MainWrite`: the unlocked `pwrite`;
    - `FTruncate`: `ftruncate()` entry and `b_truncate`, which sends the blocks the new size cuts off (`TruncFirst`, `TruncCount`: from the block holding the new end, cut in part or whole, to the last snapshot-time block) through the same save loop;
    - `MainTruncate`: the unlocked `ftruncate` of the main file.
  - `b_truncate`'s body is not in `src/`; its block range is spec-modelled from spec 4.2 ("every block that would be cut off"). `mfd_validate` is taken to succeed, since the latest snapshot cannot change while mounted.
  - With `Faults`, every call the code checks may fail the way it checks for.
  - `SnapView` is what `b_read` returns through the snapshot. It is spec-modelled, because `b_read` is not in `src/`.
  - `VF == INSTANCE VersionedFile WITH live <- main, snap <- SnapView` is the refinement mapping, and `Refinement == VF!ASpec` is checked as a property.
- **`SnapshotChain`**: the mount sequence, `sn_set_latest` (open with truncate, then write) and `sn_create` (mkdir, then the rest, as compiled), plus a `Crash` that keeps the disk and loses memory. The history variables `made` and `cut` record the creates that returned 0 and those a crash interrupted.
  - `sn_check_xattr` is three actions, one per call: `XattrRemoveStale` (lremovexattr of a leftover, ENODATA meaning none), `XattrSet` and `XattrGet`. `xattr` is the test attribute on disk, which survives a `Crash`. `XattrSupport` says whether the filesystem has xattrs. The comparison and the final remove after `lgetxattr` are never reached, because the code tests `lgetxattr`'s byte count with `!= 0`.
- **`OverlayMerge`**: `esfs_readdir` and `_sn_readdir`, one action per loop iteration.
  - `kind` is the directory handle's kind (`main`, `sn_root`, `sn_id`, `sn_full`). `main` and `sn_root` read the directory `esfs_opendir` opened in one loop (`ReadDirEntry`); `sn_root` hides the `.hid` files. `sn_id` and `sn_full` call `_sn_readdir`, `sn_id` skipping the snapshots root (`SkipRoot`).
  - Actions:
    - `StartLayer`: `for (a)`, skipping snapshots without the directory;
    - `EndLayer`: readdir returns NULL;
    - `ReadEntry`: one entry, with the `.dat`/`.map`/plain classification, the header load, the seen check, lstat, `filler` (`Show`) and the pathmark growth (`Store`).
  - Every configuration of the layers over `Names` is an initial state.
  - `RefListing` is an independent recursive reference: the first layer from N down to 0 that mentions a name decides it.
  - With `Writers`, other threads act during the listing:
    - `PushDentry` saves a file's state into the newest snapshot, as a live or a tombstone `.map`;
    - `ChangeMain` then creates or unlinks the file in the main directory.
  - These two are spec-modelled: `push_dentry` is only a stub comment in `snapshot.c`.
  - `readdir` may or may not return an entry added or removed after the layer was opened, as POSIX allows.
  - `snap` is a history variable holding the layers when the listing started; `written` records whether a writer has acted, so a create followed by an unlink still counts as a disturbance.
  - The main directory's stream returns a name at most once (`read0`, `Returned0`): a writer that re-creates a name the stream has passed does not make it return the name again. This is what bounds the listing; without it a writer toggling one file would keep the stream going forever in the model, which a hash-ordered directory does not do.
  - `filler` is called with offset 0, so it fails only on an error (`Faults`).
- **`PathResolver`**: `_IS_PATH_IN_SN` and `decompose_sn_path` as operators over paths spelled in `{/, s, x}`, with "/ss" for "/snapshots". `Components` is a recursive reference split of a path.
- **`PathUtils`**: one action per call site. Each call replaces the record of the last call.
  - `Resolve`: `IF_PATH_SN`, with its `malloc` failure.
  - `MapPath`, `GetHidPath` and `SnHidPath`: `ADDNPREFIX`, `ADDNSUFFIX` and the `.hid` path of `sn_get_latest`/`sn_set_latest`.
  - `ReaddirFpath`: `fpath` in `_sn_readdir`.
  - `GetSndirFromFile`: byte by byte over `{0, 1}`. The file is absent or holds 0..PATH_MAX bytes. The caller's buffer and the byte past it hold any value.
  - Composed strings are kept as lengths only. What is recorded is how many bytes a site writes.
- The `MC_*` modules give the constants values.

## Runs

| Run | Result | Checks | What it shows |
|---|---|---|---|
| `bs_protocol` | pass | `TypeOK`, `ExactlyOnce`, `Refinement`, `PointerWriteOnce`, `WriteReturns` | 2 threads, 2 calls each (write or ftruncate), BL=2, 4-byte file, offsets {0,1,2,4}, sizes {1,2}, new sizes {1,3}. Every save happens once, the dat file has no stray block, the snapshot is intact through writes and truncations in any interleaving, and every call returns. |
| `bs_faults` | pass | `Refinement` | The same with every call failing, the unlock included. A failed save never lets the main write or truncation through. |
| `bs_block_count` | violation | `PreservesOverlapped` | BL=4, no failures, write of 2 bytes at offset 3. `write()` returns success with block 1 overwritten and not saved: the block count ignores the offset inside the first block (block.c:133). The same formula over-counts an aligned write to the end, which then fails with ENXIO. |
| `bs_unlock` | violation | `CountMeansWritten` | A failed `flock_unlock` makes `b_write` return a positive value. `write()` hands it to FUSE as a byte count, and nothing was written (block.c:231). |
| `sc_crash` | pass | `TypeOK`, `LatDirMatchesDisk`, `NoOrphanSnapshot` | Failures, crashes and remounts. `sn_lat_dir` never disagrees with `.hid` between calls. A snapshot directory outlives a failed `sn_create` only if a crash cut the create short, or its rollback `rmdir` failed: `snapshot.c:267` ignores that result, so the rollback is best effort, as the spec says. The history variables `cut` and `kept` record those two cases. |
| `sc_xattr` | violation | `XattrProbeSound` | On a filesystem with xattrs and no failing call, `sn_check_xattr` returns -2 and leaves its test attribute behind: `lgetxattr` returns 2, not 0 (snapshot.c:305). |
| `sc_commit` | violation | `CreateCommits` | `sn_create` returns 0 without linking the snapshot: the code after the `break` at snapshot.c:219 is dead. |
| `om_listing` | pass | `TypeOK`, `ListingSound`, `ListingComplete`, `ListingReturns` | All 2-snapshot directory histories over two names, listed through every kind of handle, with failures and writers. A listing no writer disturbs is exactly the directory at the snapshot, each name once, with the deciding layer's stat, at every prefix. Every listing returns, whatever the writers do. |
| `om_writers_race` | violation | `ListingStable` | The listing has read the newest snapshot. A writer then saves `f` there and unlinks it from main, and the listing of main misses `f` (fuse_fd_read.c:155). |
| `paths` | pass | `DecomposeMatchesSpec`, `WritesFit`, `NoSpuriousNameTooLong` | All 2,650 FUSE paths of up to 8 characters classify and split as the spec reads them. Every length around each `PATH_MAX` check either fits with its terminator or is rejected, and nothing that fits is rejected. |
| `pu_fpath` | violation | `FpathFits` | readdir's test `> PATH_MAX` lets a path of exactly PATH_MAX characters through, and its terminator lands one byte past `fpath` (fuse_fd_read.c:168). |
| `pu_sndir` | violation | `SndirSound` | When `pread` fails, `get_sndir_from_file` returns `-errno` and leaves the descriptor it opened open (util.c:288-291); the `-EIO` return at util.c:295 does the same. The trace shows that first path. The test of `buf[ret]` at util.c:293 also looks wrong, but no trace shows it, so it is listed as a hazard. The function is `static` and nothing in `src/` calls it, so the leak stays latent. |

Each property of a passing run has a mutant in `PROJECT.json`: an operator placed just before the definition it replaces, in the form a plausible bug would take. Examples:

- a lock that does not exclude;
- no re-read under the lock;
- the lock kept on an error path;
- a tombstone not stored;
- the main layer skipped;
- a pathmark that grows one entry late;
- `strchr` started at the id's own separator;
- `<=` for `<` in `ADDNSUFFIX`;
- the separator counted twice in the `.hid` path check.

TLC must find the property violated with the mutant in place.

### Bounds

- **Block store.**
  - BL=2 with a 4-byte file gives two snapshot blocks and a block past the end.
  - The offsets and sizes cover:
    - writes inside a block;
    - writes across the block boundary;
    - writes reaching the end;
    - writes starting at the end (which grow the main file; b_write saves nothing for them).
  - Two threads with two writes each reach both orders of every pair of saves, and a second write to an already saved block.
  - New sizes 1 and 3 cut block 0 and block 1 in part, and 1 cuts block 1 whole; a truncation to a size at or past the snapshot size saves nothing and is the same step with an empty block range.
  - With BL=2 the block count of `b_write` is exact for short writes, so the pass runs are not polluted by the under-count. The BL=4 run (`bs_block_count`) shows the under-count with offsets 3 and 4 and sizes 2 and 4.
- **Snapshot chain.** Three ids. One of them has a path that is too long, which exercises the rmdir path. The xattr probe runs with the filesystem supporting xattrs, so every call of it is reached; a crash between its calls leaves the attribute for the next probe.
- **Overlay merge.**
  - Two snapshot layers plus the main space; names `f` and `snapshots`.
  - `InitAlloc` is 1 instead of the code's 4, so the doubling branch is reached with two names. The branch does not depend on the starting size.
  - The writers change `f`, the one name other than the snapshots root. The race run uses one snapshot layer, which is enough for "newest layer read, then main".
  - `om_listing` reaches 881,679 distinct states in about 20 s, liveness included.
- **Paths.**
  - Paths of up to 8 characters over `/`, `s`, `x` cover these shapes: `/ss`, `/ss/`, `/ss//`, `/ssx`, `/ss/ID`, `/ss/ID/`, `/ss/ID/x`, `/ss/ID/x/y` and ids of one and two characters.
  - PATH_MAX 5 with `.hid` scaled to 2 enumerates every length from 0 to PATH_MAX at each check. Root lengths 1..3 put the `map_path` boundary at several places.
  - Pointer files of 0..5 bytes over {`\0`, other} and every content of the caller's buffer are enumerated.

### Fairness

- `BlockStore` assumes weak fairness of each thread's steps inside `write()` and `ftruncate()`. A thread in a system call or waiting for a free lock is eventually scheduled.
- `StartWrite` and `FTruncate` are not fair: a thread need not issue another call.
- `OverlayMerge` assumes weak fairness of the listing thread's steps (`Listing`), for the same reason; the writers are not fair, as nothing makes other threads write. With `Faults`, a failure is always possible, so a loop the failure paths can leave would still return; the mutant that loses the `sni--` shows `ListingReturns` is not vacuous.
- `SnapshotChain` and `PathUtils` check safety only.

## Not modelled, and why

- `ftruncate` does not check `mfd->is_main` as `write` does (fuse_fd_write.c:105); whether a snapshot file can be open for writing is decided by `esfs_open`, which is not in `src/`, so only main-file truncations are modelled.
- `b_truncate`, `b_read`, `mfd_validate`, `mfd_filter_name`, the lock manager and `main()` are not in `src/`. Only what the modelled code needs of them is stated, from the spec, and marked `spec_modelled`.
- Partial (short) `pwrite`s into the main file are not modelled.
- A short `pwrite` of a map pointer (block.c:217-218) is taken as a pointer write that did not happen: the map entry is unchanged and `b_write` fails. A torn 8-byte pointer would need the pointer's bytes in the model.
- `write()` calls `b_write` with five arguments (fuse_fd_write.c:72, the fifth `B_WRITE_DEFAULTS`), while block.c:97-102 defines it with four. The model follows the body in block.c.
- A failed `flock_lock` leaves `lock` at `-errno`, not -1, so the cleanup still calls `flock_unlock` with it (block.c:229). The lock manager is not in `src/`; the model lets that call succeed and change nothing, or fail, in which case `b_write` returns a positive number.
- The xattr probe's violation (`sc_xattr`) needs a filesystem that accepts the unprefixed name `esfs_test`; ext4 and xfs reject it (snapshot.c:290, the name `$test`), and on those the probe always reports no xattr support.
- `ADDNPSFIX_CONT` is not used anywhere in `src/`. `recursive_remove` is an `nftw` walk of the real filesystem. `check_params` compares compile-time constants.
- `sn_get_latest` does not set `sn_is_any` on success, although its comment says it does (snapshot.c:143). Whether that matters depends on `main()`, which is not in `src/`, so no run checks it.
- `mfd_validate`, `mfd_close_sn` and the other descriptor helpers of the dispatch layer are not in `src/`. Without them `read`, `fgetattr`, `release`, `flush`, `fsync`, `releasedir` and `fsyncdir` are forwarders to system calls or to those helpers; a model of them would restate assumptions, not code. Only `readdir`'s dispatch is modelled.
- `mfd_validate` compares an open file with the latest snapshot (fuse_fd_write.c:66). That check could go stale only if `sn_lat_dir` changed while mounted, and its only writer, `sn_set_latest`, is reached only from the dead code of `sn_create` (`sc_commit`). The race cannot happen in this code.
- `readdir` of a main or snapshots-root handle reads on from the open `DIR` stream; a second `readdir` from offset 0 on the same handle would list nothing (fuse_fd_read.c:342). Whether FUSE asks for that depends on the FUSE library, so it is listed as a hazard with no run.
- The spec makes no promise about crash consistency of the main file and the `.dat`/`.map` files, and the code calls no `fsync` between them; crashes are modelled only for the snapshot chain, whose state lives in directories and the `.hid` file.

## Plan for the next sittings

1. Show the rewind hazard (fuse_fd_read.c:342) as a violation run once a run slot is free: a `readdir` from offset 0 on the same handle lists nothing, because no directory stream is rewound.
2. Compose `BlockStore` with `OverlayMerge`: a write saving a block while a listing reads the file's `.map`.
