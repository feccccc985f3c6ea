---------------------------- MODULE SnapshotChain ----------------------------
(***************************************************************************)
(* The snapshot metadata of snapshot.c: the snapshots directory, the      *)
(* latest-snapshot pointer file /snapshots/.hid, the snapshot root        *)
(* directories, and the copy of the pointer kept in memory (fsdata's      *)
(* sn_is_any and sn_lat_dir).  The filesystem is mounted (esfs_sn_check_dir *)
(* then esfs_sn_get_latest), serves esfs_sn_create and esfs_sn_set_latest  *)
(* calls one at a time (the spec requires callers to serialise them), and *)
(* may crash at any step: the disk survives, memory does not.             *)
(*                                                                         *)
(* A snapshot is identified by its id; the real code stores the real path *)
(* .../snapshots/ID, which stands for the id one to one.                   *)
(***************************************************************************)
EXTENDS Naturals, FiniteSets

CONSTANTS
  Ids,       \* snapshot ids the model creates
  LongIds,   \* ids whose "ID.hid" path would exceed PATH_MAX
  Faults,    \* whether lstat/mkdir/open/read/write may fail
  Crashes,   \* whether the process may crash and be mounted again
  None,      \* no snapshot (sn_lat_dir never set)
  Torn,      \* .hid truncated or short-written: not a whole path
  XattrSupport \* whether the underlying filesystem supports user xattrs

ASSUME LongIds \subseteq Ids /\ Faults \in BOOLEAN /\ Crashes \in BOOLEAN
ASSUME XattrSupport \in BOOLEAN

VARIABLES
  snDir,     \* what is at fsdata->sn_dir: "absent", "dir" or "other"
  snaps,     \* snapshot root directories on disk
  latest,    \* content of /snapshots/.hid: "absent", Torn or an id
  snIsAny,   \* fsdata->sn_is_any
  latDir,    \* fsdata->sn_lat_dir
  phase,     \* "down", "checkdir", "getlatest", "up" or "failed" (mount refused)
  op,        \* call in progress: [kind |-> "none" | "setlatest" | "create", id]
  ret,       \* what the last sn_create / sn_set_latest returned
  made,      \* history: ids for which sn_create returned 0
  cut,       \* history: ids whose sn_create a crash interrupted
  kept,      \* history: ids whose rollback rmdir failed
  xattr,     \* the test attribute "esfs_test" is set on fsdata->sn_dir
  xret       \* what the last sn_check_xattr returned: "none" while it runs,
             \* "ok" (0), "err" (negative) or "unexpected" (1)

vars == <<snDir, snaps, latest, snIsAny, latDir, phase, op, ret, made, cut, kept,
          xattr, xret>>

NoOp == [kind |-> "none", id |-> None]

Init ==
  /\ snDir \in {"absent", "dir", "other"}
  /\ snaps = {}
  /\ latest = "absent"
  /\ snIsAny = 0
  /\ latDir = None
  /\ phase = "down"
  /\ op = NoOp
  /\ ret = "none"
  /\ made = {}
  /\ cut = {}
  /\ kept = {}
  /\ xattr = FALSE
  /\ xret = "none"

(* The process starts: fsdata is fresh, with sn_is_any and sn_lat_dir not *)
(* yet set by any function of snapshot.c.                                  *)
Mount ==
  /\ phase = "down"
  /\ phase' = "checkdir"
  /\ snIsAny' \in {0, 1}
  /\ latDir' = None
  /\ UNCHANGED <<snDir, snaps, latest, op, ret, made, cut, kept, xattr, xret>>

(* esfs_sn_check_dir: accept a directory, refuse anything else, create it *)
(* (mode 0700) when lstat says ENOENT.                                     *)
SnCheckDir ==
  /\ phase = "checkdir"
  /\ \/ /\ snDir = "dir"
        /\ phase' = "getlatest"
        /\ UNCHANGED snDir
     \/ /\ snDir = "other"
        /\ phase' = "failed"
        /\ UNCHANGED snDir
     \/ /\ snDir = "absent"
        /\ snDir' = "dir"
        /\ phase' = "getlatest"
     \/ /\ Faults
        /\ phase' = "failed"
        /\ UNCHANGED snDir
  /\ UNCHANGED <<snaps, latest, snIsAny, latDir, op, ret, made, cut, kept, xattr, xret>>

(* Mutant: the check that pread returned a whole path is dropped.         *)
SnGetLatest_NoLengthCheck ==
  /\ phase = "getlatest"
  /\ \/ /\ latest = "absent"
        /\ snIsAny' = 0
        /\ UNCHANGED latDir
     \/ /\ latest # "absent"
        /\ latDir' = latest
        /\ UNCHANGED snIsAny
  /\ phase' = "up"
  /\ UNCHANGED <<snDir, snaps, latest, op, ret, made, cut, kept, xattr, xret>>

(* esfs_sn_get_latest: no .hid means no snapshot (sn_is_any = 0); a whole *)
(* path is copied into sn_lat_dir; a short read is EIO.                    *)
SnGetLatest ==
  /\ phase = "getlatest"
  /\ \/ /\ latest = "absent"
        /\ snIsAny' = 0
        /\ phase' = "up"
        /\ UNCHANGED latDir
     \/ /\ latest \in Ids
        /\ latDir' = latest
        /\ phase' = "up"
        /\ UNCHANGED snIsAny
     \/ /\ latest = Torn \/ Faults
        /\ phase' = "failed"
        /\ UNCHANGED <<snIsAny, latDir>>
  /\ UNCHANGED <<snDir, snaps, latest, op, ret, made, cut, kept, xattr, xret>>

Idle == phase = "up" /\ op = NoOp

(* esfs_sn_set_latest, first step: open(.hid, O_WRONLY|O_CREAT|O_TRUNC).  *)
SetLatestOpen(id) ==
  /\ Idle
  /\ \/ /\ latest' = Torn
        /\ op' = [kind |-> "setlatest", id |-> id]
        /\ UNCHANGED ret
     \/ /\ Faults
        /\ ret' = "err"
        /\ UNCHANGED <<latest, op>>
  /\ UNCHANGED <<snDir, snaps, snIsAny, latDir, phase, made, cut, kept, xattr, xret>>

(* Mutant: the strcpy into fsdata->sn_lat_dir is missing.                 *)
SetLatestWrite_NoCopy ==
  /\ phase = "up" /\ op.kind = "setlatest"
  /\ latest' = op.id
  /\ snIsAny' = 1
  /\ ret' = "ok"
  /\ op' = NoOp
  /\ UNCHANGED <<snDir, snaps, latDir, phase, made, cut, kept, xattr, xret>>

(* Second step: pwrite the whole path, then record it in fsdata.  A       *)
(* failed or short write returns an error and leaves the file truncated.  *)
SetLatestWrite ==
  /\ phase = "up" /\ op.kind = "setlatest"
  /\ \/ /\ latest' = op.id
        /\ latDir' = op.id
        /\ snIsAny' = 1
        /\ ret' = "ok"
     \/ /\ Faults
        /\ ret' = "err"
        /\ UNCHANGED <<latest, latDir, snIsAny>>
  /\ op' = NoOp
  /\ UNCHANGED <<snDir, snaps, phase, made, cut, kept, xattr, xret>>

(* esfs_sn_create, first step: mkdir the snapshot root (fails if it       *)
(* exists).                                                                *)
CreateMkdir(id) ==
  /\ Idle
  /\ \/ /\ id \notin snaps
        /\ snaps' = snaps \cup {id}
        /\ op' = [kind |-> "create", id |-> id]
        /\ UNCHANGED ret
     \/ /\ id \in snaps \/ Faults
        /\ ret' = "err"
        /\ UNCHANGED <<snaps, op>>
  /\ UNCHANGED <<snDir, latest, snIsAny, latDir, phase, made, cut, kept, xattr, xret>>

(* Mutant: the cleanup rmdir of the snapshot root is missing.             *)
CreateFinish_NoRmdir ==
  /\ phase = "up" /\ op.kind = "create"
  /\ ret' = IF op.id \in LongIds THEN "err" ELSE "ok"
  /\ made' = IF op.id \in LongIds THEN made ELSE made \cup {op.id}
  /\ op' = NoOp
  /\ UNCHANGED <<snDir, snaps, latest, snIsAny, latDir, phase, cut, kept, xattr, xret>>

(* The rest of esfs_sn_create as compiled: only the "ID.hid" path length  *)
(* check runs.  The open of ID.hid, the write of the back-pointer and the *)
(* call of esfs_sn_set_latest follow a break inside the error branch and  *)
(* are never reached: a too long path removes the directory and returns  *)
(* -1, any other id returns 0.  The cleanup rmdir is best effort: its     *)
(* result is ignored, and with Faults it may fail and leave the directory. *)
CreateFinish ==
  /\ phase = "up" /\ op.kind = "create"
  /\ \/ /\ op.id \in LongIds
        /\ snaps' = snaps \ {op.id}
        /\ ret' = "err"
        /\ UNCHANGED <<made, kept>>
     \/ /\ op.id \in LongIds /\ Faults      \* rmdir fails; its result is ignored
        /\ ret' = "err"
        /\ kept' = kept \cup {op.id}
        /\ UNCHANGED <<snaps, made>>
     \/ /\ op.id \notin LongIds
        /\ ret' = "ok"
        /\ made' = made \cup {op.id}
        /\ UNCHANGED <<snaps, kept>>
  /\ op' = NoOp
  /\ UNCHANGED <<snDir, latest, snIsAny, latDir, phase, cut, xattr, xret>>

(* esfs_sn_check_xattr, first step: lremovexattr(sn_dir, "esfs_test").  *)
(* It removes a test attribute an earlier probe left behind; ENODATA      *)
(* (no such attribute) is not an error.  Without xattr support, or when   *)
(* the call fails otherwise, the probe returns -errno.                     *)
XattrRemoveStale ==
  /\ Idle
  /\ \/ /\ XattrSupport
        /\ xattr' = FALSE
        /\ op' = [kind |-> "xattr_set", id |-> None]
        /\ xret' = "none"
     \/ /\ ~XattrSupport \/ Faults
        /\ xret' = "err"
        /\ UNCHANGED <<xattr, op>>
  /\ UNCHANGED <<snDir, snaps, latest, snIsAny, latDir, phase, ret, made, cut, kept>>

(* lsetxattr(sn_dir, "esfs_test", "A", 2, 0); -errno if it fails.          *)
XattrSet ==
  /\ phase = "up" /\ op.kind = "xattr_set"
  /\ \/ /\ xattr' = TRUE
        /\ op' = [kind |-> "xattr_get", id |-> None]
        /\ UNCHANGED xret
     \/ /\ Faults
        /\ xret' = "err"
        /\ op' = NoOp
        /\ UNCHANGED xattr
  /\ UNCHANGED <<snDir, snaps, latest, snIsAny, latDir, phase, ret, made, cut, kept>>

(* ret = lgetxattr(sn_dir, "esfs_test", value, 2); if (ret != 0) return    *)
(* -ret.  lgetxattr returns the size of the value, 2, on success, so the   *)
(* probe returns -2; on failure it returns -1, and the probe returns 1.    *)
(* The strcmp and the final lremovexattr are never reached: the test      *)
(* attribute stays on sn_dir.                                              *)
XattrGet ==
  /\ phase = "up" /\ op.kind = "xattr_get"
  /\ \/ xret' = "err"
     \/ /\ Faults
        /\ xret' = "unexpected"
  /\ op' = NoOp
  /\ UNCHANGED <<snDir, snaps, latest, snIsAny, latDir, phase, ret, made, cut, kept, xattr>>

(* The process dies, or exits after a refused mount, and is started again; *)
(* what is on disk stays.                                                  *)
Crash ==
  /\ Crashes
  /\ phase \in {"checkdir", "getlatest", "up", "failed"}
  /\ phase' = "down"
  /\ op' = NoOp
  /\ cut' = IF op.kind = "create" THEN cut \cup {op.id} ELSE cut
  /\ UNCHANGED <<snDir, snaps, latest, snIsAny, latDir, ret, made, kept, xattr, xret>>

(* A refused mount ends the process.                                       *)
MountRefused ==
  /\ phase = "failed"
  /\ UNCHANGED vars

Next ==
  \/ Mount \/ SnCheckDir \/ SnGetLatest
  \/ \E id \in snaps : SetLatestOpen(id)
  \/ SetLatestWrite
  \/ \E id \in Ids : CreateMkdir(id)
  \/ CreateFinish
  \/ XattrRemoveStale \/ XattrSet \/ XattrGet
  \/ Crash
  \/ MountRefused

Spec == Init /\ [][Next]_vars

-----------------------------------------------------------------------------
TypeOK ==
  /\ snDir \in {"absent", "dir", "other"}
  /\ snaps \subseteq Ids
  /\ latest \in {"absent", Torn} \cup Ids
  /\ snIsAny \in {0, 1}
  /\ latDir \in Ids \cup {None}
  /\ phase \in {"down", "checkdir", "getlatest", "up", "failed"}
  /\ op \in [kind : {"none", "setlatest", "create", "xattr_set", "xattr_get"},
            id : Ids \cup {None}]
  /\ ret \in {"none", "ok", "err"}
  /\ made \subseteq Ids
  /\ cut \subseteq Ids
  /\ kept \subseteq Ids
  /\ xattr \in BOOLEAN
  /\ xret \in {"none", "ok", "err", "unexpected"}

(* Between calls of a mounted filesystem, sn_lat_dir names the snapshot   *)
(* that /snapshots/.hid names, across failed calls and remounts: the      *)
(* in-memory copy is never stale with respect to the disk.                *)
LatDirMatchesDisk == (Idle /\ latest \in Ids) => latDir = latest

(* Spec 4.3 and 7: a snapshot exists only once sn_create has succeeded,  *)
(* and a failed sn_create rolls back what it made: every snapshot         *)
(* directory on disk belongs to a successful sn_create, to the one in     *)
(* progress, to one a crash cut short between its mkdir and its cleanup   *)
(* (the spec makes no crash-consistency promise), or to one whose         *)
(* best-effort rollback rmdir failed.                                      *)
NoOrphanSnapshot == snaps \subseteq made \cup cut \cup kept \cup {op.id}

(* Spec 4.3 and 8: when sn_create(id) returns 0 the snapshot is          *)
(* committed: the latest pointer /snapshots/.hid names id.                 *)
CreateCommits ==
  [][(op.kind = "create" /\ op' = NoOp /\ ret' = "ok") => latest' = op.id]_vars

(* sn_check_xattr keeps its contract ("0 on success, -errno on any        *)
(* failure"): once it has returned, it has returned 0 only on a           *)
(* filesystem with xattr support and with the test attribute removed      *)
(* again, and on such a filesystem it returns 0 unless a call failed.     *)
XattrProbeSound ==
  (xret # "none" /\ op.kind \notin {"xattr_set", "xattr_get"}) =>
    /\ xret = "ok" => XattrSupport /\ ~xattr
    /\ (XattrSupport /\ ~Faults) => xret = "ok"

=============================================================================
