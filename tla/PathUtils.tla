----------------------------- MODULE PathUtils ------------------------------
(***************************************************************************)
(* The path utilities of ESFS (util.c and the sites that use them).  A    *)
(* virtual path is resolved into the main or the snapshot space           *)
(* (ESFS_IF_PATH_SN with the PathResolver operators).  Every real path is *)
(* composed into a char[PATH_MAX] on the stack by one of a few sites,     *)
(* each guarded by its own length check, and the pointer files are read   *)
(* back into one by esfs_get_sndir_from_file.  Each step is one call; the *)
(* state records what the last call computed.                             *)
(*                                                                         *)
(* Composed strings are abstracted to their lengths: a site is a function *)
(* of the lengths of its inputs, and what is recorded is how many bytes   *)
(* it wrote into the destination, terminator included.                    *)
(* get_sndir_from_file is modelled byte by byte over {0 ('\0'), 1 (any    *)
(* other byte)}, C indexing kept: buf[0..PathMax-1] is the buffer and     *)
(* buf[PathMax] the byte just past it.                                     *)
(***************************************************************************)
EXTENDS PathResolver

CONSTANTS
  PathMax,   \* ESFS_PATH_MAX
  ExtLen,    \* ESFS_EXT_LEN, the length of ".hid"
  NameMax,   \* bound: the longest d_name enumerated
  RootLens,  \* lengths of fsdata->rootdir (a realpath, so < PATH_MAX)
  MaxFds,    \* bound: descriptors leaked before get_sndir_from_file stops
  Sites      \* the call sites a configuration exercises

ASSUME RootLens \subseteq 1..PathMax - 1 /\ ExtLen < PathMax

Lens == 0..PathMax            \* strlen of a string FUSE or the code passes
Byte == {0, 1}                 \* '\0' and any other byte
Idx  == 0..PathMax             \* buf[0..PathMax-1] and the byte past it

(* Pointer files as they can be on disk: absent, or 0..PATH_MAX bytes      *)
(* (sn_set_latest and sn_create write exactly PATH_MAX bytes; a truncate  *)
(* or a short write leaves fewer).                                        *)
Absent == [present |-> FALSE, bytes |-> <<>>]
Files  == {Absent} \cup
          {[present |-> TRUE, bytes |-> b] : b \in UNION {[1..n -> Byte] : n \in 0..PathMax}}

VARIABLES
  res,   \* the last resolved virtual path: path, space, snpath
  call,  \* the last composing call: site, status, bytes needed and written
  sd,    \* the last get_sndir_from_file: file present, ret, overread, strlen(buf)
  fds    \* descriptors get_sndir_from_file left open

vars == <<res, call, sd, fds>>

NoRes   == [path |-> <<>>, space |-> "none", snpath |-> NoSnPath]
NoCall  == [site |-> "none", status |-> "none", need |-> 0, written |-> 0]
NoSndir == [present |-> FALSE, ret |-> 0, overread |-> FALSE, strlen |-> 0]

(* strlen of what a caller reads from buf: the index of the first '\0' in *)
(* buf[0..PathMax-1], or PathMax when the buffer holds none.              *)
StrLen(buf) ==
  LET nuls == {i \in 0..PathMax - 1 : buf[i] = 0}
  IN  IF nuls = {} THEN PathMax ELSE CHOOSE i \in nuls : \A j \in nuls : i <= j

Init ==
  /\ res = NoRes
  /\ call = NoCall
  /\ sd = NoSndir
  /\ fds = 0

(* ESFS_IF_PATH_SN, after its map_path (MapPath): a path in the snapshot  *)
(* space gets a malloc'd snpath (-ENOMEM if that fails) and is            *)
(* decomposed; any other path is served from the main space.              *)
Resolve ==
  /\ "resolve" \in Sites
  /\ \E p \in FusePaths :
       \/ /\ IsPathInSn(p)
          /\ res' = [path |-> p, space |-> "sn", snpath |-> DecomposeSnPath(p)]
       \/ /\ IsPathInSn(p)
          /\ res' = [path |-> p, space |-> "ENOMEM", snpath |-> NoSnPath]
       \/ /\ ~IsPathInSn(p)
          /\ res' = [path |-> p, space |-> "main", snpath |-> NoSnPath]
  /\ call' = NoCall
  /\ sd' = NoSndir
  /\ UNCHANGED fds

Composed(s, needed, ok, copied) ==
  /\ call' = [site |-> s, status |-> IF ok THEN "ok" ELSE "ENAMETOOLONG",
              need |-> needed, written |-> IF ok THEN copied ELSE 0]
  /\ res' = NoRes
  /\ sd' = NoSndir
  /\ UNCHANGED fds

MinOf(a, b) == IF a <= b THEN a ELSE b

(* ESFS_ADDNPREFIX_CONT as map_path uses it: plen = PATH_MAX - rootdir_len; *)
(* error if strlen(path) >= plen, else strcpy(rootdir) and                 *)
(* strncat(path, plen), which copies at most plen bytes and a '\0'.        *)
MapPath ==
  /\ "map_path" \in Sites
  /\ \E rootlen \in RootLens, len \in Lens :
       LET plen == PathMax - rootlen
       IN  Composed("map_path", rootlen + len + 1, ~(len >= plen),
                    rootlen + MinOf(len, plen) + 1)

(* Mutant: ESFS_ADDNSUFFIX_RET with <= for <.                              *)
GetHidPath_LessEq ==
  /\ "get_hid_path" \in Sites
  /\ \E len \in Lens :
       Composed("get_hid_path", len + ExtLen + 1, len <= PathMax - ExtLen,
                len + ExtLen + 1)

(* ESFS_ADDNSUFFIX_RET as get_hid_path uses it: if strlen(old) < PATH_MAX -  *)
(* EXT_LEN, strcpy and strncat(".hid", EXT_LEN); else ENAMETOOLONG.         *)
GetHidPath ==
  /\ "get_hid_path" \in Sites
  /\ \E len \in Lens :
       Composed("get_hid_path", len + ExtLen + 1, len < PathMax - ExtLen,
                len + ExtLen + 1)

(* Mutant: the separator counted twice in the sn_dir check.                 *)
SnHidPath_SepTwice ==
  /\ "sn_hid_path" \in Sites
  /\ \E len \in Lens :
       Composed("sn_hid_path", len + 1 + ExtLen + 1, ~(len >= PathMax - ExtLen - 2),
                len + 1 + ExtLen + 1)

(* sn_get_latest / sn_set_latest: error if strlen(sn_dir) >= PATH_MAX -     *)
(* EXT_LEN - 1, else sn_dir, "/" and ".hid".                               *)
SnHidPath ==
  /\ "sn_hid_path" \in Sites
  /\ \E len \in Lens :
       Composed("sn_hid_path", len + 1 + ExtLen + 1, ~(len >= PathMax - ExtLen - 1),
                len + 1 + ExtLen + 1)

(* _sn_readdir: error if strlen(step->path) + 1 + strlen(d_name) >         *)
(* PATH_MAX, else strcpy, strcat("/"), strcat(d_name).                     *)
ReaddirFpath ==
  /\ "readdir_fpath" \in Sites
  /\ \E plen \in 1..PathMax - 1, nlen \in 1..NameMax :
       Composed("readdir_fpath", plen + 1 + nlen + 1, ~(plen + 1 + nlen > PathMax),
                plen + 1 + nlen + 1)

(* get_sndir_from_file.  open: ENOENT gives 0, another errno -errno.  Then *)
(* pread(fd, buf, PATH_MAX, 0) may fail (-errno, fd not closed); else it  *)
(* fills buf[0..ret-1], the rest keeps what the caller's buffer held.      *)
(* ret == 0 or buf[ret] != '\0' gives -EIO (fd not closed); otherwise the  *)
(* fd is closed and ret - 1 returned.  buf[PATH_MAX] lies past the buffer: *)
(* its value is whatever the stack holds there.                            *)
GetSndirFromFile ==
  /\ "get_sndir_from_file" \in Sites
  /\ fds < MaxFds
  /\ \E file \in Files, old \in [Idx -> Byte] :
       LET Returned(buf, r, read, leaked) ==
             /\ sd' = [present |-> file.present, ret |-> r,
                       overread |-> read = PathMax, strlen |-> StrLen(buf)]
             /\ fds' = fds + leaked
             /\ call' = [site |-> "get_sndir_from_file", status |-> "none",
                         need |-> 0, written |-> read]
       IN
       \/ /\ ~file.present
          /\ Returned(old, 0, 0, 0)                 \* ENOENT
       \/ /\ file.present
          /\ \/ Returned(old, -1, 0, 0)             \* open fails otherwise
             \/ Returned(old, -2, 0, 1)             \* pread fails
             \/ LET n   == Len(file.bytes)
                    buf == [i \in Idx |-> IF i < n THEN file.bytes[i + 1] ELSE old[i]]
                    bad == n = 0 \/ buf[n] # 0
                IN  Returned(buf, IF bad THEN -5 ELSE n - 1, n,
                             IF bad THEN 1 ELSE 0)
  /\ res' = NoRes

Next == Resolve \/ MapPath \/ GetHidPath \/ SnHidPath \/ ReaddirFpath
        \/ GetSndirFromFile

Spec == Init /\ [][Next]_vars

-----------------------------------------------------------------------------
(* A path is classified and decomposed as the spec reads it: the snapshot *)
(* namespace exactly when its first component is the snapshots directory *)
(* ("/snapshotsX" is a main-space name); then the namespace root, an id   *)
(* alone, or an id and a sub-path, where the id is the second component   *)
(* (kept with its leading separator) and the sub-path the rest, nothing   *)
(* lost or repeated, a trailing separator ignored.                        *)
DecomposeMatchesSpec ==
  res.space \in {"main", "sn"} =>
    /\ res.space = RefSpace(res.path)
    /\ res.space = "sn" =>
         LET cs == Components(res.path)
             sp == res.snpath
         IN  /\ sp.is_there = IF RefKind(res.path) >= 2 THEN 2 ELSE RefKind(res.path)
             /\ sp.is_there >= 1 => sp.id = <<Sep>> \o cs[2]
             /\ sp.is_there = 2 =>
                  /\ sp.inpath[1] = Sep
                  /\ Components(sp.inpath) = SubSeq(cs, 3, Len(cs))

(* map_path, get_hid_path, the sn_dir pointer path and the pread of        *)
(* get_sndir_from_file never write past their char[PATH_MAX]: the          *)
(* composed path and its '\0' fit in PATH_MAX bytes.  (readdir's fpath,    *)
(* checked by its own test, is FpathFits.)                                 *)
WritesFit == call.site # "readdir_fpath" => call.written <= PathMax

(* _sn_readdir never writes past fpath: the absolute path of an entry and *)
(* its '\0' fit in PATH_MAX bytes when the length test lets it through.   *)
FpathFits == call.site = "readdir_fpath" => call.written <= PathMax

(* The length checks reject only what does not fit: a site returns        *)
(* ENAMETOOLONG only when the path it would compose, '\0' included, needs *)
(* more than PATH_MAX bytes.                                               *)
NoSpuriousNameTooLong == call.status = "ENAMETOOLONG" => call.need > PathMax

(* get_sndir_from_file keeps its contract ("length of path on success, 0  *)
(* if the file does not exist") and its resources: it reads no byte past  *)
(* buf, returns 0 only for a missing file, a positive result is the       *)
(* length of the '\0'-terminated string left in buf, and no descriptor it *)
(* opened stays open after it returns.                                     *)
SndirSound ==
  /\ ~sd.overread
  /\ sd.ret = 0 => ~sd.present
  /\ sd.ret > 0 => sd.ret = sd.strlen /\ sd.ret < PathMax
  /\ fds = 0

=============================================================================
