---------------------------- MODULE PathResolver ----------------------------
(***************************************************************************)
(* The classification and decomposition of virtual paths (util.c):        *)
(* ESFS_IS_PATH_IN_SN decides whether a path FUSE passes lies in the      *)
(* snapshot namespace, and esfs_decompose_sn_path splits such a path into *)
(* the snapshot id and the path inside the snapshot.  This module holds   *)
(* the algorithm as operators; PathUtils applies them to every path.      *)
(*                                                                         *)
(* A path is a sequence of characters over a small alphabet: the          *)
(* separator, the letters that spell the snapshot directory name, and one *)
(* other letter.  SnDir is the name "/snapshots" spelled in it.           *)
(***************************************************************************)
EXTENDS Integers, Sequences, FiniteSets

CONSTANTS
  Sep,      \* ESFS_DIRSEPCH, '/'
  Letters,  \* the other characters
  SnDir,    \* ESFS_SNDIR as a sequence of characters, starting with Sep
  MaxLen    \* bound: the longest path enumerated

Chars == {Sep} \cup Letters
SnDirLen == Len(SnDir)   \* ESFS_SNDIR_LEN

ASSUME SnDir[1] = Sep /\ \A i \in 2..SnDirLen : SnDir[i] \in Letters

(* Every character sequence of length 1..MaxLen.                          *)
Strings == UNION {[1..n -> Chars] : n \in 1..MaxLen}

(* What FUSE passes: "/" or "/" followed by non-empty components joined   *)
(* by single separators.  The code also handles one trailing separator    *)
(* ("/snapshots/ID/"), so paths with one are included.                     *)
NoEmptyComponent(p) == \A i \in 1..Len(p) - 1 : ~(p[i] = Sep /\ p[i + 1] = Sep)
FusePaths ==
  {p \in Strings : p[1] = Sep /\ NoEmptyComponent(p)}

(* ESFS_IS_PATH_IN_SN: strncmp with ESFS_SNDIR, then '/' or '\0'.          *)
IsPathInSn(p) ==
  /\ Len(p) >= SnDirLen
  /\ SubSeq(p, 1, SnDirLen) = SnDir
  /\ IF Len(p) = SnDirLen THEN TRUE ELSE p[SnDirLen + 1] = Sep

(* strchr(from, '/'): the index of the first separator at or after index  *)
(* from, or 0 for NULL.                                                    *)
StrChr(p, from) ==
  LET hits == {i \in from..Len(p) : p[i] = Sep}
  IN  IF hits = {} THEN 0 ELSE CHOOSE i \in hits : \A j \in hits : i <= j

NoSnPath == [is_there |-> 0, id |-> <<>>, inpath |-> <<>>, ret |-> 0]

(* Mutant: strchr searches from idstart, which is itself the separator.   *)
DecomposeSnPath_SearchFromIdStart(p) ==
  LET len       == Len(p)
      idstart   == SnDirLen + 1
      nextslash == StrChr(p, idstart)
  IN  CASE len <= SnDirLen + 1 -> NoSnPath
        [] nextslash = 0 ->
             [is_there |-> 1, id |-> SubSeq(p, idstart, len), inpath |-> <<>>, ret |-> 1]
        [] nextslash = idstart + 1 -> NoSnPath
        [] nextslash = len ->
             [is_there |-> 1, id |-> SubSeq(p, idstart, len - 1), inpath |-> <<>>, ret |-> 1]
        [] OTHER ->
             [is_there |-> 2, id |-> SubSeq(p, idstart, nextslash - 1),
              inpath |-> SubSeq(p, nextslash, len), ret |-> 0]

(* esfs_decompose_sn_path.  idstart is the index of the separator after   *)
(* "/snapshots"; the id is copied from idstart, so it keeps that          *)
(* separator ("/ID").                                                      *)
DecomposeSnPath(p) ==
  LET len       == Len(p)
      idstart   == SnDirLen + 1
      nextslash == StrChr(p, idstart + 1)
  IN  CASE len <= SnDirLen + 1 -> NoSnPath
        [] nextslash = 0 ->
             [is_there |-> 1, id |-> SubSeq(p, idstart, len), inpath |-> <<>>, ret |-> 1]
        [] nextslash = idstart + 1 -> NoSnPath
        [] nextslash = len ->
             [is_there |-> 1, id |-> SubSeq(p, idstart, SnDirLen + (len - SnDirLen - 1)),
              inpath |-> <<>>, ret |-> 1]
        [] OTHER ->
             [is_there |-> 2, id |-> SubSeq(p, idstart, nextslash - 1),
              inpath |-> SubSeq(p, nextslash, len), ret |-> 0]

-----------------------------------------------------------------------------
(* Reference (spec, VirtualPath): the components of a path, and its       *)
(* reading: main space, the namespace root, a snapshot id, or an id and a *)
(* path inside that snapshot.                                              *)
RECURSIVE Components(_)
Components(s) ==
  IF s = <<>> THEN <<>>
  ELSE LET j == StrChr(s, 1)
       IN  CASE j = 0 -> <<s>>
             [] j = 1 -> Components(Tail(s))
             [] OTHER -> <<SubSeq(s, 1, j - 1)>> \o Components(SubSeq(s, j, Len(s)))

SnName == SubSeq(SnDir, 2, SnDirLen)

RefSpace(p) ==
  LET cs == Components(p)
  IN  IF Len(cs) >= 1 /\ cs[1] = SnName THEN "sn" ELSE "main"

RefKind(p) == Len(Components(p)) - 1   \* 0 root, 1 id, 2.. id and sub-path

=============================================================================
