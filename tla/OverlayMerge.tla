---------------------------- MODULE OverlayMerge ----------------------------
(***************************************************************************)
(* The directory listing of a snapshot (fuse_fd_read.c, esfs__sn_readdir). *)
(* The same directory is open in snapshot SnCurrent, in every newer       *)
(* snapshot down to 1, and in the main space (layer 0).  The loop reads   *)
(* the layers from SnCurrent down to 0; in a snapshot layer a .dat entry  *)
(* is hidden, a .map entry stands for a file whose header says whether it *)
(* existed (exists = 1) or not at that snapshot, and any other entry (a   *)
(* subdirectory) is shown as it is.  The first layer that mentions a name *)
(* decides it; the names seen so far are kept in the pathmark array.      *)
(*                                                                         *)
(* Every directory configuration over Names is an initial state.  The     *)
(* order in which readdir returns the entries of a layer is arbitrary.     *)
(* With Writers, other FUSE threads change files of the main directory    *)
(* while the listing runs: each first saves the file's state into the     *)
(* newest snapshot (layer 1), then changes the main directory.  An entry  *)
(* added or removed after a layer was opened may or may not be returned   *)
(* by readdir (POSIX leaves it unspecified).                               *)
(*                                                                         *)
(* esfs_readdir dispatches on the kind of the open directory handle: a    *)
(* main-space directory and the snapshots root are read with one readdir  *)
(* loop over the directory opendir opened (the root hiding the .hid       *)
(* pointer files); a snapshot id directory and a directory inside a       *)
(* snapshot go through _sn_readdir, the former hiding "snapshots".        *)
(***************************************************************************)
EXTENDS Integers, Sequences, FiniteSets

CONSTANTS
  Names,       \* file names in the directory
  SnRootName,  \* "snapshots": the name hidden in a snapshot root listing
  SnCurrent,   \* mfd->sn_current: the snapshot listed (layers SnCurrent..0)
  InitAlloc,   \* initial size of the pathmark array (4 in the code)
  Faults,      \* whether open/read/close/lstat/realloc may fail
  Writers      \* whether other threads change the main directory meanwhile

ASSUME SnRootName \in Names /\ SnCurrent \in Nat \ {0}
ASSUME InitAlloc \in Nat \ {0} /\ Faults \in BOOLEAN
ASSUME Writers \in BOOLEAN

Layers == 0..SnCurrent

(* What a snapshot layer holds for one name: nothing, a plain entry, or a *)
(* .map (with its .dat) whose header says the file existed or not.        *)
SnEntry == {"none", "plain", "live", "tomb"}

(* mfd->is_main of a directory handle, and the kinds _sn_readdir serves.  *)
Kinds == {"main", "sn_root", "sn_id", "sn_full"}
SnKinds == {"sn_id", "sn_full"}

(* A snapshot layer: whether the directory exists in that snapshot        *)
(* (mapfd != ESFS_SN_STEPS_UNUSED) and what it holds.                      *)
SnLayers == [used : BOOLEAN, ent : [Names -> SnEntry]]

(* The directory entries readdir returns for a layer.                     *)
Entries(lay, i) ==
  IF i = 0
  THEN {[name |-> n, kind |-> "plain"] : n \in lay[0]}
  ELSE {[name |-> n, kind |-> "plain"] : n \in {m \in Names : lay[i].ent[m] = "plain"}}
       \cup {[name |-> n, kind |-> "map"] : n \in {m \in Names : lay[i].ent[m] \in {"live", "tomb"}}}
       \cup {[name |-> n, kind |-> "dat"] : n \in {m \in Names : lay[i].ent[m] \in {"live", "tomb"}}}

(* The entries of the directory a main or snapshots-root handle holds     *)
(* open.  For the snapshots root, the names of lay[0] are the snapshot    *)
(* directories, each with its ID.hid pointer file beside it.              *)
DirEntries(lay, k) ==
  {[name |-> n, kind |-> "plain"] : n \in lay[0]}
  \cup IF k = "sn_root" THEN {[name |-> n, kind |-> "hid"] : n \in lay[0]} ELSE {}

VARIABLES
  layers,     \* layer 0: the names in the main directory; i > 0: SnLayers
  kind,       \* mfd->is_main of the handle being listed
  sni,        \* the layer being read
  pc,         \* "layer" (next iteration of for (a)), "read" (while (b)), "done"
  pending,    \* entries of layer sni readdir has yet to return
  marks,      \* names stored in pathmark
  used,       \* entries used in pathmark
  allocated,  \* entries allocated for pathmark
  emitted,    \* what was given to filler(): sequence of [name, layer of the stat]
  werr,       \* waserror: "none" or the error returned
  snap,       \* the layers when the listing started (history variable)
  written,    \* a writer has acted since the listing started (history)
  read0       \* names the main directory's stream has returned

vars == <<layers, kind, sni, pc, pending, marks, used, allocated, emitted, werr, snap, written, read0>>

(* flags & ESFS_READDIR_F_SKIP_SNROOT: esfs_readdir passes it for a        *)
(* snapshot id directory.                                                  *)
SkipRoot == kind = "sn_id"

(* esfs_readdir's switch, then for a snapshot handle _sn_readdir's        *)
(* prologue: allocate pathmark and, for a snapshot root, mark "snapshots" *)
(* as seen.  A main or snapshots-root handle reads its open directory     *)
(* (layer 0) at once.                                                      *)
Init ==
  /\ \E mainDir \in SUBSET Names, sn \in [1..SnCurrent -> SnLayers] :
       layers = [i \in Layers |-> IF i = 0 THEN mainDir ELSE sn[i]]
  /\ kind \in Kinds
  /\ sni = IF kind \in SnKinds THEN SnCurrent ELSE 0
  /\ pc = IF kind \in SnKinds THEN "layer" ELSE "read"
  /\ pending = IF kind \in SnKinds THEN {} ELSE DirEntries(layers, kind)
  /\ marks = IF SkipRoot THEN {SnRootName} ELSE {}
  /\ used = IF SkipRoot THEN 1 ELSE 0
  /\ allocated = InitAlloc
  /\ emitted = <<>>
  /\ werr = "none"
  /\ snap = layers
  /\ written = FALSE
  /\ read0 = {}

(* The directory stream of the main space (layer 0) has returned entry e. *)
Read0(e) == read0' = IF sni = 0 THEN read0 \cup {e.name} ELSE read0

Finish(e) ==
  /\ werr' = e
  /\ pc' = "done"

(* mfd->sn_steps[i].mapfd != ESFS_SN_STEPS_UNUSED: the directory exists  *)
(* in layer i; the main space always has it.                               *)
HasDir(i) == IF i = 0 THEN TRUE ELSE layers[i].used

(* for (a): skip a snapshot without this directory, else start reading it. *)
StartLayer ==
  /\ pc = "layer"
  /\ \/ /\ ~HasDir(sni)
        /\ sni' = sni - 1
        /\ UNCHANGED <<pending, pc>>
     \/ /\ HasDir(sni)
        /\ pending' = Entries(layers, sni)
        /\ pc' = "read"
        /\ UNCHANGED sni
  /\ UNCHANGED <<layers, kind, marks, used, allocated, emitted, werr, snap, written, read0>>

(* Mutant: the for (a) loop without sni--: the same layer is read again. *)
EndLayer_NoDecrement ==
  /\ pc = "read"
  /\ \/ /\ pending = {}
        /\ pc' = "layer"
        /\ UNCHANGED <<sni, werr>>
     \/ /\ Faults
        /\ Finish("EIO")
        /\ UNCHANGED sni
  /\ UNCHANGED <<layers, kind, pending, marks, used, allocated, emitted, snap, written, read0>>

(* Mutant: the for (a) condition sni > 0: the main space is never read.  *)
EndLayer_SkipMain ==
  /\ pc = "read"
  /\ \/ /\ pending = {}
        /\ sni' = sni - 1
        /\ pc' = IF sni <= 1 THEN "done" ELSE "layer"
        /\ UNCHANGED werr
     \/ /\ Faults
        /\ Finish("EIO")
        /\ UNCHANGED sni
  /\ UNCHANGED <<layers, kind, pending, marks, used, allocated, emitted, snap, written, read0>>

(* readdir returns NULL: end of this directory (errno 0) or an error.      *)
EndLayer ==
  /\ pc = "read"
  /\ \/ /\ pending = {}
        /\ sni' = sni - 1
        /\ pc' = IF sni = 0 THEN "done" ELSE "layer"
        /\ UNCHANGED werr
     \/ /\ Faults
        /\ Finish("EIO")
        /\ UNCHANGED sni
  /\ UNCHANGED <<layers, kind, pending, marks, used, allocated, emitted, snap, written, read0>>

(* Mutant: the array grows only when used > allocated (one slot late).   *)
Store_GrowLate(n) ==
  \/ /\ used <= allocated
     /\ marks' = marks \cup {n}
     /\ used' = used + 1
     /\ UNCHANGED <<allocated, werr, pc>>
  \/ /\ used > allocated
     /\ marks' = marks \cup {n}
     /\ used' = used + 1
     /\ allocated' = allocated * 2
     /\ UNCHANGED <<werr, pc>>

(* Store the name as seen, doubling the pathmark array when it is full.    *)
Store(n) ==
  \/ /\ used < allocated
     /\ marks' = marks \cup {n}
     /\ used' = used + 1
     /\ UNCHANGED <<allocated, werr, pc>>
  \/ /\ used >= allocated
     /\ marks' = marks \cup {n}
     /\ used' = used + 1
     /\ allocated' = allocated * 2
     /\ UNCHANGED <<werr, pc>>
  \/ /\ used >= allocated /\ Faults
     /\ Finish("ENOMEM")
     /\ UNCHANGED <<marks, used, allocated>>

(* Stat and hand the name to filler(), then store it.  Offset 0 is passed *)
(* to filler(), so it returns non-0 only on an error (the comment above   *)
(* esfs_readdir); the listing then ends with -ENOMEM.                      *)
Show(n) ==
  \/ /\ emitted' = Append(emitted, [name |-> n, layer |-> sni])
     /\ Store(n)
  \/ /\ Faults
     /\ Finish("ENOMEM")
     /\ UNCHANGED <<emitted, marks, used, allocated>>

(* Mutant: a nonexistent (tombstone) .map is skipped without storing its *)
(* name, so an older layer can show the file again.                       *)
ReadEntry_TombNotStored ==
  /\ pc = "read" /\ kind \in SnKinds
  /\ \E e \in pending :
       /\ pending' = pending \ {e}
       /\ Read0(e)
       /\ \/ /\ e.kind = "dat"
             /\ UNCHANGED <<marks, used, allocated, emitted, werr, pc>>
          \/ /\ e.kind # "dat" /\ e.name \in marks
             /\ UNCHANGED <<marks, used, allocated, emitted, werr, pc>>
          \/ /\ e.kind = "map" /\ e.name \notin marks
             /\ layers[sni].ent[e.name] = "tomb"
             /\ UNCHANGED <<marks, used, allocated, emitted, werr, pc>>
          \/ /\ e.kind = "map" /\ e.name \notin marks
             /\ layers[sni].ent[e.name] = "live"
             /\ Show(e.name)
          \/ /\ e.kind = "plain" /\ e.name \notin marks
             /\ Show(e.name)
  /\ UNCHANGED <<layers, kind, sni, snap, written>>

(* One iteration of while (b): readdir returns entry e of layer sni.      *)
ReadEntry ==
  /\ pc = "read" /\ kind \in SnKinds
  /\ \E e \in pending :
       /\ pending' = pending \ {e}
       /\ Read0(e)
       /\ \/ /\ e.kind = "dat"                              \* j == 0: hidden
             /\ UNCHANGED <<marks, used, allocated, emitted, werr, pc>>
          \/ /\ e.kind # "dat" /\ e.name \in marks          \* seen: newer layer decided
             /\ UNCHANGED <<marks, used, allocated, emitted, werr, pc>>
          \/ /\ e.kind = "map" /\ e.name \notin marks       \* tombstone: store only
             /\ layers[sni].ent[e.name] = "tomb"
             /\ Store(e.name)
             /\ UNCHANGED emitted
          \/ /\ e.kind = "map" /\ e.name \notin marks       \* stat from the map header
             /\ layers[sni].ent[e.name] = "live"
             /\ Show(e.name)
          \/ /\ e.kind = "plain" /\ e.name \notin marks     \* lstat the entry
             /\ Show(e.name)
          \/ /\ Faults                   \* path too long, open/load/close/lstat fails
             /\ Finish("EIO")
             /\ UNCHANGED <<marks, used, allocated, emitted>>
  /\ UNCHANGED <<layers, kind, sni, snap, written>>

(* One iteration of esfs_readdir's loop for a main or snapshots-root      *)
(* handle: readdir returns entry e; the snapshots root skips the names    *)
(* sn_filter_name rejects (the .hid pointer files); any other name goes   *)
(* to filler(), whose failure ends the listing with -ENOMEM.              *)
ReadDirEntry ==
  /\ pc = "read" /\ kind \notin SnKinds
  /\ \E e \in pending :
       /\ pending' = pending \ {e}
       /\ Read0(e)
       /\ \/ /\ e.kind = "hid"
             /\ UNCHANGED <<emitted, werr, pc>>
          \/ /\ e.kind = "plain"
             /\ emitted' = Append(emitted, [name |-> e.name, layer |-> 0])
             /\ UNCHANGED <<werr, pc>>
          \/ /\ e.kind = "plain" /\ Faults
             /\ Finish("ENOMEM")
             /\ UNCHANGED emitted
  /\ UNCHANGED <<layers, kind, sni, marks, used, allocated, snap, written>>

(* The listing has returned.                                               *)
Returned ==
  /\ pc = "done"
  /\ UNCHANGED vars

EmittedSet == {emitted[k] : k \in 1..Len(emitted)}

(* The main directory's stream has returned n already: it returns a name  *)
(* at most once (a name re-created at the position the stream has passed  *)
(* is not returned again).                                                 *)
Returned0(n) == n \in read0

(* Spec-modelled (push_dentry, not in src): before a main-space file n is *)
(* created, written or unlinked, its state is saved into the newest       *)
(* snapshot as a .map (with its .dat) saying whether it existed, unless   *)
(* that snapshot already holds n.  The snapshot directory is assumed to   *)
(* exist.  If layer 1 is being read, readdir may return the new entries.   *)
PushDentry(n) ==
  /\ Writers /\ kind # "sn_root"
  /\ layers[1].used /\ layers[1].ent[n] = "none"
  /\ layers' = [layers EXCEPT ![1].ent[n] = IF n \in layers[0] THEN "live" ELSE "tomb"]
  /\ IF pc = "read" /\ sni = 1
     THEN pending' \in {pending, pending \cup {[name |-> n, kind |-> k] : k \in {"map", "dat"}}}
     ELSE UNCHANGED pending
  /\ UNCHANGED <<kind, sni, pc, marks, used, allocated, emitted, werr, snap, read0>>
  /\ written' = TRUE

(* Spec-modelled: once its state is saved, file n is created or unlinked  *)
(* in the main directory.  If the main directory is being read, readdir   *)
(* may or may not return n (once).                                         *)
ChangeMain(n) ==
  /\ Writers /\ kind # "sn_root"
  /\ layers[1].used /\ layers[1].ent[n] \in {"live", "tomb"}
  /\ layers' = [layers EXCEPT ![0] = IF n \in layers[0] THEN @ \ {n} ELSE @ \cup {n}]
  /\ IF pc = "read" /\ sni = 0
     THEN pending' \in {pending \ {[name |-> n, kind |-> "plain"]},
                        IF Returned0(n) THEN pending
                        ELSE pending \cup {[name |-> n, kind |-> "plain"]}}
     ELSE UNCHANGED pending
  /\ UNCHANGED <<kind, sni, pc, marks, used, allocated, emitted, werr, snap, read0>>
  /\ written' = TRUE

(* The names a writer changes: ordinary files, never the snapshots root.  *)
FileNames == Names \ {SnRootName}

Next == StartLayer \/ EndLayer \/ ReadEntry \/ ReadDirEntry \/ Returned
        \/ \E n \in FileNames : PushDentry(n) \/ ChangeMain(n)

(* The steps of the listing thread itself.                                 *)
Listing == StartLayer \/ EndLayer \/ ReadEntry \/ ReadDirEntry

(* The kernel keeps scheduling the thread running readdir; the writers    *)
(* need not act at all.                                                     *)
Spec == Init /\ [][Next]_vars /\ WF_vars(Listing)

-----------------------------------------------------------------------------
(* Reference: what the directory held at snapshot SnCurrent.  Name n is   *)
(* decided by the newest-to-SnCurrent layer that mentions it: the main    *)
(* space lists it, a snapshot layer has a plain entry or a .map for it.   *)
RECURSIVE Decider(_, _, _)
Decider(lay, n, i) ==
  IF i = 0 THEN 0
  ELSE IF lay[i].used /\ lay[i].ent[n] # "none" THEN i
  ELSE Decider(lay, n, i - 1)

VisibleAt(lay, n) ==
  LET d == Decider(lay, n, SnCurrent)
  IN  IF d = 0 THEN n \in lay[0] ELSE lay[d].ent[n] \in {"plain", "live"}

(* The listing of snapshot SnCurrent the layers lay define.              *)
SnapshotListing(lay) ==
  {[name |-> n, layer |-> Decider(lay, n, SnCurrent)] :
     n \in {m \in Names : VisibleAt(lay, m) /\ ~(SkipRoot /\ m = SnRootName)}}

(* What the handle's directory holds: for a main or snapshots-root handle *)
(* the names of its open directory, for a snapshot handle the snapshot's  *)
(* listing.                                                                *)
RefListingOf(lay) ==
  IF kind \in SnKinds THEN SnapshotListing(lay)
  ELSE {[name |-> n, layer |-> 0] : n \in lay[0]}

RefListing == RefListingOf(layers)

(* The names of the snapshot's directory as the layers lay define it.     *)
SnapshotNames(lay) == {r.name : r \in SnapshotListing(lay)}

TypeOK ==
  /\ sni \in -1..SnCurrent
  /\ pc \in {"layer", "read", "done"}
  /\ kind \in Kinds
  /\ pending \subseteq [name : Names, kind : {"plain", "map", "dat", "hid"}]
  /\ marks \subseteq Names
  /\ allocated \in Nat /\ used \in 0..allocated   \* pathmark[used] is in the array
  /\ emitted \in Seq([name : Names, layer : Layers])
  /\ werr \in {"none", "EIO", "ENOMEM"}
  /\ read0 \subseteq Names

(* No writer has acted since the listing started.                         *)
Quiet == ~written

(* At every point of a listing no writer interferes with, each name       *)
(* handed to filler() belongs in the snapshot's directory, carries the    *)
(* stat of the layer that decides it (a newer layer's header, never an    *)
(* older one's), and is handed over once: a tombstone in a newer layer is *)
(* never overridden by an older layer, the main space included.           *)
ListingSound ==
  Quiet =>
    /\ EmittedSet \subseteq RefListing
    /\ Len(emitted) = Cardinality(EmittedSet)

(* A listing that returns 0, with no writer interfering, has handed over  *)
(* the whole directory as it was at snapshot SnCurrent.                    *)
ListingComplete == (pc = "done" /\ werr = "none" /\ Quiet) => EmittedSet = RefListing

(* Every readdir returns, whatever the writers do meanwhile: each layer's *)
(* while (b) loop ends when readdir returns NULL and the for (a) loop     *)
(* moves on to the next layer, even while other threads keep creating and *)
(* unlinking files in the directory being read.                            *)
ListingReturns == <>(pc = "done")

(* A listing that returns 0 while other threads change the main directory *)
(* hands over the snapshot's directory: exactly the names it had.         *)
ListingStable ==
  (pc = "done" /\ werr = "none" /\ kind \in SnKinds) => {e.name : e \in EmittedSet} = SnapshotNames(snap)

=============================================================================
