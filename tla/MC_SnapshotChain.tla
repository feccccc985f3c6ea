--------------------------- MODULE MC_SnapshotChain ---------------------------
(***************************************************************************)
(* Model-checking instance of SnapshotChain: three snapshot ids, one of   *)
(* which is too long for its "ID.hid" path, so both the success and the   *)
(* failure branch of esfs_sn_create are taken, and a chain of more than   *)
(* one snapshot can form.                                                  *)
(***************************************************************************)
EXTENDS SnapshotChain

MCIds == {"s1", "s2", "s3"}
MCLongIds == {"s3"}

=============================================================================
