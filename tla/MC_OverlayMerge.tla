--------------------------- MODULE MC_OverlayMerge ---------------------------
EXTENDS OverlayMerge

(* One ordinary file name and the name of the snapshots directory.        *)
MCNames == {"f", "snapshots"}

=============================================================================
