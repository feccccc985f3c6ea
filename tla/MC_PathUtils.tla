---------------------------- MODULE MC_PathUtils ----------------------------
(* Paths over {/, s, x} of up to 8 characters, with "/ss" standing for    *)
(* "/snapshots"; PATH_MAX scaled down to 5 bytes and ".hid" to 2, so that *)
(* every length at and around each check is enumerated.                    *)
EXTENDS PathUtils

MCSnDir == <<"/", "s", "s">>
MCAllSites == {"resolve", "map_path", "get_hid_path", "sn_hid_path",
               "readdir_fpath", "get_sndir_from_file"}
=============================================================================
