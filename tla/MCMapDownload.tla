--------------------------- MODULE MCMapDownload ---------------------------
(* Instances of MapDownload for TLC: the bounds are given in the .cfg files.  *)
EXTENDS MapDownload
=============================================================================
