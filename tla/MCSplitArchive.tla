--------------------------- MODULE MCSplitArchive ---------------------------
(* SplitArchive with few files, cores and archives.                        *)
EXTENDS SplitArchive
=============================================================================
