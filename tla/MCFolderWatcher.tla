-------------------------- MODULE MCFolderWatcher --------------------------
(* FolderWatcher on small instances: a temporary and a final name. *)
EXTENDS FolderWatcher

CONSTANTS f1, tmp1, a, b
=============================================================================
