------------------------ MODULE MCFileMutationQueue ------------------------
(* Small instances of FileMutationQueue for TLC.                           *)
EXTENDS FileMutationQueue, TLC

CONSTANTS real, link, file1

(* A symbolic link and the real path lead to the same file.                *)
LinkedPaths == (link :> file1) @@ (real :> file1)
LinkedReal == file1 :> real
=============================================================================
