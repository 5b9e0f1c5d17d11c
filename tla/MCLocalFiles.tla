---------------------------- MODULE MCLocalFiles ----------------------------
(* Instance of LocalFiles: two contents of one size, and the empty file. *)
EXTENDS LocalFiles
MCSizeOf(c) == IF c = "empty" THEN 0 ELSE 1
=============================================================================
