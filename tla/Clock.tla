------------------------------- MODULE Clock -------------------------------
(***************************************************************************)
(* The clock of a peer, which the timers and deadlines of several of its   *)
(* parts read, and the value an optional field has when it is not there.   *)
(***************************************************************************)
CONSTANT Nothing

VARIABLE now

=============================================================================
