--------------------------- MODULE MCAutoVersion ---------------------------
(* Instances of AutoVersion: nested prefixes, py below px. *)
EXTENDS AutoVersion, TLC

CONSTANTS n1, n2, px, py, a, b, h1, h2

NestedUnder == px :> {a, b} @@ py :> {b}
OwnName  == px :> n1 @@ py :> n2
OwnTrack == {<<n1, px>>, <<n2, py>>}

ASSUME OneConfigPerPrefix

(* How far versions go: one of each prefix, a second of the outer one. *)
Versions == px :> 2 @@ py :> 1
=============================================================================
