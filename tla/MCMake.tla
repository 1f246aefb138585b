------------------------------- MODULE MCMake -------------------------------
(* Instances of Make for TLC: r needs x and y, and y needs z. *)
EXTENDS Make, TLC

CONSTANTS r, x, y, z

Tree == (r :> <<x, y>>) @@ (y :> <<z>>) @@ (x :> << >>) @@ (z :> << >>)
OneOrTwo == (r :> 1) @@ (x :> 1) @@ (y :> 1) @@ (z :> 2)
=============================================================================
