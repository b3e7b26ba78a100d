------------------------------ MODULE MCWidget ------------------------------
(* An isend of its own id, and an isend and the server that happen to have *)
(* the same: two downloads, and an upload and a download of empty files.   *)
EXTENDS Widget, TLC

CONSTANTS u1, u2, d1, d2, d3

MCTransfers == {u1, u2, d1, d2, d3}
MCUploads == {u1, u2}
MCId == [t \in MCTransfers |-> IF t = u1 THEN 2 ELSE 1]
MCEmpty == {u2, d3}
Symmetry == Permutations({d1, d2})
=============================================================================
