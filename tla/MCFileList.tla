----------------------------- MODULE MCFileList -----------------------------
(* FileList with receivers and identifiers that are interchangeable.       *)
EXTENDS FileList

CONSTANTS r1, r2, i1, i2, i3, i4

TwoReceivers   == {r1, r2}
FourIds        == {i1, i2, i3, i4}
=============================================================================
