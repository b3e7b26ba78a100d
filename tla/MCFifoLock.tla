----------------------------- MODULE MCFifoLock -----------------------------
(* FifoLock with two or three processes.                                   *)
EXTENDS FifoLock

CONSTANTS p1, p2, p3

TwoProcs   == {p1, p2}
ThreeProcs == {p1, p2, p3}
=============================================================================
