-------------------------- MODULE MCServerLifecycle --------------------------
(* ServerLifecycle with two receivers, a client and a writer.             *)
EXTENDS ServerLifecycle

CONSTANTS r1, r2, c1, w1

TwoReceivers == {r1, r2}
OneClient    == {c1}
OneWriter    == {w1}
=============================================================================
