------------------------------ MODULE Transfer ------------------------------
(***************************************************************************)
(* What the receiving side promises a plugin about one incoming file,     *)
(* without threads, buffers or reference counts: fragments arrive, reach  *)
(* the disk while the transfer is in progress, the transfer then settles  *)
(* once, and the outcome is announced once.  include/pluginapi.h names    *)
(* the statuses and the events; FileWriter refines this module.           *)
(***************************************************************************)
EXTENDS Naturals

CONSTANT Pos        \* the fragments that make up the file

VARIABLES status,     \* what getTransferStatus() answers
          sent,       \* the fragments that have arrived
          stored,     \* the fragments that are on the disk
          announced   \* has onEnd been delivered?

tvars == <<status, sent, stored, announced>>

Terminal == {"FINISHED", "ERROR"}

Init ==
    /\ status = "IN_PROGRESS"
    /\ sent = {} /\ stored = {}
    /\ announced = FALSE

\* Fragments arrive in any order.
Arrive(p) ==
    /\ sent' = sent \cup {p}
    /\ UNCHANGED <<status, stored, announced>>

\* A burst of them may reach the disk at once.
Store(S) ==
    /\ status = "IN_PROGRESS"
    /\ stored' = stored \cup S
    /\ UNCHANGED <<status, sent, announced>>

\* Success may be reported only when every fragment is on the disk.
Finish ==
    /\ status = "IN_PROGRESS"
    /\ stored = Pos
    /\ status' = "FINISHED"
    /\ UNCHANGED <<sent, stored, announced>>

\* Failure may be reported only when something has not arrived: what arrived is not lost.
Fail ==
    /\ status = "IN_PROGRESS"
    /\ sent # Pos
    /\ status' = "ERROR"
    /\ UNCHANGED <<sent, stored, announced>>

Announce ==
    /\ status \in Terminal
    /\ ~announced
    /\ announced' = TRUE
    /\ UNCHANGED <<status, sent, stored>>

Next ==
    \/ \E p \in Pos : Arrive(p)
    \/ \E S \in SUBSET sent : Store(S)
    \/ Finish
    \/ Fail
    \/ Announce

\* A transfer that has settled is announced.
Spec == Init /\ [][Next]_tvars /\ WF_tvars(Announce)
=============================================================================
