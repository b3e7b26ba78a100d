------------------------------ MODULE Registry ------------------------------
(***************************************************************************)
(* What the list of file controllers promises to the receivers, as if each *)
(* call was one step: a receiver that asks gets a new controller under an  *)
(* id that leads to no other, and that id leads to it as long as it        *)
(* exists, which is at least until the receiver lets go of it.  There are  *)
(* no mutex, no entries of controllers that are gone and no draws of ids;  *)
(* FileList refines this module.                                           *)
(***************************************************************************)
EXTENDS Naturals

CONSTANTS Receivers, Ids

VARIABLES table,   \* the controller that exists, for every id in use
          last,    \* controllers are numbered; the number of the newest one
          held     \* the controller each receiver works with, or 0

rvars == <<table, last, held>>

Init ==
    /\ table = [i \in {} |-> 0]
    /\ last = 0
    /\ held = [r \in Receivers |-> 0]

\* getController(0, ...)
Acquire(r) ==
    /\ held[r] = 0
    /\ \E i \in Ids \ DOMAIN table :
          table' = [j \in DOMAIN table \cup {i} |-> IF j = i THEN last + 1 ELSE table[j]]
    /\ last' = last + 1
    /\ held' = [held EXCEPT ![r] = last + 1]

\* The receiver's transfer is over.
LetGo(r) ==
    /\ held[r] # 0
    /\ held' = [held EXCEPT ![r] = 0]
    /\ UNCHANGED <<table, last>>

\* A controller is deleted, now or later and by whichever thread, but only when no
\* receiver holds it any more.
Delete(i) ==
    /\ \A r \in Receivers : held[r] # table[i]
    /\ table' = [j \in DOMAIN table \ {i} |-> table[j]]
    /\ UNCHANGED <<last, held>>

Next ==
    \/ \E r \in Receivers : Acquire(r) \/ LetGo(r)
    \/ \E i \in DOMAIN table : Delete(i)

Spec == Init /\ [][Next]_rvars
=============================================================================
