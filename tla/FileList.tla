------------------------------ MODULE FileList ------------------------------
(***************************************************************************)
(* The list of file controllers (src/filelist.cpp), which every receiver  *)
(* of the server shares.  A receiver asks it for a controller with a      *)
(* random identifier; when the receiver has given its reference back, the *)
(* controller is deleted by its own writer thread, at a time of its own   *)
(* and leaving the entry behind, or by the receiver, which removes it     *)
(* first (FileWriter has the details of who comes last).  Controllers are *)
(* numbered in the order of creation.                                     *)
(***************************************************************************)
EXTENDS Naturals, FiniteSets

CONSTANTS Receivers,      \* the dataReceiver_t threads
          Ids,            \* what random() may return
          NoOne,          \* nobody holds listmutex
          MaxTransfers    \* bound: controllers created in a behaviour

ASSUME ListConstantsOK ==
    /\ NoOne \notin Receivers
    /\ MaxTransfers \in Nat
    /\ Cardinality(Ids) > MaxTransfers   \* random() has 2^31 values

VARIABLES pc,            \* where each receiver is
          listmutex,     \* who holds it
          identifiers,   \* the list: the controller registered for an id
          tried,         \* the id each receiver has picked
          own,           \* the controller each receiver works with
          idOf, live     \* of every controller: getId(), is it still there?

vars == <<pc, listmutex, identifiers, tried, own, idOf, live>>

NoController == 0
Controllers == DOMAIN idOf
Created == Cardinality(Controllers)

Init ==
    /\ pc = [r \in Receivers |-> "idle"]
    /\ listmutex = NoOne
    /\ identifiers = [i \in {} |-> NoController]
    /\ tried \in {t \in [Receivers -> Ids] : \A r, q \in Receivers : t[r] = t[q]}
    /\ own = [r \in Receivers |-> NoController]
    /\ idOf = [c \in {} |-> NoController]
    /\ live = {}

Goes(r, from, to) == pc[r] = from /\ pc' = [pc EXCEPT ![r] = to]

\* Mutants: a mutex that does not exclude, one that is not released.
LockAnyway(r) == listmutex' = r
UnlockForgotten(r) == UNCHANGED listmutex

Lock(r)   == listmutex = NoOne /\ listmutex' = r
Unlock(r) == listmutex' = NoOne

With(f, x, y) == [z \in DOMAIN f \cup {x} |-> IF z = x THEN y ELSE f[z]]
Without(f, x) == [z \in DOMAIN f \ {x} |-> f[z]]

\* Mutant: any number will do.
AnyId(i) == TRUE

FreeId(i) == i \notin DOMAIN identifiers

\* map::insert leaves an entry that is there as it is.
Entered(i, c) == IF i \in DOMAIN identifiers THEN identifiers ELSE With(identifiers, i, c)

-----------------------------------------------------------------------------
(* getController(0, ...)                                                   *)

\* A valid header has arrived.
Request(r) ==
    /\ Created + Cardinality({q \in Receivers : pc[q] \in {"request", "pick", "create"}})
         < MaxTransfers
    /\ Goes(r, "idle", "request")
    /\ UNCHANGED <<listmutex, identifiers, tried, own, idOf, live>>

Enter(r) ==
    /\ Goes(r, "request", "pick")
    /\ Lock(r)
    /\ UNCHANGED <<identifiers, tried, own, idOf, live>>

\* random() is drawn until the id is not in the list.
PickId(r) ==
    /\ Goes(r, "pick", "create")
    /\ \E i \in Ids : FreeId(i) /\ tried' = [tried EXCEPT ![r] = i]
    /\ UNCHANGED <<listmutex, identifiers, own, idOf, live>>

\* insertController, and the unlock after it.
Insert(r) ==
    /\ Goes(r, "create", "transfer")
    /\ LET c == Created + 1 IN
          /\ own' = [own EXCEPT ![r] = c]
          /\ idOf' = With(idOf, c, tried[r])
          /\ live' = live \cup {c}
          /\ identifiers' = Entered(tried[r], c)
    /\ Unlock(r)
    /\ UNCHANGED <<tried>>

\* The constructor of fileWriter_t throws: the file does not open, or there is
\* no thread.  Nothing releases listmutex on the way to the handler in
\* dataReceiver_t::run, and the receiver's thread ends.
InsertThrows(r) ==
    /\ Goes(r, "create", "gone")
    /\ UNCHANGED <<listmutex, identifiers, tried, own, idOf, live>>

-----------------------------------------------------------------------------
(* The end of a transfer.                                                  *)

\* decRC: zeroReferences puts zr on record, and from now on the writer thread may
\* find that it is the last.
Release(r) ==
    /\ Goes(r, "transfer", "released")
    /\ UNCHANGED <<listmutex, identifiers, tried, own, idOf, live>>

\* delThread: the writer thread deletes its controller and calls nobody.  It comes
\* when it has drained its queue: before the receiver is back in run(), during the
\* receiver's next transfer, or, when zr was lost (run() clears it), not at all.
WriterDeletes(c) ==
    /\ c \in live
    /\ \A r \in Receivers : own[r] = c => pc[r] \in {"released", "remove"}
    /\ live' = live \ {c}
    /\ UNCHANGED <<pc, listmutex, identifiers, tried, own, idOf>>

\* The writer is not through, so the receiver wakes it and goes back to run().
Return(r) ==
    /\ Goes(r, "released", "idle")
    /\ own' = [own EXCEPT ![r] = NoController]
    /\ UNCHANGED <<listmutex, identifiers, tried, idOf, live>>

\* cleanupCheck finds the writer stopped: removeController(id, true).
EnterRemove(r) ==
    /\ own[r] \in live
    /\ Goes(r, "released", "remove")
    /\ Lock(r)
    /\ UNCHANGED <<identifiers, tried, own, idOf, live>>

\* The entry that the id leads to is erased, and what it points to deleted; when
\* the writer's thread still counts as running, its destructor ends this thread.
Erase(r) ==
    /\ own[r] \in live
    /\ Goes(r, "remove", "idle") \/ Goes(r, "remove", "gone")
    /\ LET id == idOf[own[r]] IN
          IF id \in DOMAIN identifiers
          THEN /\ live' = live \ {identifiers[id]}
               /\ identifiers' = Without(identifiers, id)
          ELSE UNCHANGED <<live, identifiers>>
    /\ own' = [own EXCEPT ![r] = NoController]
    /\ Unlock(r)
    /\ UNCHANGED <<tried, idOf>>

\* The writer was faster and the receiver goes on with freed memory.  Return may
\* come out of that unharmed; otherwise nothing is known of this thread any more.
TouchesFreed(r) ==
    /\ own[r] \notin live
    /\ Goes(r, "released", "undefined") \/ Goes(r, "remove", "undefined")
    /\ UNCHANGED <<listmutex, identifiers, tried, own, idOf, live>>

\* The client closes the connection between two files.
Disconnect(r) ==
    /\ Goes(r, "idle", "gone")
    /\ UNCHANGED <<listmutex, identifiers, tried, own, idOf, live>>

Serve(r) ==
    \/ Enter(r) \/ PickId(r) \/ Insert(r) \/ InsertThrows(r)
    \/ Release(r) \/ Return(r) \/ EnterRemove(r) \/ Erase(r) \/ TouchesFreed(r)

Next ==
    \/ \E r \in Receivers : Request(r) \/ Serve(r) \/ Disconnect(r)
    \/ \E c \in Controllers : WriterDeletes(c)

Spec == Init /\ [][Next]_vars

\* A thread goes on when it can, and a mutex that is free again and again is
\* obtained in the end.
FairSpec == Spec /\ \A r \in Receivers : WF_vars(Serve(r)) /\ SF_vars(Enter(r))

-----------------------------------------------------------------------------
(* Properties.                                                             *)

TypeOK ==
    /\ pc \in [Receivers -> {"idle", "request", "pick", "create", "transfer",
                             "released", "remove", "gone", "undefined"}]
    /\ listmutex \in Receivers \cup {NoOne}
    /\ DOMAIN identifiers \subseteq Ids
    /\ \A i \in DOMAIN identifiers : identifiers[i] \in Controllers
    /\ tried \in [Receivers -> Ids]
    /\ own \in [Receivers -> Controllers \cup {NoController}]
    /\ IsFiniteSet(Controllers) /\ Controllers = 1 .. Created
    /\ \A c \in Controllers : idOf[c] \in Ids
    /\ live \subseteq Controllers

\* getId() is unique among the controllers that exist: ids are drawn and the
\* entry is made under the one mutex, and an entry outlives its controller
\* rather than the other way round (include/pluginapi.h, fileStatus_t::getId).
UniqueIds == \A c, d \in live : c # d => idOf[c] # idOf[d]

\* A controller that exists is found in the list under its id, so the receiver
\* that removes an id always removes its own controller, not one that came later.
LiveIsListed ==
    \A c \in live : idOf[c] \in DOMAIN identifiers /\ identifiers[idOf[c]] = c

\* The calls of getController and removeController, whose steps interleave, and
\* the deletions by writers, which come at any time, without a call and without
\* listmutex, amount to the atomic operations of Registry: no receiver is given the
\* controller of another, and removing an id deletes none that a receiver still
\* transfers with.  (That both threads come to delete one is TouchesFreed.)
Listed == [i \in {j \in DOMAIN identifiers : identifiers[j] \in live} |-> identifiers[i]]
Held == [r \in Receivers |-> IF pc[r] = "transfer" THEN own[r] ELSE NoController]
R == INSTANCE Registry WITH table <- Listed, last <- Created, held <- Held
ImplementsRegistry == R!Spec

\* A receiver has ended with listmutex locked.
MutexLost == \E r \in Receivers : pc[r] \in {"gone", "undefined"} /\ listmutex = r

\* Whatever the others do with the list, each request is served, except when a
\* receiver took listmutex with it: its file could not be opened (getController),
\* or the writer deleted what removeController was about to.
AlwaysServed ==
    \A r \in Receivers : (pc[r] = "request") ~> (pc[r] = "transfer" \/ MutexLost)

\* doc/code_sk.txt: in case of an error the server sends information about it
\* and closes the connection.  So each request ends in a transfer or an error.
AlwaysAnswered ==
    \A r \in Receivers : (pc[r] = "request") ~> (pc[r] \in {"transfer", "gone"})
=============================================================================
