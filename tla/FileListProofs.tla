--------------------------- MODULE FileListProofs ---------------------------
(***************************************************************************)
(* Theorems about FileList that hold for any number of receivers, ids and *)
(* transfers: ids of existing controllers differ, each leads to its       *)
(* controller, and the interleaved calls implement those of Registry.     *)
(***************************************************************************)
EXTENDS FileList, FiniteSetTheorems, TLAPS

-----------------------------------------------------------------------------
(* Types.                                                                  *)

\* A receiver in a transfer has a controller to work with.
OwnsOne ==
    \A r \in Receivers : pc[r] \in {"transfer", "released", "remove"} => own[r] \in Controllers

TypeInv == TypeOK /\ OwnsOne

\* The numbers of controllers are consecutive, so the next one is new.
LEMMA NextIsNew ==
  ASSUME TypeOK
  PROVE  /\ Created \in Nat
         /\ Created + 1 \notin Controllers
         /\ Controllers \cup {Created + 1} = 1 .. (Created + 1)
         /\ Cardinality(Controllers \cup {Created + 1}) = Created + 1
<1>1. Controllers = 1 .. Created /\ IsFiniteSet(Controllers)
  BY DEF TypeOK
<1>2. Created \in Nat
  BY <1>1, FS_CardinalityType DEF Created
<1>3. Controllers \cup {Created + 1} = 1 .. (Created + 1)
  BY <1>1, <1>2
<1>4. Cardinality(1 .. (Created + 1)) = Created + 1
  BY <1>2, FS_Interval
<1>5. Created + 1 \notin Controllers
  BY <1>1, <1>2
<1>6. Cardinality(Controllers \cup {Created + 1}) = Created + 1
  BY <1>3, <1>4, Zenon
<1>7. QED
  BY <1>2, <1>3, <1>5, <1>6, Zenon

\* The empty list is well formed.
LEMMA InitTypeInv == Init => TypeInv
<1> SUFFICES ASSUME Init PROVE TypeInv
  OBVIOUS
<1>1. Controllers = {}
  BY DEF Init, Controllers
<1>2. IsFiniteSet(Controllers) /\ Created = 0
  BY <1>1, FS_EmptySet DEF Created
<1>3. Controllers = 1 .. Created
  BY <1>1, <1>2
<1>4. QED
  BY <1>1, <1>2, <1>3 DEF Init, TypeInv, TypeOK, OwnsOne

\* Inserting a controller keeps everything in its range.
LEMMA InsertTypeInv ==
  ASSUME TypeInv, NEW r \in Receivers, Insert(r)
  PROVE  TypeInv'
<1> DEFINE c == Created + 1
<1>1. /\ Created \in Nat /\ c \notin Controllers
      /\ Controllers \cup {c} = 1 .. c /\ Cardinality(Controllers \cup {c}) = c
  BY NextIsNew DEF TypeInv
<1>2. tried[r] \in Ids
  BY DEF TypeInv, TypeOK
<1>3. Controllers' = Controllers \cup {c}
  BY DEF Insert, With, Controllers
<1>4. Controllers' = 1 .. Created' /\ IsFiniteSet(Controllers')
  BY <1>1, <1>3, FS_AddElement DEF Created, TypeInv, TypeOK
<1>5. \A d \in Controllers' : idOf'[d] \in Ids
  BY <1>2, <1>3 DEF Insert, With, Controllers, TypeInv, TypeOK
<1>6. /\ DOMAIN identifiers' \subseteq Ids
      /\ \A i \in DOMAIN identifiers' : identifiers'[i] \in Controllers'
  BY <1>2, <1>3 DEF Insert, Entered, With, TypeInv, TypeOK
<1>7. /\ pc' \in [Receivers -> {"idle", "request", "pick", "create", "transfer",
                                "released", "remove", "gone", "undefined"}]
      /\ listmutex' \in Receivers \cup {NoOne}
      /\ tried' \in [Receivers -> Ids]
      /\ own' \in [Receivers -> Controllers' \cup {NoController}]
      /\ live' \subseteq Controllers'
  BY <1>3 DEF Insert, Goes, Unlock, TypeInv, TypeOK
<1>8. OwnsOne'
  BY <1>3 DEF Insert, Goes, TypeInv, TypeOK, OwnsOne
<1>9. QED
  BY <1>4, <1>5, <1>6, <1>7, <1>8 DEF TypeInv, TypeOK

\* So does everything else a receiver does.
LEMMA NextTypeInv == TypeInv /\ [Next]_vars => TypeInv'
<1> SUFFICES ASSUME TypeInv, [Next]_vars PROVE TypeInv'
  OBVIOUS
<1> USE DEF TypeInv, TypeOK, OwnsOne, Goes, Controllers, Created
<1>1. CASE UNCHANGED vars
  BY <1>1 DEF vars
<1>2. ASSUME NEW r \in Receivers, Request(r) PROVE TypeInv'
  BY <1>2 DEF Request
<1>3. ASSUME NEW r \in Receivers, Enter(r) PROVE TypeInv'
  BY <1>3 DEF Enter, Lock
<1>4. ASSUME NEW r \in Receivers, PickId(r) PROVE TypeInv'
  BY <1>4 DEF PickId
<1>5. ASSUME NEW r \in Receivers, Insert(r) PROVE TypeInv'
  BY <1>5, InsertTypeInv
<1>6. ASSUME NEW r \in Receivers, InsertThrows(r) PROVE TypeInv'
  BY <1>6 DEF InsertThrows
<1>7. ASSUME NEW c \in Controllers, WriterDeletes(c) PROVE TypeInv'
  BY <1>7 DEF WriterDeletes
<1>8. ASSUME NEW r \in Receivers, Release(r) \/ Return(r) \/ TouchesFreed(r) PROVE TypeInv'
  BY <1>8 DEF Release, Return, TouchesFreed
<1>9. ASSUME NEW r \in Receivers, EnterRemove(r) PROVE TypeInv'
  BY <1>9 DEF EnterRemove, Lock
<1>10. ASSUME NEW r \in Receivers, Erase(r) PROVE TypeInv'
  <2>1. /\ UNCHANGED <<tried, idOf>> /\ listmutex' = NoOne
        /\ own' = [own EXCEPT ![r] = NoController]
        /\ pc' = [pc EXCEPT ![r] = "idle"] \/ pc' = [pc EXCEPT ![r] = "gone"]
    BY <1>10 DEF Erase, Unlock
  <2>2. /\ DOMAIN identifiers' \subseteq DOMAIN identifiers
        /\ \A i \in DOMAIN identifiers' : identifiers'[i] = identifiers[i]
        /\ live' \subseteq live
    BY <1>10 DEF Erase, Without
  <2>3. QED
    BY <2>1, <2>2
<1>11. ASSUME NEW r \in Receivers, Disconnect(r) PROVE TypeInv'
  BY <1>11 DEF Disconnect
<1>12. QED
  BY <1>1, <1>2, <1>3, <1>4, <1>5, <1>6, <1>7, <1>8, <1>9, <1>10, <1>11 DEF Next, Serve

\* Every variable of the list keeps its range, whatever the receivers do.
THEOREM TypeCorrect == Spec => []TypeOK
<1>1. TypeInv => TypeOK
  BY DEF TypeInv
<1>2. QED
  BY InitTypeInv, NextTypeInv, <1>1, PTL DEF Spec

-----------------------------------------------------------------------------
(* Ids.                                                                    *)

Inside == {"pick", "create", "remove"}

\* Who is between the lock and the unlock has the mutex, and an id that was
\* picked stays free until it is entered.
MutexInv == \A r \in Receivers : pc[r] \in Inside => listmutex = r
PickedIsFree == \A r \in Receivers : pc[r] = "create" => tried[r] \notin DOMAIN identifiers

ListInv == TypeInv /\ MutexInv /\ PickedIsFree /\ LiveIsListed

\* At the start nothing is locked, picked or listed.
LEMMA InitListInv == Init => ListInv
BY InitTypeInv DEF Init, ListInv, MutexInv, PickedIsFree, LiveIsListed, Inside

\* Nobody enters while somebody is inside.
LEMMA NextMutexInv == ListInv /\ [Next]_vars => MutexInv'
<1> SUFFICES ASSUME ListInv, [Next]_vars PROVE MutexInv'
  OBVIOUS
<1> USE ListConstantsOK DEF ListInv, TypeInv, TypeOK, MutexInv, Inside, Goes
<1>1. CASE UNCHANGED vars
  BY <1>1 DEF vars
<1>2. ASSUME NEW r \in Receivers, Request(r) \/ PickId(r) \/ InsertThrows(r)
                 \/ Release(r) \/ Return(r) \/ TouchesFreed(r) \/ Disconnect(r)
      PROVE MutexInv'
  BY <1>2 DEF Request, PickId, InsertThrows, Release, Return, TouchesFreed, Disconnect
<1>3. ASSUME NEW r \in Receivers, Enter(r) \/ EnterRemove(r) PROVE MutexInv'
  BY <1>3 DEF Enter, EnterRemove, Lock
<1>4. ASSUME NEW r \in Receivers, Insert(r) \/ Erase(r) PROVE MutexInv'
  BY <1>4 DEF Insert, Erase, Unlock
<1>5. ASSUME NEW c \in Controllers, WriterDeletes(c) PROVE MutexInv'
  BY <1>5 DEF WriterDeletes
<1>6. QED
  BY <1>1, <1>2, <1>3, <1>4, <1>5 DEF Next, Serve

\* An entry is made, and erased, by the one receiver that is inside.
LEMMA NextPickedIsFree == ListInv /\ [Next]_vars => PickedIsFree'
<1> SUFFICES ASSUME ListInv, [Next]_vars PROVE PickedIsFree'
  OBVIOUS
<1> USE DEF ListInv, TypeInv, TypeOK, MutexInv, PickedIsFree, Inside, Goes
<1>1. CASE UNCHANGED vars
  BY <1>1 DEF vars
<1>2. ASSUME NEW r \in Receivers, Request(r) \/ InsertThrows(r) \/ Release(r) \/ Return(r)
                 \/ TouchesFreed(r) \/ Disconnect(r) \/ Enter(r) \/ EnterRemove(r)
      PROVE PickedIsFree'
  BY <1>2 DEF Request, InsertThrows, Release, Return, TouchesFreed, Disconnect, Enter,
              EnterRemove
<1>3. ASSUME NEW r \in Receivers, PickId(r) PROVE PickedIsFree'
  BY <1>3 DEF PickId, FreeId
<1>4. ASSUME NEW r \in Receivers, Insert(r) PROVE PickedIsFree'
  BY <1>4 DEF Insert
<1>5. ASSUME NEW r \in Receivers, Erase(r) PROVE PickedIsFree'
  BY <1>5 DEF Erase
<1>6. ASSUME NEW c \in Controllers, WriterDeletes(c) PROVE PickedIsFree'
  BY <1>6 DEF WriterDeletes
<1>7. QED
  BY <1>1, <1>2, <1>3, <1>4, <1>5, <1>6 DEF Next, Serve

\* A new controller gets an id of its own; an entry goes with its controller.
LEMMA NextLiveIsListed == ListInv /\ [Next]_vars => LiveIsListed'
<1> SUFFICES ASSUME ListInv, [Next]_vars PROVE LiveIsListed'
  OBVIOUS
<1> USE DEF ListInv, TypeInv, TypeOK, LiveIsListed, Goes
<1>1. CASE UNCHANGED vars
  BY <1>1 DEF vars
<1>2. ASSUME NEW r \in Receivers, Request(r) \/ InsertThrows(r) \/ Release(r) \/ Return(r)
                 \/ TouchesFreed(r) \/ Disconnect(r) \/ Enter(r) \/ EnterRemove(r)
                 \/ PickId(r)
      PROVE LiveIsListed'
  BY <1>2 DEF Request, InsertThrows, Release, Return, TouchesFreed, Disconnect, Enter,
              EnterRemove, PickId
<1>3. ASSUME NEW r \in Receivers, Insert(r) PROVE LiveIsListed'
  <2> DEFINE c == Created + 1
  <2>1. tried[r] \notin DOMAIN identifiers
    BY <1>3 DEF Insert, PickedIsFree
  <2>2. /\ live' = live \cup {c}
        /\ identifiers' = With(identifiers, tried[r], c)
        /\ idOf' = With(idOf, c, tried[r])
    BY <1>3, <2>1 DEF Insert, Entered
  <2>3. c \notin Controllers
    BY NextIsNew
  <2>4. ASSUME NEW d \in live
        PROVE  idOf'[d] \in DOMAIN identifiers' /\ identifiers'[idOf'[d]] = d
    BY <2>1, <2>2, <2>3 DEF With, Controllers
  <2>5. idOf'[c] \in DOMAIN identifiers' /\ identifiers'[idOf'[c]] = c
    BY <2>2 DEF With
  <2>6. QED
    BY <2>2, <2>4, <2>5
<1>4. ASSUME NEW r \in Receivers, Erase(r) PROVE LiveIsListed'
  <2> DEFINE id == idOf[own[r]]
  <2>1. UNCHANGED idOf
    BY <1>4 DEF Erase
  <2>2. CASE id \in DOMAIN identifiers
    BY <1>4, <2>1, <2>2 DEF Erase, Without
  <2>3. CASE id \notin DOMAIN identifiers
    BY <1>4, <2>1, <2>3 DEF Erase
  <2>4. QED
    BY <2>2, <2>3
<1>5. ASSUME NEW c \in Controllers, WriterDeletes(c) PROVE LiveIsListed'
  BY <1>5 DEF WriterDeletes
<1>6. QED
  BY <1>1, <1>2, <1>3, <1>4, <1>5 DEF Next, Serve

\* ListInv is inductive by itself.
LEMMA ListStep == ListInv /\ [Next]_vars => ListInv'
BY NextTypeInv, NextMutexInv, NextPickedIsFree, NextLiveIsListed DEF ListInv

\* The list always leads from the id of a controller that exists to it.
THEOREM ListedAlive == Spec => []LiveIsListed
<1>1. ListInv /\ [Next]_vars => ListInv'
  BY ListStep
<1>2. ListInv => LiveIsListed
  BY DEF ListInv
<1>3. QED
  BY InitListInv, <1>1, <1>2, PTL DEF Spec

\* Two controllers that exist never have the same id.
THEOREM IdsAreUnique == Spec => []UniqueIds
<1>1. LiveIsListed => UniqueIds
  BY DEF LiveIsListed, UniqueIds
<1>2. QED
  BY ListedAlive, <1>1, PTL

-----------------------------------------------------------------------------
(* The list is a Registry.                                                 *)

\* A receiver works with a controller from the insertion until it is back in run();
\* no other receiver does, and it exists until the receiver has let go of it.
HeldInv ==
    /\ \A r \in Receivers :
          /\ pc[r] \in {"transfer", "released", "remove"} => own[r] # NoController
          /\ own[r] # NoController => pc[r] \in {"transfer", "released", "remove", "undefined"}
    /\ \A r \in Receivers : pc[r] = "transfer" => own[r] \in live
    /\ \A r, q \in Receivers : own[r] = own[q] /\ own[r] # NoController => r = q

\* An entry, of a controller that is gone too, is under the id of its controller.
EntryInv == \A i \in DOMAIN identifiers : idOf[identifiers[i]] = i

RegistryInv == ListInv /\ HeldInv /\ EntryInv

\* The controller a receiver erases is its own.
LEMMA ErasesOwn ==
  ASSUME RegistryInv, NEW r \in Receivers, Erase(r)
  PROVE  /\ own[r] \in live /\ idOf[own[r]] \in DOMAIN identifiers
         /\ identifiers[idOf[own[r]]] = own[r]
         /\ live' = live \ {own[r]} /\ identifiers' = Without(identifiers, idOf[own[r]])
<1>1. own[r] \in live
  BY DEF Erase
<1>2. idOf[own[r]] \in DOMAIN identifiers /\ identifiers[idOf[own[r]]] = own[r]
  BY <1>1 DEF RegistryInv, ListInv, LiveIsListed
<1>3. live' = live \ {own[r]} /\ identifiers' = Without(identifiers, idOf[own[r]])
  BY <1>2 DEF Erase
<1>4. QED
  BY <1>1, <1>2, <1>3

\* The insertion enters the next number under an id that is free.
LEMMA InsertsNew ==
  ASSUME RegistryInv, NEW r \in Receivers, Insert(r)
  PROVE  LET c == Created + 1 IN
         /\ c \in Nat \ {0} /\ c \notin Controllers /\ c \notin live
         /\ Controllers' = Controllers \cup {c} /\ Created' = c
         /\ tried[r] \in Ids /\ tried[r] \notin DOMAIN identifiers
         /\ identifiers' = With(identifiers, tried[r], c) /\ idOf' = With(idOf, c, tried[r])
         /\ live' = live \cup {c} /\ own' = [own EXCEPT ![r] = c]
<1> DEFINE c == Created + 1
<1>1. /\ TypeOK /\ Created \in Nat /\ c \notin Controllers
      /\ Cardinality(Controllers \cup {c}) = c
  BY NextIsNew DEF RegistryInv, ListInv, TypeInv
<1>2. tried[r] \in Ids /\ tried[r] \notin DOMAIN identifiers
  BY <1>1 DEF RegistryInv, ListInv, PickedIsFree, TypeOK, Insert, Goes
<1>3. /\ identifiers' = With(identifiers, tried[r], c) /\ idOf' = With(idOf, c, tried[r])
      /\ live' = live \cup {c} /\ own' = [own EXCEPT ![r] = c]
  BY <1>2 DEF Insert, Entered
<1>4. Controllers' = Controllers \cup {c}
  BY <1>3 DEF With, Controllers
<1>5. Created' = c
  BY <1>1, <1>4 DEF Created
<1>6. c \in Nat \ {0} /\ c \notin live
  BY <1>1 DEF TypeOK
<1> HIDE DEF c
<1> QED
  BY <1>1, <1>2, <1>3, <1>4, <1>5, <1>6 DEF c

\* A controller is deleted only when the receiver that has it has let go of it.
LEMMA NextHeldInv == RegistryInv /\ [Next]_vars => HeldInv'
<1> SUFFICES ASSUME RegistryInv, [Next]_vars PROVE HeldInv'
  OBVIOUS
<1>0. TypeOK /\ HeldInv
  BY DEF RegistryInv, ListInv, TypeInv
<1>1. CASE UNCHANGED vars
  BY <1>0, <1>1 DEF vars, HeldInv
<1>2. ASSUME NEW r \in Receivers, Request(r) \/ InsertThrows(r) \/ Disconnect(r)
                 \/ Enter(r) \/ EnterRemove(r) \/ PickId(r) \/ Release(r) \/ TouchesFreed(r)
      PROVE HeldInv'
  BY <1>0, <1>2 DEF Request, InsertThrows, Disconnect, Enter, EnterRemove, PickId, Release,
                    TouchesFreed, TypeOK, HeldInv, Goes
<1>3. ASSUME NEW r \in Receivers, Insert(r) PROVE HeldInv'
  <2> DEFINE c == Created + 1
  <2>1. /\ c # NoController /\ c \notin live /\ live' = live \cup {c}
        /\ own' = [own EXCEPT ![r] = c] /\ pc' = [pc EXCEPT ![r] = "transfer"]
    BY <1>3, InsertsNew DEF Insert, Goes, NoController
  <2>2. \A q \in Receivers : own[q] # c
    BY <1>0, <1>3, InsertsNew DEF TypeOK, NoController
  <2> HIDE DEF c
  <2> QED
    BY <1>0, <2>1, <2>2 DEF TypeOK, HeldInv
<1>4. ASSUME NEW r \in Receivers, Return(r) \/ Erase(r) PROVE HeldInv'
  <2>1. /\ own[r] # NoController
        /\ own' = [own EXCEPT ![r] = NoController]
        /\ pc' = [pc EXCEPT ![r] = "idle"] \/ pc' = [pc EXCEPT ![r] = "gone"]
    BY <1>0, <1>4 DEF Return, Erase, Goes, HeldInv
  <2>2. live \ {own[r]} \subseteq live'
    BY <1>4, ErasesOwn DEF Return
  <2> QED
    BY <1>0, <2>1, <2>2 DEF TypeOK, HeldInv
<1>5. ASSUME NEW c \in Controllers, WriterDeletes(c) PROVE HeldInv'
  BY <1>0, <1>5 DEF WriterDeletes, HeldInv
<1> QED
  BY <1>1, <1>2, <1>3, <1>4, <1>5 DEF Next, Serve

\* Entries are made and erased, never changed.
LEMMA NextEntryInv == RegistryInv /\ [Next]_vars => EntryInv'
<1> SUFFICES ASSUME RegistryInv, [Next]_vars PROVE EntryInv'
  OBVIOUS
<1>0. TypeOK /\ EntryInv
  BY DEF RegistryInv, ListInv, TypeInv
<1>1. CASE UNCHANGED <<identifiers, idOf>>
  BY <1>0, <1>1 DEF EntryInv
<1>2. ASSUME NEW r \in Receivers, Insert(r) PROVE EntryInv'
  <2> DEFINE c == Created + 1
  <2>1. /\ c \notin Controllers /\ tried[r] \notin DOMAIN identifiers
        /\ identifiers' = With(identifiers, tried[r], c) /\ idOf' = With(idOf, c, tried[r])
    BY <1>2, InsertsNew
  <2>2. \A i \in DOMAIN identifiers : identifiers[i] \in DOMAIN idOf
    BY <1>0 DEF TypeOK, Controllers
  <2> HIDE DEF c
  <2> QED
    BY <1>0, <2>1, <2>2 DEF With, EntryInv, Controllers
<1>3. ASSUME NEW r \in Receivers, Erase(r) PROVE EntryInv'
  BY <1>0, <1>3, ErasesOwn DEF Erase, Without, EntryInv
<1>4. Next => UNCHANGED <<identifiers, idOf>> \/ \E r \in Receivers : Insert(r) \/ Erase(r)
  BY DEF Next, Serve, Request, Enter, PickId, InsertThrows, WriterDeletes, Release, Return,
         TouchesFreed, EnterRemove, Disconnect
<1> QED
  BY <1>1, <1>2, <1>3, <1>4 DEF vars

\* Listed has the ids of the controllers that exist, and what they lead to.
LEMMA ListedIs ==
  /\ DOMAIN Listed = {i \in DOMAIN identifiers : identifiers[i] \in live}
  /\ \A i \in DOMAIN Listed : Listed[i] = identifiers[i]
BY DEF Listed

\* What happens to mutex, draws and entries of controllers that are gone, nobody sees.
LEMMA NothingSeen ==
  ASSUME UNCHANGED <<identifiers, idOf, live>>, Held' = Held
  PROVE  UNCHANGED R!rvars
<1>1. Listed' = Listed
  BY DEF Listed
<1>2. Created' = Created
  BY DEF Created, Controllers
<1> QED
  BY <1>1, <1>2 DEF R!rvars

\* The insertion is the moment at which getController takes effect.
LEMMA InsertAcquires ==
  ASSUME RegistryInv, NEW r \in Receivers, Insert(r)
  PROVE  R!Acquire(r)
<1> DEFINE c == Created + 1  i == tried[r]
<1>1. /\ c \notin live /\ c \notin Controllers /\ Created' = c
      /\ i \in Ids /\ i \notin DOMAIN identifiers
      /\ identifiers' = With(identifiers, i, c)
      /\ live' = live \cup {c} /\ own' = [own EXCEPT ![r] = c]
  BY InsertsNew
<1>2. \A j \in DOMAIN identifiers : identifiers[j] # c
  BY <1>1 DEF RegistryInv, ListInv, TypeInv, TypeOK
<1>3. {k \in DOMAIN identifiers' : identifiers'[k] \in live'} = DOMAIN Listed \cup {i}
  BY <1>1, <1>2, ListedIs DEF With
<1>4. \A j \in DOMAIN Listed \cup {i} : identifiers'[j] = IF j = i THEN c ELSE Listed[j]
  BY <1>1, ListedIs DEF With
<1>5. Listed' = [j \in DOMAIN Listed \cup {i} |-> IF j = i THEN c ELSE Listed[j]]
  BY <1>3, <1>4 DEF Listed
<1>6. i \in Ids \ DOMAIN Listed
  BY <1>1, ListedIs
<1>7. pc[r] = "create" /\ pc' = [pc EXCEPT ![r] = "transfer"]
  BY DEF Insert, Goes
<1>8. Held[r] = 0
  BY <1>7 DEF Held, NoController
<1>9. Held' = [Held EXCEPT ![r] = c]
  <2> HIDE DEF c
  <2> QED
    BY <1>1, <1>7 DEF Held, RegistryInv, ListInv, TypeInv, TypeOK
<1> QED
  BY <1>1, <1>5, <1>6, <1>8, <1>9 DEF R!Acquire

\* From decRC on the receiver holds nothing.
LEMMA ReleaseLetsGo ==
  ASSUME RegistryInv, NEW r \in Receivers, Release(r)
  PROVE  R!LetGo(r)
<1>1. /\ pc[r] = "transfer" /\ pc' = [pc EXCEPT ![r] = "released"]
      /\ UNCHANGED <<own, identifiers, idOf, live>>
  BY DEF Release, Goes
<1>2. Listed' = Listed /\ Created' = Created
  BY <1>1 DEF Listed, Created, Controllers
<1>3. Held[r] # 0
  BY <1>1 DEF Held, RegistryInv, HeldInv, NoController
<1>4. Held' = [Held EXCEPT ![r] = 0]
  BY <1>1 DEF Held, NoController, RegistryInv, ListInv, TypeInv, TypeOK
<1> QED
  BY <1>2, <1>3, <1>4 DEF R!LetGo

\* When a controller goes, and its entry with it or not, the id that led to it leads
\* to nothing, and all others lead where they did.
LEMMA DeletionDeletes ==
  ASSUME RegistryInv, NEW c \in live,
         live' = live \ {c}, UNCHANGED idOf, Held' = Held,
         \A r \in Receivers : Held[r] # c,
         identifiers' = identifiers \/ identifiers' = Without(identifiers, idOf[c])
  PROVE  R!Next
<1> DEFINE i == idOf[c]
<1>1. i \in DOMAIN identifiers /\ identifiers[i] = c
  BY DEF RegistryInv, ListInv, LiveIsListed
<1>2. \A j \in DOMAIN identifiers : identifiers[j] = c => j = i
  BY DEF RegistryInv, EntryInv
<1>3. i \in DOMAIN Listed /\ Listed[i] = c
  BY <1>1, ListedIs
<1>4. {k \in DOMAIN identifiers' : identifiers'[k] \in live'} = DOMAIN Listed \ {i}
  BY <1>1, <1>2, ListedIs DEF Without
<1>5. \A j \in DOMAIN Listed \ {i} : identifiers'[j] = Listed[j]
  BY ListedIs DEF Without
<1>6. Listed' = [j \in DOMAIN Listed \ {i} |-> Listed[j]]
  BY <1>4, <1>5 DEF Listed
<1>7. Created' = Created
  BY DEF Created, Controllers
<1>8. R!Delete(i)
  BY <1>3, <1>6, <1>7 DEF R!Delete
<1> QED
  BY <1>3, <1>8 DEF R!Next

\* Nobody transfers with a controller that a writer deletes.
LEMMA WriterDeletionDeletes ==
  ASSUME RegistryInv, NEW c \in Controllers, WriterDeletes(c)
  PROVE  R!Next
<1>1. /\ c \in live /\ live' = live \ {c}
      /\ UNCHANGED <<pc, own, identifiers, idOf>>
  BY DEF WriterDeletes
<1>2. Held' = Held
  BY <1>1 DEF Held
<1>3. c # NoController
  BY <1>1, NextIsNew DEF RegistryInv, ListInv, TypeInv, TypeOK, NoController
<1>4. \A r \in Receivers : Held[r] # c
  BY <1>3 DEF Held, WriterDeletes
<1> QED
  BY <1>1, <1>2, <1>4, DeletionDeletes

\* A receiver that removes its id has let go before, and no other has its controller.
LEMMA EraseDeletes ==
  ASSUME RegistryInv, NEW r \in Receivers, Erase(r)
  PROVE  R!Next
<1> DEFINE c == own[r]
<1>1. /\ c \in live /\ live' = live \ {c}
      /\ identifiers' = Without(identifiers, idOf[c])
  BY ErasesOwn
<1>2. /\ UNCHANGED idOf /\ own' = [own EXCEPT ![r] = NoController]
      /\ pc[r] = "remove"
      /\ pc' = [pc EXCEPT ![r] = "idle"] \/ pc' = [pc EXCEPT ![r] = "gone"]
  BY DEF Erase, Goes
<1>3. Held' = Held
  BY <1>2 DEF Held, RegistryInv, ListInv, TypeInv, TypeOK
<1>4. \A q \in Receivers : Held[q] # c
  BY <1>2 DEF Held, RegistryInv, HeldInv
<1> QED
  BY <1>1, <1>2, <1>3, <1>4, DeletionDeletes

\* Whatever the steps of the receivers and writers do to the list in whichever order,
\* each call of theirs has the effect of one atomic operation of Registry.
THEOREM ListIsARegistry == Spec => ImplementsRegistry
<1>1. Init => RegistryInv
  <2>1. Init => HeldInv /\ EntryInv
    BY DEF Init, HeldInv, EntryInv, NoController
  <2> QED
    BY <2>1, InitListInv DEF RegistryInv
<1>2. RegistryInv /\ [Next]_vars => RegistryInv'
  BY ListStep, NextHeldInv, NextEntryInv DEF RegistryInv
<1>3. Init => R!Init
  <2> SUFFICES ASSUME Init PROVE R!Init
    OBVIOUS
  <2>1. Listed = [i \in {} |-> 0]
    BY DEF Init, Listed
  <2>2. Created = 0
    BY FS_EmptySet DEF Init, Created, Controllers
  <2>3. Held = [r \in Receivers |-> 0]
    BY DEF Init, Held, NoController
  <2> QED
    BY <2>1, <2>2, <2>3 DEF R!Init
<1>4. RegistryInv /\ [Next]_vars => [R!Next]_(R!rvars)
  <2> SUFFICES ASSUME RegistryInv, [Next]_vars PROVE R!Next \/ UNCHANGED R!rvars
    OBVIOUS
  <2>1. CASE UNCHANGED vars
    BY <2>1, NothingSeen DEF vars, Held
  <2>2. ASSUME NEW r \in Receivers, Request(r) \/ Enter(r) \/ PickId(r) \/ InsertThrows(r)
                                      \/ Return(r) \/ EnterRemove(r) \/ TouchesFreed(r)
                                      \/ Disconnect(r)
        PROVE  UNCHANGED R!rvars
    <3>1. UNCHANGED <<identifiers, idOf, live>>
      BY <2>2 DEF Request, Enter, PickId, InsertThrows, Return, EnterRemove, TouchesFreed,
                  Disconnect
    <3>2. /\ \A q \in Receivers : pc[q] = "transfer" <=> pc'[q] = "transfer"
          /\ \A q \in Receivers : pc[q] = "transfer" => own'[q] = own[q]
      BY <2>2 DEF Request, Enter, PickId, InsertThrows, Return, EnterRemove, TouchesFreed,
                  Disconnect, Goes, RegistryInv, ListInv, TypeInv, TypeOK
    <3>3. Held' = Held
      BY <3>2 DEF Held
    <3> QED
      BY <3>1, <3>3, NothingSeen
  <2>3. ASSUME NEW r \in Receivers, Insert(r) PROVE R!Next
    BY <2>3, InsertAcquires DEF R!Next
  <2>4. ASSUME NEW r \in Receivers, Release(r) PROVE R!Next
    BY <2>4, ReleaseLetsGo DEF R!Next
  <2>5. ASSUME NEW r \in Receivers, Erase(r) PROVE R!Next
    BY <2>5, EraseDeletes
  <2>6. ASSUME NEW c \in Controllers, WriterDeletes(c) PROVE R!Next
    BY <2>6, WriterDeletionDeletes
  <2> QED
    BY <2>1, <2>2, <2>3, <2>4, <2>5, <2>6 DEF Next, Serve
<1> QED
  BY <1>1, <1>2, <1>3, <1>4, PTL DEF Spec, ImplementsRegistry, R!Spec
=============================================================================
