-------------------------- MODULE PluginListProofs --------------------------
(***************************************************************************)
(* What holds of the plugins in memory for any number of receivers and     *)
(* peers: as long as no two threads change the counters at once, a plugin  *)
(* is closed only when nobody will use it again, and what avahi-publish    *)
(* announces exists.                                                       *)
(***************************************************************************)
EXTENDS PluginList, FiniteSetTheorems, TLAPS

-----------------------------------------------------------------------------
(* Where threads are.                                                      *)

Checking == {"possible", "want", "test", "announce", "release"}

\* Where a thread is, or goes on to be after checkUnload.
Place(t) == IF back[t] # None THEN back[t] ELSE pc[t]

Later == {"start", "unpref", "end", "wait", "delServer"}
Serving == {"started", "onStarted", "accept", "accepted", "check", "leave", "onStopped", "endOfRun"}
Creating == {"unlock", "pref", "as", "new", "unas", "start"}

\* Every kind of thread has its places; main has others once it stops the servers.
PlacesOf(t) ==
    IF t \in Receivers THEN {"absent", "dropPeer", "delServer", "unpref", "end"} \cup Serving
    ELSE IF t \in Peers THEN {"absent", "run", "delPeer", "end"}
    ELSE IF stopping THEN {"unregister", "forget", "wait", "exit"}
    ELSE {"events", "add", "unasFailed", "unpref", "end"} \cup Creating

InPlace(t) ==
    \/ back[t] = None /\ pc[t] \in PlacesOf(t)
    \/ back[t] \in Later \cap PlacesOf(t) /\ pc[t] \in Checking

Where ==
    /\ pc \in [Threads -> Labels]
    /\ back \in [Threads -> Later \cup {None}]
    /\ \A t \in Threads : InPlace(t)

\* What main constructs and what a receiver has accepted does not run yet, and is in
\* the hands of one thread.
Holding == {"accepted", "check"}
MayHold == Holding \cup {"leave", "onStopped", "endOfRun"}

ItemOf(r) ==
    /\ item[r] # None => item[r] \in Peers /\ pc[item[r]] = "absent"
    /\ Place(r) \in Holding => item[r] # None
    /\ Place(r) \notin MayHold => item[r] = None

Items ==
    /\ item \in [Threads -> Receivers \cup Peers \cup {None}]
    /\ Place("main") \in Creating =>
           item["main"] \in Receivers /\ pc[item["main"]] = "absent"
    /\ \A r \in Receivers : ItemOf(r)
    /\ \A q, r \in Receivers : item[q] = item[r] /\ item[r] # None => q = r

\* A handler runs with the sink's mutex held, while it is registered.
Handlers ==
    /\ \A r \in Receivers : pc[r] \in {"onStarted", "onStopped"} => sink = r /\ registered
    /\ stopping /\ Place("main") # "unregister" => ~registered
    /\ pc["main"] = "events" => ~registered /\ published = {}

\* What is announced has its server.
Announced == registered => \A r \in published : r \in Receivers /\ pc[r] \in HasServer

PlaceInv == Alive => Where /\ Items /\ Handlers /\ Announced

-----------------------------------------------------------------------------
(* The counters.                                                           *)

\* Places with a reference to "T", with a second one, and with an instance of it;
\* a receiver has another instance while it holds the peer it has accepted.
Referring == Serving \cup {"as", "new", "unas", "unasFailed", "start", "unpref", "dropPeer", "delServer"}
Asking == {"new", "unas", "unasFailed"}
Running == Serving \cup {"unas", "start", "dropPeer", "delServer", "run", "delPeer"}
HasPeer(t) ==
    \/ Place(t) \in {"check", "dropPeer"}
    \/ Place(t) \in {"leave", "onStopped", "endOfRun"} /\ item[t] # None

RefA == {t \in Threads : Place(t) \in Referring}
RefB == {t \in Threads : Place(t) \in Asking}
InstA == {t \in Threads : Place(t) \in Running}
InstB == {t \in Threads : HasPeer(t)}

Balance ==
    /\ refCnt \in [Plugins -> Int]
    /\ refCnt["T"] = Cardinality(RefA) + Cardinality(RefB)
    /\ count = Cardinality(InstA) + Cardinality(InstB)

Refs == {"pref", "as", "unas", "unasFailed", "unpref", "forget"}
Counts == {"new", "accepted", "dropPeer", "delServer", "delPeer"}

\* What a thread has read is still what the counter says.
FreshAt(t) ==
    reg[t] # None =>
        /\ pc[t] \in Refs \cup Counts
        /\ Uses(t) = "T" => reg[t] = IF pc[t] \in Refs THEN refCnt["T"] ELSE count

Fresh == reg \in [Threads -> Int \cup {None}] /\ \A t \in Threads : FreshAt(t)

NoRace == \A u, v \in Threads : u # v => ~(Accounting(u) /\ Accounting(v))

CountInv == ~raced => pulled = {} /\ NoRace /\ (Alive => Balance /\ Fresh)

-----------------------------------------------------------------------------
(* Steps.                                                                  *)

\* Accounts, as what is needed of each of its lines.
LEMMA AccountTable ==
    ASSUME NEW a \in Accounts
    PROVE  \/ a.from = "pref" /\ a.ctr = "ref" /\ a.by = 1 /\ a.to = "as"
           \/ a.from = "as" /\ a.ctr = "ref" /\ a.by = 1 /\ a.to = "new"
           \/ a.from = "new" /\ a.ctr = "count" /\ a.by = 1 /\ a.to = "unas"
           \/ a.from = "unas" /\ a.ctr = "ref" /\ a.by = -1 /\ a.to = "start"
           \/ a.from = "unasFailed" /\ a.ctr = "ref" /\ a.by = -1 /\ a.to = "unpref"
           \/ a.from = "unpref" /\ a.ctr = "ref" /\ a.by = -1 /\ a.to = "end"
           \/ a.from = "forget" /\ a.ctr = "ref" /\ a.by = -1 /\ a.to = "wait"
           \/ a.from = "accepted" /\ a.ctr = "count" /\ a.by = 1 /\ a.to = "check"
           \/ a.from = "dropPeer" /\ a.ctr = "count" /\ a.by = -1 /\ a.to = "delServer"
           \/ a.from = "delServer" /\ a.ctr = "count" /\ a.by = -1 /\ a.to = "unpref"
           \/ a.from = "delPeer" /\ a.ctr = "count" /\ a.by = -1 /\ a.to = "end"
BY DEF Accounts

\* At the start everybody is in its place and nothing is counted.
LEMMA InitPlaces == Init => PlaceInv
<1> SUFFICES ASSUME Init PROVE Where /\ Items /\ Handlers /\ Announced
  BY DEF PlaceInv
<1> USE PluginThreadsOK DEF Init, Threads, Labels, UsesT
<1>1. Where
  BY DEF Where, InPlace, PlacesOf
<1>2. Items
  BY DEF Items, ItemOf, Holding, MayHold, Place, Creating
<1>3. Handlers
  BY DEF Handlers, Place
<1>4. Announced
  BY DEF Announced
<1> QED
  BY <1>1, <1>2, <1>3, <1>4

\* No kind of thread has a place inside checkUnload.
LEMMA PlacesAreLabels ==
    ASSUME NEW t \in Threads
    PROVE  PlacesOf(t) \subseteq Labels \ (Checking \cup {"terminated"})
BY DEF PlacesOf, Labels, UsesT, Serving, Creating, Checking

\* A step of one thread keeps everybody in place if it keeps that one.
LEMMA OneMoves ==
    ASSUME Where, NEW t \in Threads, NEW l, NEW b,
           pc' = [pc EXCEPT ![t] = l], back' = [back EXCEPT ![t] = b], stopping' = stopping,
           \/ b = None /\ l \in PlacesOf(t)
           \/ b \in Later \cap PlacesOf(t) /\ l \in Checking
    PROVE  Where'
<1>1. l \in Labels
  BY PlacesAreLabels DEF Checking, Labels, UsesT
<1>2. pc' \in [Threads -> Labels] /\ back' \in [Threads -> Later \cup {None}]
  BY <1>1 DEF Where
<1>3. ASSUME NEW u \in Threads PROVE InPlace(u)'
  BY DEF Where, InPlace, PlacesOf
<1> QED
  BY <1>2, <1>3 DEF Where

LEMMA OneGoes ==
    ASSUME Where, NEW t \in Threads, NEW l, Goes(t, l), UNCHANGED <<back, stopping>>,
           \/ pc[t] \in PlacesOf(t) /\ l \in PlacesOf(t)
           \/ pc[t] \in Checking /\ l \in Checking
    PROVE  Where'
<1>1. back' = [back EXCEPT ![t] = back[t]]
  BY DEF Where
<1>2. InPlace(t) /\ pc' = [pc EXCEPT ![t] = l]
  BY DEF Where, Goes
<1> QED
  BY <1>1, <1>2, PlacesAreLabels, OneMoves DEF InPlace

\* Where an account leads is a place of the same threads.
LEMMA AccountPlaces ==
    ASSUME NEW t \in Threads, NEW a \in Accounts, a.from \in PlacesOf(t)
    PROVE  a.to \in PlacesOf(t) /\ (a.by = -1 => a.to \in Later)
BY AccountTable DEF PlacesOf, Serving, Creating, Later

\* A step of main takes every thread to one of its places.
LEMMA WhereMain ==
    ASSUME Alive, Where, Items, Main
    PROVE  Where'
<1> USE PluginThreadsOK DEF Alive, At
<1>0. "main" \in Threads /\ InPlace("main")
  BY DEF Threads, Where
<1> DEFINE P(l) == l \in PlacesOf("main")
<1>p. ASSUME NEW l, l \in {"events", "add", "unlock", "new", "start", "end"}, pc["main"] = l
      PROVE  P("add") /\ P("unlock") /\ P("pref") /\ P("unasFailed") /\ P(l) /\ ~stopping
  BY <1>0, <1>p DEF InPlace, PlacesOf, Checking, Creating
<1>1. ASSUME LoadEvents PROVE Where'
  BY <1>0, <1>1, <1>p, OneGoes DEF LoadEvents
<1>2. ASSUME NEW p \in Plugins, LoadFails(p) PROVE Where'
  BY <1>0, <1>2, <1>p, OneGoes DEF LoadFails
<1>3. ASSUME NEW r \in Receivers, Look(r) PROVE Where'
  BY <1>0, <1>3, <1>p, OneGoes DEF Look
<1>4. ASSUME Found PROVE Where'
  BY <1>0, <1>4, <1>p, OneGoes DEF Found
<1>5. ASSUME NewServerFails PROVE Where'
  BY <1>0, <1>5, <1>p, OneGoes DEF NewServerFails
<1>6. ASSUME StartReceiver PROVE Where'
  <2>1. item["main"] \in Receivers /\ pc[item["main"]] = "absent" /\ pc["main"] = "start"
    BY <1>0, <1>6, <1>p DEF StartReceiver, Items, Place, InPlace, Creating, Checking, Later
  <2>2. pc' \in [Threads -> Labels]
    BY <1>6, <2>1 DEF StartReceiver, Where, Threads, Labels, UsesT
  <2>3. ASSUME NEW t \in Threads PROVE InPlace(t)'
    BY <1>0, <1>6, <1>p, <2>1 DEF StartReceiver, Where, InPlace, PlacesOf, Serving, Checking
  <2> QED
    BY <1>6, <2>2, <2>3 DEF StartReceiver, Where
<1>7. ASSUME NextServer PROVE Where'
  BY <1>0, <1>7, <1>p, OneGoes DEF NextServer
<1>8. ASSUME StopServers PROVE Where'
  <2>1. pc' \in [Threads -> Labels]
    BY <1>8 DEF StopServers, Goes, Where, Labels
  <2>2. ASSUME NEW t \in Threads PROVE InPlace(t)'
    BY <1>0, <1>8, <1>p DEF StopServers, Goes, Where, InPlace, PlacesOf, Threads, Checking
  <2> QED
    BY <1>8, <2>1, <2>2 DEF StopServers, Where
<1>9. ASSUME Unregister PROVE Where'
  BY <1>0, <1>9, OneGoes DEF Unregister, InPlace, PlacesOf, Checking, Creating
<1>10. ASSUME Exit PROVE Where'
  BY <1>0, <1>10, OneGoes DEF Exit, InPlace, PlacesOf, Checking, Creating
<1> QED
  BY <1>1, <1>2, <1>3, <1>4, <1>5, <1>6, <1>7, <1>8, <1>9, <1>10 DEF Main

\* A step of checkUnload, or to it, takes the thread to one of its places.
LEMMA WhereAccount ==
    ASSUME Alive, Where, NEW t \in Threads, Account(t)
    PROVE  Where'
<1> USE PluginThreadsOK DEF Alive, At
<1>0. InPlace(t)
  BY DEF Where
<1>c. PlacesOf(t) \cap Checking = {}
  BY PlacesAreLabels
<1>1. ASSUME NEW a \in Accounts, ReadCounter(t, a) PROVE Where'
  BY <1>1 DEF ReadCounter, Where, InPlace, PlacesOf
<1>2. ASSUME NEW a \in Accounts, WriteCounter(t, a) PROVE Where'
  <2>1. a.from \in PlacesOf(t) /\ pc[t] = a.from
    <3>1. a.from \notin Checking
      BY AccountTable DEF Checking
    <3> QED
      BY <1>0, <1>2, <3>1 DEF WriteCounter, InPlace
  <2>2. CASE AsksForUnload(a, reg[t] + a.by)
    <3>1. a.to \in Later \cap PlacesOf(t)
      BY <2>1, <2>2, AccountPlaces DEF AsksForUnload
    <3>2. pc' = [pc EXCEPT ![t] = "possible"] /\ back' = [back EXCEPT ![t] = a.to]
      BY <1>2, <2>2 DEF WriteCounter, Goes
    <3> QED
      BY <1>2, <3>1, <3>2, OneMoves DEF WriteCounter, Checking
  <2>3. CASE ~AsksForUnload(a, reg[t] + a.by)
    <3>1. Goes(t, a.to) /\ a.to \in PlacesOf(t)
      BY <1>2, <2>1, <2>3, AccountPlaces DEF WriteCounter
    <3> QED
      BY <1>2, <2>1, <2>3, <3>1, OneGoes DEF WriteCounter
  <2> QED
    BY <2>2, <2>3
<1>3. ASSUME AskPossible(t) PROVE Where'
  <2>1. pc[t] \in Checking /\ back[t] \in Later \cap PlacesOf(t)
    BY <1>0, <1>3, <1>c DEF AskPossible, InPlace, Checking
  <2>2. CASE UnloadPossible(Uses(t))
    BY <1>3, <2>1, <2>2, OneGoes DEF AskPossible, Checking, Where
  <2>3. CASE ~UnloadPossible(Uses(t))
    <3>1. pc' = [pc EXCEPT ![t] = back[t]] /\ back' = [back EXCEPT ![t] = None]
      BY <1>3, <2>3 DEF AskPossible, Goes
    <3> QED
      BY <1>3, <2>1, <3>1, OneMoves DEF AskPossible
  <2> QED
    BY <2>2, <2>3
<1>4. ASSUME LockList(t) PROVE Where'
  BY <1>4, OneGoes DEF LockList, Checking
<1>5. ASSUME Erase(t) PROVE Where'
  BY <1>5, OneGoes DEF Erase, Checking
<1>6. ASSUME AnnounceUnload(t) PROVE Where'
  BY <1>6, OneGoes DEF AnnounceUnload, Checking
<1>7. ASSUME ReleaseList(t) PROVE Where'
  <2>1. back[t] \in PlacesOf(t)
    BY <1>0, <1>7, <1>c DEF ReleaseList, InPlace, Checking
  <2>2. pc' = [pc EXCEPT ![t] = back[t]] /\ back' = [back EXCEPT ![t] = None]
    BY <1>7 DEF ReleaseList, Goes
  <2> QED
    BY <1>7, <2>1, <2>2, OneMoves DEF ReleaseList
<1> QED
  BY <1>1, <1>2, <1>3, <1>4, <1>5, <1>6, <1>7 DEF Account

\* So does a step of a receiver or a peer.
LEMMA WhereServe ==
    ASSUME Alive, Alive', Where, Items, NEW t \in Receivers \cup Peers,
           \/ t \in Receivers /\ Receive(t)
           \/ t \in Peers /\ Disconnect(t)
    PROVE  Where'
<1> USE PluginThreadsOK DEF Alive, At
<1>0. t \in Threads /\ InPlace(t)
  BY DEF Where, Threads
<1>p. ASSUME NEW l \in Serving, t \in Receivers, pc[t] = l 
      PROVE  Serving \cup {"dropPeer", "delServer"} \subseteq PlacesOf(t)
  BY <1>p DEF PlacesOf
<1>1. ASSUME Broadcast(t), t \in Receivers PROVE Where'
  BY <1>0, <1>1, <1>p, OneGoes DEF Broadcast, Serving
<1>2. ASSUME OnStarted(t), t \in Receivers PROVE Where'
  BY <1>0, <1>2, <1>p, OneGoes DEF OnStarted, Serving
<1>3. ASSUME OnStopped(t), t \in Receivers PROVE Where'
  BY <1>0, <1>3, <1>p, OneGoes DEF OnStopped, Serving
<1>4. ASSUME StopThrows(t) PROVE Where'
  BY <1>4 DEF StopThrows, Goes, Where, Threads
<1>5. ASSUME EndOfRun(t), t \in Receivers PROVE Where'
  BY <1>0, <1>5, <1>p, OneGoes DEF EndOfRun, Serving
<1>6. ASSUME AcceptEnds(t), t \in Receivers PROVE Where'
  BY <1>0, <1>6, <1>p, OneGoes DEF AcceptEnds, Serving
<1>7. ASSUME CheckRunning(t), t \in Receivers PROVE Where'
  <2>1. CASE stopping
    BY <1>0, <1>7, <1>p, <2>1, OneGoes DEF CheckRunning, Serving
  <2>2. CASE ~stopping
    <3>1. item[t] \in Peers /\ pc[item[t]] = "absent" /\ pc[t] = "check"
      BY <1>0, <1>7, <2>2 DEF CheckRunning, Items, ItemOf, Holding, Place, InPlace, Checking
    <3>2. pc' = [pc EXCEPT ![t] = "accept", ![item[t]] = "run"]
      BY <1>7, <2>2 DEF CheckRunning
    <3>3. pc' \in [Threads -> Labels]
      BY <3>1, <3>2 DEF Where, Threads, Labels, UsesT
    <3>4. ASSUME NEW u \in Threads PROVE InPlace(u)'
      BY <1>0, <1>7, <3>1, <3>2 DEF CheckRunning, Where, InPlace, PlacesOf, Serving, Checking
    <3> QED
      BY <1>7, <3>3, <3>4 DEF CheckRunning, Where
  <2> QED
    BY <2>1, <2>2
<1>8. ASSUME NEW p \in Peers, Accept(t, p), t \in Receivers PROVE Where'
  BY <1>0, <1>8, <1>p, OneGoes DEF Accept, Serving
<1>9. ASSUME Disconnect(t), t \in Peers PROVE Where'
  BY <1>0, <1>9, OneGoes DEF Disconnect, PlacesOf
<1> QED
  BY <1>1, <1>2, <1>3, <1>4, <1>5, <1>6, <1>7, <1>8, <1>9 DEF Receive

-----------------------------------------------------------------------------
(* What is held, and the handlers.                                         *)

\* Nobody but t moves.
Others(t) == \A u \in Threads \ {t} : pc'[u] = pc[u] /\ back'[u] = back[u]

LEMMA GoesMoves ==
    ASSUME Where, NEW t \in Threads, NEW l, Goes(t, l), UNCHANGED back, pc[t] \notin Checking
    PROVE  Others(t) /\ Place(t) = pc[t] /\ Place(t)' = l /\ pc'[t] = l
BY DEF Where, InPlace, Goes, Others, Place

\* Inside checkUnload a thread's place is where it goes on afterwards.
LEMMA UnloadKeepsPlace ==
    ASSUME Where, NEW t \in Threads,
           AskPossible(t) \/ LockList(t) \/ Erase(t) \/ AnnounceUnload(t) \/ ReleaseList(t)
    PROVE  Others(t) /\ Place(t)' = Place(t) /\ pc[t] \in Checking
<1>1. pc[t] \in Checking
  BY DEF AskPossible, LockList, Erase, AnnounceUnload, ReleaseList, At, Checking
<1>2. back[t] # None /\ back[t] \in Later
  BY <1>1, PlacesAreLabels, PluginThreadsOK DEF Where, InPlace, Later, Labels, UsesT
<1>3. CASE LockList(t) \/ Erase(t) \/ AnnounceUnload(t)
  BY <1>1, <1>2, <1>3 DEF LockList, Erase, AnnounceUnload, Goes, Where, Others, Place
<1>4. CASE AskPossible(t)
  BY <1>1, <1>2, <1>4 DEF AskPossible, Goes, Where, Others, Place
<1>5. CASE ReleaseList(t)
  BY <1>1, <1>2, <1>5 DEF ReleaseList, Goes, Where, Others, Place
<1> QED
  BY <1>3, <1>4, <1>5

\* An account takes a thread from one place to the other, through checkUnload or not.
LEMMA AccountMoves ==
    ASSUME Where, NEW t \in Threads, NEW a \in Accounts, WriteCounter(t, a)
    PROVE  Others(t) /\ Place(t) = a.from /\ Place(t)' = a.to /\ pc[t] = a.from
<1>1. pc[t] = a.from /\ back[t] = None
  <2>1. a.from \notin Checking
    BY AccountTable DEF Checking
  <2> QED
    BY <2>1 DEF WriteCounter, At, Where, InPlace
<1>2. a.to # None
  BY AccountTable, PluginThreadsOK DEF Labels, UsesT
<1>3. CASE AsksForUnload(a, reg[t] + a.by)
  BY <1>1, <1>2, <1>3 DEF WriteCounter, Goes, Where, Others, Place
<1>4. CASE ~AsksForUnload(a, reg[t] + a.by)
  BY <1>1, <1>2, <1>4 DEF WriteCounter, Goes, Where, Others, Place
<1> QED
  BY <1>3, <1>4

\* A step that leaves item alone keeps what is held, if the thread's new place allows it.
LEMMA ItemsKept ==
    ASSUME Items, NEW t \in Threads, Others(t), UNCHANGED item, pc[t] # "absent",
           t = "main" /\ Place(t)' \in Creating => Place(t) \in Creating,
           Place(t)' \in Holding => Place(t) \in Holding,
           Place(t) \in MayHold => Place(t)' \in MayHold
    PROVE  Items'
<1> USE PluginThreadsOK DEF Threads
<1>1. \A u \in Threads \ {t} : pc'[u] = pc[u] /\ Place(u)' = Place(u)
  BY DEF Others, Place
<1>2. (Place("main") \in Creating =>
           item["main"] \in Receivers /\ pc[item["main"]] = "absent")'
  BY <1>1 DEF Items
<1>3. ASSUME NEW r \in Receivers PROVE ItemOf(r)'
  BY <1>1 DEF Items, ItemOf
<1> QED
  BY <1>2, <1>3 DEF Items

\* No step loses hold of what does not run yet, or takes what another holds.
LEMMA ItemsMain ==
    ASSUME Alive, Where, Items, Main
    PROVE  Items'
<1> USE PluginThreadsOK DEF Alive, At
<1>0. "main" \in Threads /\ InPlace("main")
  BY DEF Threads, Where
<1> DEFINE Still == {"events", "add", "unlock", "new", "end", "unregister", "wait"}
<1>i. Still \cap (Checking \cup Holding \cup MayHold) = {} /\ "absent" \notin Still
  BY DEF Checking, Holding, MayHold
<1>m. ASSUME NEW l, NEW m, pc["main"] = l, l \in Still, Goes("main", m), UNCHANGED <<back, item>>,
             m \notin Holding, m \in Creating => l \in Creating
      PROVE  Items'
  <2>1. Others("main") /\ Place("main") = l /\ Place("main")' = m
    BY <1>0, <1>i, <1>m, GoesMoves
  <2> QED
    BY <1>0, <1>i, <1>m, <2>1, ItemsKept
<1>1. ASSUME LoadEvents PROVE Items'
  BY <1>1, <1>m DEF LoadEvents, Creating, Holding
<1>2. ASSUME NEW p \in Plugins, LoadFails(p) PROVE Items'
  BY <1>2, <1>m DEF LoadFails, Creating, Holding
<1>3. ASSUME NEW r \in Receivers, Look(r) PROVE Items'
  <2>1. Others("main") /\ Place("main")' = "unlock" /\ UNCHANGED back
    BY <1>0, <1>3, GoesMoves DEF Look, Checking
  <2>2. item' = [item EXCEPT !["main"] = r] /\ pc[r] = "absent" /\ pc'[r] = "absent"
    BY <1>3, <2>1 DEF Look, Others, Threads
  <2>3. \A u \in Receivers \cup Peers : pc'[u] = pc[u] /\ Place(u)' = Place(u) /\ item'[u] = item[u]
    BY <2>1, <2>2 DEF Others, Place, Threads, Items
  <2>4. ASSUME NEW q \in Receivers PROVE ItemOf(q)'
    BY <2>3 DEF Items, ItemOf
  <2> QED
    BY <2>1, <2>2, <2>3, <2>4 DEF Items, Threads
<1>4. ASSUME Found PROVE Items'
  BY <1>4, <1>m DEF Found, Creating, Holding
<1>5. ASSUME NewServerFails PROVE Items'
  BY <1>5, <1>m DEF NewServerFails, Creating, Holding
<1>6. ASSUME StartReceiver PROVE Items'
  <2>1. PICK r \in Receivers : back["main"] = None /\ item["main"] = r /\ pc[r] = "absent"
    BY <1>0, <1>6 DEF StartReceiver, Items, Place, InPlace, Creating, Checking, Later
  <2>2. pc' = [pc EXCEPT !["main"] = "add", ![r] = "started"]
    BY <1>6, <2>1 DEF StartReceiver
  <2>3. Place("main")' = "add" /\ \A u \in Receivers \cup Peers : item'[u] = item[u]
    BY <1>6, <2>1, <2>2 DEF StartReceiver, Place, Where, Threads, Items
  <2>4. \A u \in Receivers \cup Peers : u # r => pc'[u] = pc[u] /\ Place(u)' = Place(u)
    BY <1>6, <2>1, <2>2 DEF StartReceiver, Place, Where, Threads
  <2>5. Place(r)' = "started" /\ Place(r) = "absent"
    <3>1. back[r] = None
      BY <2>1 DEF Where, InPlace, Checking, Threads
    <3> QED
      BY <1>6, <2>1, <2>2, <3>1 DEF StartReceiver, Place, Where, Threads
  <2>6. ASSUME NEW q \in Receivers PROVE ItemOf(q)'
    BY <2>1, <2>3, <2>4, <2>5 DEF Items, ItemOf, Holding, MayHold
  <2>7. item' = [item EXCEPT !["main"] = None]
    BY <1>6 DEF StartReceiver
  <2> QED
    BY <2>3, <2>6, <2>7 DEF Items, Threads, Creating
<1>7. ASSUME NextServer PROVE Items'
  <2>1. Others("main") /\ Place("main")' = "add" /\ item' = [item EXCEPT !["main"] = None]
    BY <1>0, <1>7, GoesMoves DEF NextServer, Checking
  <2>2. \A u \in Receivers \cup Peers : pc'[u] = pc[u] /\ Place(u)' = Place(u) /\ item'[u] = item[u]
    BY <2>1 DEF Others, Place, Threads, Items
  <2>3. ASSUME NEW q \in Receivers PROVE ItemOf(q)'
    BY <2>2 DEF Items, ItemOf
  <2> QED
    BY <2>1, <2>2, <2>3 DEF Items, Threads, Creating
<1>8. ASSUME StopServers PROVE Items'
  BY <1>8, <1>m DEF StopServers, Creating, Holding
<1>9. ASSUME Unregister PROVE Items'
  BY <1>9, <1>m DEF Unregister, Creating, Holding
<1>10. ASSUME Exit PROVE Items'
  BY <1>10, <1>m DEF Exit, Creating, Holding
<1> QED
  BY <1>1, <1>2, <1>3, <1>4, <1>5, <1>6, <1>7, <1>8, <1>9, <1>10 DEF Main

LEMMA ItemsAccount ==
    ASSUME Alive, Where, Items, NEW t \in Threads, Account(t)
    PROVE  Items'
<1>1. ASSUME NEW a \in Accounts, ReadCounter(t, a) PROVE Items'
  BY <1>1 DEF ReadCounter, Items, ItemOf, Place
<1>2. ASSUME NEW a \in Accounts, WriteCounter(t, a) PROVE Items'
  <2>1. Others(t) /\ Place(t) = a.from /\ Place(t)' = a.to /\ pc[t] = a.from /\ UNCHANGED item
    BY <1>2, AccountMoves DEF WriteCounter
  <2>2. /\ a.from # "absent"
        /\ a.to \in Creating => a.from \in Creating
        /\ a.to \in Holding => a.from \in MayHold
        /\ a.from \in MayHold => a.to \in MayHold
    BY AccountTable DEF Creating, Holding, MayHold
  <2>3. a.to \in Holding => a.from \in Holding
    BY AccountTable DEF Holding
  <2> QED
    BY <2>1, <2>2, <2>3, ItemsKept
<1>3. ASSUME AskPossible(t) \/ LockList(t) \/ Erase(t) \/ AnnounceUnload(t) \/ ReleaseList(t)
      PROVE  Items'
  <2>1. UNCHANGED item /\ pc[t] # "absent"
    BY <1>3, UnloadKeepsPlace DEF AskPossible, LockList, Erase, AnnounceUnload, ReleaseList, Checking
  <2> QED
    BY <1>3, <2>1, UnloadKeepsPlace, ItemsKept
<1> QED
  BY <1>1, <1>2, <1>3 DEF Account

LEMMA ItemsServe ==
    ASSUME Alive, Alive', Where, Items, NEW t \in Receivers \cup Peers,
           \/ t \in Receivers /\ Receive(t)
           \/ t \in Peers /\ Disconnect(t)
    PROVE  Items'
<1> USE PluginThreadsOK DEF Alive, At
<1>0. t \in Threads /\ t # "main"
  BY DEF Threads
<1> DEFINE Stay == {"started", "onStarted", "accept", "leave", "onStopped", "run"}
<1>i. /\ Stay \cap (Checking \cup Holding) = {} /\ "absent" \notin Stay
      /\ "check" \notin Checking /\ "endOfRun" \notin Checking
  BY DEF Checking, Holding
<1>m. ASSUME NEW m, pc[t] \in Stay, Goes(t, m), UNCHANGED <<back, item>>,
             m \notin Holding, pc[t] \in MayHold => m \in MayHold
      PROVE  Items'
  <2>1. Others(t) /\ Place(t) = pc[t] /\ Place(t)' = m
    BY <1>0, <1>i, <1>m, GoesMoves
  <2> QED
    BY <1>0, <1>i, <1>m, <2>1, ItemsKept
<1>1. ASSUME Broadcast(t), t \in Receivers PROVE Items'
  BY <1>1, <1>m DEF Broadcast, Holding, MayHold
<1>2. ASSUME OnStarted(t), t \in Receivers PROVE Items'
  BY <1>2, <1>m DEF OnStarted, Holding, MayHold
<1>3. ASSUME OnStopped(t), t \in Receivers PROVE Items'
  BY <1>3, <1>m DEF OnStopped, Holding, MayHold
<1>4. ASSUME StopThrows(t) PROVE Items'
  BY <1>4 DEF StopThrows, Goes, Where, Threads
<1>5. ASSUME EndOfRun(t), t \in Receivers PROVE Items'
  <2>1. Others(t) /\ Place(t)' \in {"delServer", "dropPeer"} /\ pc[t] = "endOfRun"
    BY <1>0, <1>5, <1>i, GoesMoves DEF EndOfRun
  <2>2. item' = [item EXCEPT ![t] = None]
    BY <1>5 DEF EndOfRun
  <2>3. \A u \in Threads \ {t} : pc'[u] = pc[u] /\ Place(u)' = Place(u) /\ item'[u] = item[u]
    BY <2>1, <2>2 DEF Others, Place, Items
  <2>4. ASSUME NEW q \in Receivers PROVE ItemOf(q)'
    <3>1. CASE q = t
      BY <1>0, <2>1, <2>2, <3>1 DEF Items, ItemOf, Holding
    <3>2. CASE q # t
      <4>1. item[q] # t
        BY <1>5, <2>1, <3>2 DEF Items, ItemOf
      <4>2. Place(q)' = Place(q) /\ item'[q] = item[q]
        BY <2>3, <3>2 DEF Threads
      <4>3. item[q] # None => item[q] \in Peers /\ pc'[item[q]] = pc[item[q]]
        BY <2>3, <4>1 DEF Items, ItemOf, Threads
      <4>4. ItemOf(q)
        BY DEF Items
      <4> QED
        BY <4>2, <4>3, <4>4 DEF ItemOf
    <3> QED
      BY <3>1, <3>2
  <2>5. (Place("main") \in Creating =>
             item["main"] \in Receivers /\ pc[item["main"]] = "absent")'
    BY <1>0, <2>1, <2>3 DEF Items, Threads
  <2> QED
    BY <2>2, <2>3, <2>4, <2>5 DEF Items, Threads
<1>6. ASSUME AcceptEnds(t), t \in Receivers PROVE Items'
  BY <1>6, <1>m DEF AcceptEnds, Holding, MayHold
<1>7. ASSUME CheckRunning(t), t \in Receivers PROVE Items'
  <2>1. CASE stopping
    <3>1. Others(t) /\ Place(t) = "check" /\ Place(t)' = "leave" /\ pc[t] = "check"
      BY <1>0, <1>7, <2>1, <1>i, GoesMoves DEF CheckRunning
    <3> QED
      BY <1>0, <1>7, <2>1, <3>1, ItemsKept DEF CheckRunning, Holding, MayHold
  <2>2. CASE ~stopping
    <3>1. /\ pc[t] = "check" /\ UNCHANGED back /\ item' = [item EXCEPT ![t] = None]
          /\ pc' = [pc EXCEPT ![t] = "accept", ![item[t]] = "run"]
      BY <1>7, <2>2 DEF CheckRunning
    <3>2. Place(t) = "check" /\ back[t] = None
      BY <1>0, <1>i, <3>1 DEF Where, InPlace, Place
    <3>3. PICK p \in Peers : item[t] = p /\ pc[p] = "absent" /\ p # t
      BY <1>7, <3>1, <3>2 DEF Items, ItemOf, Holding
    <3>4. Place(t)' = "accept" /\ pc'[t] = "accept"
      BY <1>0, <3>1, <3>2, <3>3 DEF Place, Where
    <3>5. \A u \in Threads \ {t, p} : pc'[u] = pc[u] /\ Place(u)' = Place(u) /\ item'[u] = item[u]
      BY <3>1, <3>3 DEF Place, Where, Items
    <3>6. ASSUME NEW q \in Receivers PROVE ItemOf(q)'
      <4>1. CASE q = t
        BY <1>0, <3>1, <3>4, <4>1 DEF Items, ItemOf, Holding
      <4>2. CASE q # t
        <5>1. item[q] # t /\ item[q] # p /\ q # p
          BY <1>7, <3>1, <3>3, <4>2 DEF Items, ItemOf
        <5>2. Place(q)' = Place(q) /\ item'[q] = item[q]
          BY <3>5, <4>2, <5>1 DEF Threads
        <5>3. item[q] # None => pc'[item[q]] = pc[item[q]] /\ item[q] \in Peers
          BY <3>5, <5>1 DEF Items, ItemOf, Threads
        <5>4. ItemOf(q)
          BY DEF Items
        <5> QED
          BY <5>2, <5>3, <5>4 DEF ItemOf
      <4> QED
        BY <4>1, <4>2
    <3>7. (Place("main") \in Creating =>
               item["main"] \in Receivers /\ pc[item["main"]] = "absent")'
      BY <1>0, <1>7, <3>1, <3>3, <3>5 DEF Items, Threads
    <3>8. item' \in [Threads -> Receivers \cup Peers \cup {None}]
      BY <3>1 DEF Items
    <3>9. (\A q, r \in Receivers : item[q] = item[r] /\ item[r] # None => q = r)'
      BY <1>0, <3>1 DEF Items, Threads
    <3> QED
      BY <3>6, <3>7, <3>8, <3>9 DEF Items
  <2> QED
    BY <2>1, <2>2
<1>8. ASSUME NEW p \in Peers, Accept(t, p), t \in Receivers PROVE Items'
  <2>1. Others(t) /\ Place(t)' = "accepted" /\ pc[t] = "accept"
    BY <1>0, <1>8, <1>i, GoesMoves DEF Accept
  <2>2. /\ item' = [item EXCEPT ![t] = p] /\ pc[p] = "absent" /\ pc'[p] = "absent" /\ p # t
        /\ \A q \in Receivers : item[q] # p
    BY <1>8, <2>1 DEF Accept, Others, Threads
  <2>3. \A u \in Threads \ {t} : pc'[u] = pc[u] /\ Place(u)' = Place(u) /\ item'[u] = item[u]
    BY <2>1, <2>2 DEF Others, Place, Items
  <2>4. ASSUME NEW q \in Receivers PROVE ItemOf(q)'
    <3>1. CASE q = t
      BY <1>0, <2>1, <2>2, <3>1 DEF Items, ItemOf, MayHold, Holding
    <3>2. CASE q # t
      <4>1. item[q] # t
        BY <2>1, <3>2 DEF Items, ItemOf
      <4>2. Place(q)' = Place(q) /\ item'[q] = item[q]
        BY <2>3, <3>2 DEF Threads
      <4>3. item[q] # None => item[q] \in Peers /\ pc'[item[q]] = pc[item[q]]
        BY <2>3, <4>1 DEF Items, ItemOf, Threads
      <4>4. ItemOf(q)
        BY DEF Items
      <4> QED
        BY <4>2, <4>3, <4>4 DEF ItemOf
    <3> QED
      BY <3>1, <3>2
  <2>5. (Place("main") \in Creating =>
             item["main"] \in Receivers /\ pc[item["main"]] = "absent")'
    BY <1>0, <2>1, <2>3 DEF Items, Threads
  <2> QED
    BY <2>2, <2>3, <2>4, <2>5 DEF Items, Threads
<1>9. ASSUME Disconnect(t), t \in Peers PROVE Items'
  <2>1. Goes(t, "delPeer") /\ pc[t] = "run" /\ UNCHANGED <<back, item>>
    BY <1>9 DEF Disconnect
  <2> QED
    BY <2>1, <1>m DEF Holding, MayHold
<1> QED
  BY <1>1, <1>2, <1>3, <1>4, <1>5, <1>6, <1>7, <1>8, <1>9 DEF Receive

\* A step of t that does not touch the sink keeps the handlers and what they announced.
LEMMA HandlersKept ==
    ASSUME Handlers, Announced, NEW t \in Threads, Others(t), UNCHANGED <<sink, registered, stopping>>,
           pc'[t] \notin {"onStarted", "onStopped", "events"}, Place(t) # "unregister",
           published' \subseteq published, pc[t] \in HasServer => pc'[t] \in HasServer
    PROVE  Handlers' /\ Announced'
<1> USE PluginThreadsOK DEF Threads
<1>1. \A u \in Threads \ {t} : pc'[u] = pc[u] /\ Place(u)' = Place(u)
  BY DEF Others, Place
<1>2. Handlers'
  <2>1. (\A r \in Receivers : pc[r] \in {"onStarted", "onStopped"} => sink = r /\ registered)'
    BY <1>1 DEF Handlers
  <2>2. (stopping /\ Place("main") # "unregister" => ~registered)'
    BY <1>1 DEF Handlers
  <2>3. (pc["main"] = "events" => ~registered /\ published = {})'
    BY <1>1 DEF Handlers
  <2> QED
    BY <2>1, <2>2, <2>3 DEF Handlers
<1>3. Announced'
  BY <1>1 DEF Announced
<1> QED
  BY <1>2, <1>3

LEMMA HandlersMain ==
    ASSUME Alive, Where, Items, Handlers, Announced, Main
    PROVE  Handlers' /\ Announced'
<1> USE PluginThreadsOK DEF Alive, At, locks, events
<1>0. "main" \in Threads /\ InPlace("main")
  BY DEF Threads, Where
<1> DEFINE Still == {"events", "add", "unlock", "new", "end", "wait"}
<1>i. Still \cap (Checking \cup HasServer) = {} /\ "unregister" \notin Still
  BY DEF Checking, HasServer
<1>m. ASSUME NEW m, pc["main"] \in Still, Goes("main", m),
             UNCHANGED <<back, sink, registered, stopping, published>>,
             m \notin {"onStarted", "onStopped", "events"}
      PROVE  Handlers' /\ Announced'
  <2>1. Others("main") /\ Place("main") = pc["main"] /\ pc'["main"] = m
    BY <1>0, <1>i, <1>m, GoesMoves
  <2> QED
    BY <1>0, <1>i, <1>m, <2>1, HandlersKept
<1>s. ASSUME pc["main"] \in {"events", "add"} PROVE ~stopping
  BY <1>0, <1>s DEF InPlace, PlacesOf, Checking
<1>1. ASSUME LoadEvents PROVE Handlers' /\ Announced'
  <2>1. /\ pc' = [pc EXCEPT !["main"] = "add"] /\ ~registered /\ published = {} /\ ~stopping
        /\ UNCHANGED <<published, stopping>>
    BY <1>1, <1>s DEF LoadEvents, Handlers, Goes
  <2>2. \A r \in Receivers : pc'[r] = pc[r] /\ pc[r] \notin {"onStarted", "onStopped"}
    BY <2>1 DEF Handlers, Where, Threads
  <2>3. pc'["main"] = "add"
    BY <1>0, <2>1 DEF Where
  <2> QED
    BY <2>1, <2>2, <2>3 DEF Handlers, Announced
<1>2. ASSUME NEW p \in Plugins, LoadFails(p) PROVE Handlers' /\ Announced'
  BY <1>2, <1>m DEF LoadFails
<1>3. ASSUME NEW r \in Receivers, Look(r) PROVE Handlers' /\ Announced'
  BY <1>3, <1>m DEF Look
<1>4. ASSUME Found PROVE Handlers' /\ Announced'
  BY <1>4, <1>m DEF Found
<1>5. ASSUME NewServerFails PROVE Handlers' /\ Announced'
  BY <1>5, <1>m DEF NewServerFails
<1>6. ASSUME StartReceiver PROVE Handlers' /\ Announced'
  <2>1. PICK r \in Receivers : item["main"] = r /\ pc[r] = "absent"
    BY <1>0, <1>6 DEF StartReceiver, Items, Place, InPlace, Creating, Checking, Later
  <2>2. /\ pc' = [pc EXCEPT !["main"] = "add", ![r] = "started"] /\ pc'["main"] = "add"
        /\ UNCHANGED <<registered, sink, published, stopping>>
    BY <1>0, <1>6, <2>1 DEF StartReceiver, Where
  <2>3. ~stopping
    BY <1>0, <1>6 DEF StartReceiver, InPlace, PlacesOf, Checking
  <2>4. pc'[r] = "started" /\ \A q \in Receivers : q # r => pc'[q] = pc[q]
    BY <2>1, <2>2 DEF Where, Threads
  <2>5. Handlers'
    BY <2>2, <2>3, <2>4 DEF Handlers
  <2> QED
    BY <2>2, <2>4, <2>5 DEF Announced, HasServer
<1>7. ASSUME NextServer PROVE Handlers' /\ Announced'
  BY <1>7, <1>m DEF NextServer
<1>8. ASSUME StopServers PROVE Handlers' /\ Announced'
  <2>1. /\ pc["main"] = "add" /\ UNCHANGED <<back, registered, sink, published>>
        /\ Goes("main", IF registered THEN "unregister" ELSE "wait")
    BY <1>8 DEF StopServers
  <2>2. /\ Others("main") /\ Place("main")' = (IF registered THEN "unregister" ELSE "wait")
        /\ pc'["main"] = (IF registered THEN "unregister" ELSE "wait")
    BY <1>0, <1>i, <2>1, GoesMoves
  <2>3. \A r \in Receivers : pc'[r] = pc[r]
    BY <2>2 DEF Others, Threads
  <2> QED
    BY <2>1, <2>2, <2>3 DEF Handlers, Announced
<1>9. ASSUME Unregister PROVE Handlers' /\ Announced'
  <2>1. /\ pc["main"] = "unregister" /\ UNCHANGED <<back, sink>> /\ sink = "free"
        /\ Goes("main", "forget") /\ ~registered'
    BY <1>9 DEF Unregister
  <2>2. Others("main") /\ pc'["main"] = "forget"
    BY <1>0, <2>1, GoesMoves DEF Checking
  <2>3. \A r \in Receivers : pc'[r] = pc[r] /\ pc[r] \notin {"onStarted", "onStopped"}
    BY <2>1, <2>2 DEF Others, Threads, Handlers
  <2> QED
    BY <2>1, <2>2, <2>3 DEF Handlers, Announced
<1>10. ASSUME Exit PROVE Handlers' /\ Announced'
  BY <1>10, <1>m DEF Exit
<1> QED
  BY <1>1, <1>2, <1>3, <1>4, <1>5, <1>6, <1>7, <1>8, <1>9, <1>10 DEF Main

LEMMA HandlersAccount ==
    ASSUME Alive, Where, Handlers, Announced, NEW t \in Threads, Account(t)
    PROVE  Handlers' /\ Announced'
<1> USE DEF locks, events
<1>1. ASSUME NEW a \in Accounts, ReadCounter(t, a) PROVE Handlers' /\ Announced'
  BY <1>1 DEF ReadCounter, Handlers, Announced, Place
<1>2. ASSUME NEW a \in Accounts, WriteCounter(t, a) PROVE Handlers' /\ Announced'
  <2>1. Others(t) /\ Place(t) = a.from /\ Place(t)' = a.to /\ pc[t] = a.from
    BY <1>2, AccountMoves
  <2>2. /\ UNCHANGED <<sink, registered, stopping, published>>
        /\ pc'[t] = IF AsksForUnload(a, reg[t] + a.by) THEN "possible" ELSE a.to
    BY <1>2 DEF WriteCounter, Goes, Where
  <2>3. /\ a.to \notin {"onStarted", "onStopped", "events"} /\ a.from # "unregister"
        /\ a.from \in HasServer => a.to \in HasServer /\ a.by # -1
    BY AccountTable DEF HasServer
  <2> QED
    BY <2>1, <2>2, <2>3, HandlersKept DEF AsksForUnload
<1>3. ASSUME AskPossible(t) \/ LockList(t) \/ Erase(t) \/ AnnounceUnload(t) \/ ReleaseList(t)
      PROVE  Handlers' /\ Announced'
  <2>1. Others(t) /\ Place(t)' = Place(t) /\ pc[t] \in Checking
    BY <1>3, UnloadKeepsPlace
  <2>2. back[t] \in Later /\ Place(t) = back[t]
    BY <2>1, PlacesAreLabels, PluginThreadsOK DEF Where, InPlace, Place, Later, Labels, UsesT
  <2>3. pc'[t] \in Checking \cup Later
    BY <1>3, <2>2 DEF AskPossible, LockList, Erase, AnnounceUnload, ReleaseList, Goes, Where, Checking
  <2>4. UNCHANGED <<sink, registered, stopping>> /\ published' \subseteq published
    BY <1>3 DEF AskPossible, LockList, Erase, AnnounceUnload, ReleaseList
  <2> QED
    BY <2>1, <2>2, <2>3, <2>4, HandlersKept DEF Checking, Later, HasServer
<1> QED
  BY <1>1, <1>2, <1>3 DEF Account

LEMMA HandlersServe ==
    ASSUME Alive, Alive', Where, Items, Handlers, Announced, NEW t \in Receivers \cup Peers,
           \/ t \in Receivers /\ Receive(t)
           \/ t \in Peers /\ Disconnect(t)
    PROVE  Handlers' /\ Announced'
<1> USE PluginThreadsOK DEF Alive, At, locks, events
<1>0. t \in Threads /\ t # "main"
  BY DEF Threads
<1>i. pc[t] \in Serving \cup {"run"} => pc[t] \notin Checking
  BY DEF Checking, Serving
<1>m. ASSUME NEW m, pc[t] \in Serving \cup {"run"}, Goes(t, m), UNCHANGED back
      PROVE  Others(t) /\ Place(t) = pc[t] /\ pc'[t] = m
  BY <1>0, <1>i, <1>m, GoesMoves
<1>1. ASSUME Broadcast(t), t \in Receivers PROVE Handlers' /\ Announced'
  <2>1. Others(t) /\ Place(t) = pc[t] /\ pc[t] \in {"started", "leave"}
    BY <1>1, <1>m DEF Broadcast, Serving
  <2>2. CASE registered
    <3>1. /\ sink = "free" /\ sink' = t /\ UNCHANGED <<registered, stopping, published>>
          /\ pc'[t] \in {"onStarted", "onStopped"}
      BY <1>1, <1>m, <2>2 DEF Broadcast, Serving
    <3>2. \A u \in Threads \ {t} : pc'[u] = pc[u] /\ Place(u)' = Place(u)
      BY <2>1 DEF Others, Place
    <3>3. \A r \in Receivers \ {t} : pc[r] \notin {"onStarted", "onStopped"}
      BY <3>1 DEF Handlers
    <3>4. Handlers'
      BY <1>0, <2>2, <3>1, <3>2, <3>3 DEF Handlers, Threads
    <3>5. Announced'
      BY <2>2, <3>1, <3>2 DEF Announced, Threads, HasServer
    <3> QED
      BY <3>4, <3>5
  <2>3. CASE ~registered
    <3>1. /\ UNCHANGED <<sink, registered, stopping, published>>
          /\ pc'[t] \in {"accept", "endOfRun"}
      BY <1>1, <1>m, <2>3 DEF Broadcast, Serving
    <3>2. \A u \in Threads \ {t} : pc'[u] = pc[u] /\ Place(u)' = Place(u)
      BY <2>1 DEF Others, Place
    <3> QED
      BY <1>0, <2>3, <3>1, <3>2 DEF Handlers, Announced, Threads
  <2> QED
    BY <2>2, <2>3
<1>2. ASSUME OnStarted(t) \/ OnStopped(t), t \in Receivers PROVE Handlers' /\ Announced'
  <2>1. /\ pc[t] \in {"onStarted", "onStopped"} /\ sink = t /\ registered
        /\ UNCHANGED <<back, registered, stopping>>
    BY <1>2 DEF OnStarted, OnStopped, Handlers
  <2>2. /\ Others(t) /\ pc'[t] \in {"accept", "endOfRun"}
        /\ \/ pc'[t] = "accept" /\ published' \subseteq published \cup {t}
           \/ published' = published \ {t}
    BY <1>2, <1>m DEF OnStarted, OnStopped, Serving
  <2>3. \A u \in Threads \ {t} : pc'[u] = pc[u] /\ Place(u)' = Place(u)
    BY <2>2 DEF Others, Place
  <2>4. \A r \in Receivers \ {t} : pc[r] \notin {"onStarted", "onStopped"}
    BY <2>1 DEF Handlers
  <2>5. Handlers'
    BY <1>0, <2>1, <2>2, <2>3, <2>4 DEF Handlers, Threads
  <2>6. Announced'
    BY <1>2, <2>1, <2>2, <2>3 DEF Announced, Threads, HasServer
  <2> QED
    BY <2>5, <2>6
<1>3. ASSUME StopThrows(t) PROVE Handlers' /\ Announced'
  BY <1>3 DEF StopThrows, Goes, Where, Threads
<1>4. ASSUME EndOfRun(t), t \in Receivers PROVE Handlers' /\ Announced'
  <2>1. Others(t) /\ Place(t) = "endOfRun" /\ pc'[t] \in {"delServer", "dropPeer"} /\ pc[t] = "endOfRun"
    BY <1>4, <1>m DEF EndOfRun, Serving
  <2> QED
    BY <1>0, <1>4, <2>1, HandlersKept DEF EndOfRun, HasServer
<1>5. ASSUME AcceptEnds(t), t \in Receivers PROVE Handlers' /\ Announced'
  <2>1. Others(t) /\ Place(t) = "accept" /\ pc'[t] = "leave"
    BY <1>5, <1>m DEF AcceptEnds, Serving
  <2> QED
    BY <1>0, <1>5, <2>1, HandlersKept DEF AcceptEnds, HasServer
<1>6. ASSUME CheckRunning(t), t \in Receivers PROVE Handlers' /\ Announced'
  <2>1. CASE stopping
    <3>1. Others(t) /\ Place(t) = "check" /\ pc'[t] = "leave"
      BY <1>6, <1>m, <2>1 DEF CheckRunning, Serving
    <3> QED
      BY <1>0, <1>6, <3>1, HandlersKept DEF CheckRunning, HasServer
  <2>2. CASE ~stopping
    <3>1. pc[t] = "check" /\ back[t] = None
      BY <1>0, <1>6, <1>i DEF CheckRunning, Where, InPlace, Serving
    <3>2. PICK p \in Peers : item[t] = p
      BY <1>6, <3>1 DEF Items, ItemOf, Place, Holding
    <3>3. /\ pc' = [pc EXCEPT ![t] = "accept", ![p] = "run"]
          /\ UNCHANGED <<back, registered, sink, published, stopping>>
      BY <1>6, <2>2, <3>2 DEF CheckRunning
    <3>4. pc'[t] = "accept" /\ pc'["main"] = pc["main"]
      BY <1>6, <3>3 DEF Where, Threads
    <3>5. \A q \in Receivers \ {t} : pc'[q] = pc[q]
      BY <3>3 DEF Where, Threads
    <3>6. Handlers'
      BY <1>6, <3>3, <3>4, <3>5 DEF Handlers, Place
    <3> QED
      BY <1>6, <3>3, <3>4, <3>5, <3>6 DEF Announced, HasServer
  <2> QED
    BY <2>1, <2>2
<1>7. ASSUME NEW p \in Peers, Accept(t, p), t \in Receivers PROVE Handlers' /\ Announced'
  <2>1. Others(t) /\ Place(t) = "accept" /\ pc'[t] = "accepted"
    BY <1>7, <1>m DEF Accept, Serving
  <2> QED
    BY <1>0, <1>7, <2>1, HandlersKept DEF Accept, HasServer
<1>8. ASSUME Disconnect(t), t \in Peers PROVE Handlers' /\ Announced'
  <2>1. Others(t) /\ Place(t) = "run" /\ pc[t] = "run" /\ pc'[t] = "delPeer"
    BY <1>8, <1>m DEF Disconnect
  <2> QED
    BY <1>0, <1>8, <2>1, HandlersKept DEF Disconnect, HasServer
<1> QED
  BY <1>1, <1>2, <1>3, <1>4, <1>5, <1>6, <1>7, <1>8 DEF Receive

\* The places of the threads, what they hold and what is announced are kept by every step.
LEMMA PlaceStep == PlaceInv /\ [Next]_vars => PlaceInv'
<1> SUFFICES ASSUME PlaceInv, [Next]_vars, Alive'
             PROVE  Where' /\ Items' /\ Handlers' /\ Announced'
  BY DEF PlaceInv
<1>1. CASE UNCHANGED vars
  BY <1>1 DEF vars, counters, locks, events, PlaceInv, Alive, Where, InPlace, PlacesOf, Items,
              ItemOf, Place, Handlers, Announced
<1>2. CASE \E t \in Threads : Step(t)
  <2>1. PICK t \in Threads : Step(t)
    BY <1>2
  <2>2. Alive
    BY <2>1 DEF Step, Main, Account, Receive, LoadEvents, LoadFails, Look, Found, NewServerFails,
                StartReceiver, NextServer, StopServers, Unregister, Exit, ReadCounter, WriteCounter,
                AskPossible, LockList, Erase, AnnounceUnload, ReleaseList, Broadcast, OnStarted,
                OnStopped, StopThrows, EndOfRun, AcceptEnds, CheckRunning, Accept, Disconnect, At
  <2>3. Where /\ Items /\ Handlers /\ Announced
    BY <2>2 DEF PlaceInv
  <2>4. CASE t = "main" /\ Main
    BY <2>2, <2>3, <2>4, WhereMain, ItemsMain, HandlersMain
  <2>5. CASE Account(t)
    BY <2>2, <2>3, <2>5, WhereAccount, ItemsAccount, HandlersAccount
  <2>6. CASE t \in Receivers /\ Receive(t)
    BY <2>2, <2>3, <2>6, WhereServe, ItemsServe, HandlersServe
  <2>7. CASE t \in Peers /\ Disconnect(t)
    BY <2>2, <2>3, <2>7, WhereServe, ItemsServe, HandlersServe
  <2> QED
    BY <2>1, <2>4, <2>5, <2>6, <2>7 DEF Step
<1>3. CASE Callback
  <2>1. UNCHANGED <<pc, back, item, sink, registered, stopping, published>> /\ Alive
    BY <1>3 DEF Callback, locks, Alive, Goes, PlaceInv, Where, Threads
  <2> QED
    BY <2>1 DEF PlaceInv, Alive, Where, InPlace, PlacesOf, Items, ItemOf, Place, Handlers, Announced
<1> QED
  BY <1>1, <1>2, <1>3 DEF Next

\* What the network is told follows the map of avahi-publish, whatever else goes wrong.
LEMMA ToldStep == Told /\ [Next]_vars => Told'
<1> SUFFICES ASSUME Told, [Next]_vars PROVE Told'
  OBVIOUS
<1> USE DEF events
<1>1. CASE UNCHANGED <<published, announced>>
  BY <1>1 DEF Told
<1>2. CASE published' = {} /\ announced' = {}
  BY <1>2 DEF Told
<1>3. ASSUME NEW pub, published' = pub, CreateServices(pub) \/ CommitFails(pub),
             pub = {} => \E r : published = {r}
      PROVE  Told'
  BY <1>3 DEF CreateServices, CommitFails, Told
<1>4. ASSUME NEW r \in Receivers, OnStarted(r) PROVE Told'
  BY <1>1, <1>3, <1>4 DEF OnStarted
<1>5. ASSUME NEW r \in Receivers, OnStopped(r) PROVE Told'
  <2>1. CASE r \notin published
    BY <1>1, <1>5, <2>1 DEF OnStopped
  <2>2. CASE r \in published
    <3>1. published' = published \ {r} /\ CreateServices(published \ {r})
      BY <1>5, <2>2 DEF OnStopped
    <3>2. published \ {r} = {} => published = {r}
      BY <2>2
    <3> QED
      BY <1>3, <3>1, <3>2
  <2> QED
    BY <2>1, <2>2
<1>6. ASSUME NEW r \in Receivers, StopThrows(r) PROVE Told'
  BY <1>6 DEF StopThrows, CommitFails, Told
<1>7. CASE Callback
  BY <1>7 DEF Callback, CreateServices, Told
<1>8. ASSUME NEW t \in Threads, Step(t) PROVE Told'
  <2>1. CASE t = "main" /\ Main
    BY <1>1, <2>1 DEF Main, LoadEvents, LoadFails, Look, Found, NewServerFails, StartReceiver,
                      NextServer, StopServers, Unregister, Exit
  <2>2. CASE Account(t)
    BY <1>1, <1>2, <2>2 DEF Account, ReadCounter, WriteCounter, AskPossible, LockList, Erase,
                            AnnounceUnload, ReleaseList
  <2>3. CASE t \in Receivers /\ Receive(t)
    BY <1>1, <1>4, <1>5, <1>6, <2>3 DEF Receive, Broadcast, EndOfRun, AcceptEnds, CheckRunning,
                                        Accept
  <2>4. CASE t \in Peers /\ Disconnect(t)
    BY <1>1, <2>4 DEF Disconnect
  <2> QED
    BY <1>8, <2>1, <2>2, <2>3, <2>4 DEF Step
<1> QED
  BY <1>1, <1>7, <1>8 DEF Next, vars

\* While its handler is registered, every server in avahi-publish's map exists, and the
\* network is told of these only, but for the last one that stopped.
THEOREM AnnouncedExist == Spec => []PublishedExist
<1>1. PlaceInv /\ Told => PublishedExist
  BY DEF PlaceInv, Announced, PublishedExist
<1>2. Init => Told
  BY DEF Init, Told
<1> QED
  BY <1>1, <1>2, InitPlaces, PlaceStep, ToldStep, PTL DEF Spec

-----------------------------------------------------------------------------
(* Balance.                                                                *)

One(b) == IF b THEN 1 ELSE 0

LEMMA ThreadsFinite == IsFiniteSet(Threads)
<1>1. IsFiniteSet({"main"} \cup Receivers)
  BY PluginThreadsOK, FS_Singleton, FS_Union
<1> QED
  BY <1>1, PluginThreadsOK, FS_Union DEF Threads

\* Two sets that differ in one element at most.
LEMMA OneDiffers ==
    ASSUME NEW S, NEW S1, NEW t, IsFiniteSet(S), S \ {t} = S1 \ {t}
    PROVE  /\ IsFiniteSet(S1) /\ Cardinality(S) \in Nat /\ Cardinality(S1) \in Nat
           /\ Cardinality(S1) - Cardinality(S) = One(t \in S1) - One(t \in S)
<1>0. Cardinality(S) \in Nat
  BY FS_CardinalityType
<1>1. CASE t \in S /\ t \notin S1
  <2>1. S1 = S \ {t}
    BY <1>1
  <2>2. IsFiniteSet(S1) /\ Cardinality(S1) = Cardinality(S) - 1
    BY <1>1, <2>1, FS_RemoveElement
  <2> QED
    BY <1>0, <1>1, <2>2, FS_CardinalityType DEF One
<1>2. CASE t \notin S /\ t \in S1
  <2>1. S1 = S \cup {t}
    BY <1>2
  <2>2. IsFiniteSet(S1) /\ Cardinality(S1) = Cardinality(S) + 1
    BY <1>2, <2>1, FS_AddElement
  <2> QED
    BY <1>0, <1>2, <2>2 DEF One
<1>3. CASE t \in S <=> t \in S1
  <2>1. S1 = S
    BY <1>3
  <2> QED
    BY <1>0, <2>1 DEF One
<1> QED
  BY <1>1, <1>2, <1>3

LEMMA Exchange ==
    ASSUME NEW S, NEW x \in S, NEW y, y \notin S, IsFiniteSet(S)
    PROVE  Cardinality((S \ {x}) \cup {y}) = Cardinality(S)
<1>1. IsFiniteSet(S \ {x}) /\ Cardinality(S \ {x}) = Cardinality(S) - 1 /\ Cardinality(S) \in Nat
  BY FS_RemoveElement, FS_CardinalityType
<1>2. Cardinality((S \ {x}) \cup {y}) = Cardinality(S \ {x}) + 1
  BY <1>1, FS_AddElement
<1> QED
  BY <1>1, <1>2

\* When one thread moves, the counters must go with what it has.
LEMMA BalanceStep ==
    ASSUME Balance, NEW t \in Threads, Others(t), \A u \in Threads \ {t} : item'[u] = item[u],
           refCnt' \in [Plugins -> Int], count' \in Int,
           refCnt'["T"] - refCnt["T"] =
               One(Place(t)' \in Referring) - One(Place(t) \in Referring)
               + One(Place(t)' \in Asking) - One(Place(t) \in Asking),
           count' - count =
               One(Place(t)' \in Running) - One(Place(t) \in Running)
               + One(t \in InstB') - One(t \in InstB)
    PROVE  Balance'
<1>1. \A u \in Threads \ {t} : Place(u)' = Place(u) /\ HasPeer(u)' = HasPeer(u)
  BY DEF Others, Place, HasPeer
<1>2. /\ RefA \ {t} = RefA' \ {t} /\ RefB \ {t} = RefB' \ {t}
      /\ InstA \ {t} = InstA' \ {t} /\ InstB \ {t} = InstB' \ {t}
  BY <1>1 DEF RefA, RefB, InstA, InstB
<1>3. IsFiniteSet(RefA) /\ IsFiniteSet(RefB) /\ IsFiniteSet(InstA) /\ IsFiniteSet(InstB)
  BY ThreadsFinite, FS_Subset DEF RefA, RefB, InstA, InstB
<1>4. /\ Cardinality(RefA') - Cardinality(RefA) = One(t \in RefA') - One(t \in RefA)
      /\ Cardinality(RefB') - Cardinality(RefB) = One(t \in RefB') - One(t \in RefB)
      /\ Cardinality(InstA') - Cardinality(InstA) = One(t \in InstA') - One(t \in InstA)
      /\ Cardinality(InstB') - Cardinality(InstB) = One(t \in InstB') - One(t \in InstB)
      /\ Cardinality(RefA) \in Nat /\ Cardinality(RefA') \in Nat
      /\ Cardinality(RefB) \in Nat /\ Cardinality(RefB') \in Nat
      /\ Cardinality(InstA) \in Nat /\ Cardinality(InstA') \in Nat
      /\ Cardinality(InstB) \in Nat /\ Cardinality(InstB') \in Nat
  BY <1>2, <1>3, OneDiffers
<1>5. /\ (t \in RefA <=> Place(t) \in Referring) /\ (t \in RefA' <=> Place(t)' \in Referring)
      /\ (t \in RefB <=> Place(t) \in Asking) /\ (t \in RefB' <=> Place(t)' \in Asking)
      /\ (t \in InstA <=> Place(t) \in Running) /\ (t \in InstA' <=> Place(t)' \in Running)
  BY DEF RefA, RefB, InstA
<1>6. refCnt'["T"] = Cardinality(RefA') + Cardinality(RefB')
  <2>1. refCnt["T"] \in Int /\ refCnt'["T"] \in Int
    BY DEF Balance, Plugins
  <2> QED
    BY <1>4, <1>5, <2>1 DEF Balance, One
<1>7. count' = Cardinality(InstA') + Cardinality(InstB')
  <2>1. count' - count = One(t \in InstA') - One(t \in InstA) + One(t \in InstB') - One(t \in InstB)
    BY <1>5 DEF One
  <2>2. count = Cardinality(InstA) + Cardinality(InstB)
    BY DEF Balance
  <2> QED
    BY <1>4, <2>1, <2>2 DEF One
<1> QED
  BY <1>6, <1>7 DEF Balance

\* Two places with the same references and the same instance.
SameWeight(l, m) ==
    (l \in Referring <=> m \in Referring) /\ (l \in Asking <=> m \in Asking) /\ (l \in Running <=> m \in Running)

\* A step outside the accounts keeps the counters right if the thread keeps what it has.
LEMMA QuietStep ==
    ASSUME Balance, Fresh, NEW t \in Threads, Others(t), pc[t] \notin Refs \cup Counts,
           \A u \in Threads \ {t} : item'[u] = item[u],
           UNCHANGED <<count, reg>>, refCnt' \in [Plugins -> Int], refCnt'["T"] = refCnt["T"],
           t # "main" => UNCHANGED stopping,
           SameWeight(Place(t), Place(t)'), t \in InstB <=> t \in InstB'
    PROVE  Balance' /\ Fresh'
<1>1. Balance'
  <2>1. refCnt["T"] \in Int /\ count \in Int /\ Cardinality(InstA) \in Nat /\ Cardinality(InstB) \in Nat
    BY ThreadsFinite, FS_Subset, FS_CardinalityType DEF Balance, Plugins, InstA, InstB
  <2>2. refCnt'["T"] - refCnt["T"] =
            One(Place(t)' \in Referring) - One(Place(t) \in Referring)
            + One(Place(t)' \in Asking) - One(Place(t) \in Asking)
    BY <2>1 DEF SameWeight, One
  <2>3. count' - count =
            One(Place(t)' \in Running) - One(Place(t) \in Running)
            + One(t \in InstB') - One(t \in InstB)
    BY <2>1 DEF SameWeight, One
  <2> QED
    BY <2>1, <2>2, <2>3, BalanceStep
<1>2. ASSUME NEW u \in Threads PROVE FreshAt(u)'
  BY DEF Fresh, FreshAt, Uses, Others
<1> QED
  BY <1>1, <1>2 DEF Fresh

\* Each account changes its counter by what the thread then has more or less.
LEMMA AccountWeights ==
    ASSUME NEW a \in Accounts, a.from # "forget"
    PROVE  /\ One(a.to \in Referring) - One(a.from \in Referring)
              + One(a.to \in Asking) - One(a.from \in Asking) = IF a.ctr = "ref" THEN a.by ELSE 0
           /\ One(a.to \in Running) - One(a.from \in Running)
              + One(a.to \in {"check", "dropPeer"}) - One(a.from \in {"check", "dropPeer"})
              = IF a.ctr = "ref" THEN 0 ELSE a.by
           /\ a.ctr = "ref" <=> a.from \in Refs
           /\ a.by \in Int
           /\ {a.from, a.to} \cap {"leave", "onStopped", "endOfRun"} = {}
BY AccountTable DEF One, Referring, Asking, Running, Serving, Refs

\* A counter that nobody else touches is written as it was read.
LEMMA WriteStep ==
    ASSUME Where, Items, Balance, Fresh, NoRace, NEW t \in Threads,
           NEW a \in Accounts, WriteCounter(t, a)
    PROVE  Balance' /\ Fresh'
<1>1. Others(t) /\ Place(t) = a.from /\ Place(t)' = a.to /\ pc[t] = a.from /\ UNCHANGED <<item, stopping>>
  BY AccountMoves DEF WriteCounter, events
<1>2. reg' = [reg EXCEPT ![t] = None] /\ reg[t] # None /\ reg[t] \in Int
  BY DEF WriteCounter, Fresh
<1>3. Uses(t) = "E" <=> a.from = "forget"
  <2>1. a.from \in PlacesOf(t)
    BY <1>1, PlacesAreLabels, PluginThreadsOK DEF Where, InPlace, Place
  <2>2. a.from \notin {"unregister", "wait", "exit"}
    BY AccountTable
  <2> QED
    BY <2>1, <2>2, PluginThreadsOK DEF PlacesOf, Uses, Serving, Creating, Threads
<1>4. CASE Uses(t) = "E"
  <2>1. a.from = "forget" /\ a.to = "wait" /\ a.ctr = "ref" /\ a.by = -1
    BY <1>3, <1>4, AccountTable
  <2>2. /\ refCnt' = [refCnt EXCEPT !["E"] = reg[t] - 1] /\ UNCHANGED count
    BY <1>4, <2>1 DEF WriteCounter
  <2>3. refCnt' \in [Plugins -> Int] /\ refCnt'["T"] = refCnt["T"]
    BY <1>2, <2>2 DEF Balance, Plugins
  <2>4. SameWeight(Place(t), Place(t)') /\ t \notin InstB /\ t \notin InstB'
    BY <1>1, <2>1 DEF SameWeight, Referring, Asking, Running, Serving, InstB, HasPeer
  <2>5. Balance'
    <3>1. refCnt["T"] \in Int /\ count \in Int
      BY ThreadsFinite, FS_Subset, FS_CardinalityType DEF Balance, Plugins, InstA, InstB
    <3>2. refCnt'["T"] - refCnt["T"] =
              One(Place(t)' \in Referring) - One(Place(t) \in Referring)
              + One(Place(t)' \in Asking) - One(Place(t) \in Asking)
      BY <2>3, <2>4, <3>1 DEF SameWeight, One
    <3>3. count' - count =
              One(Place(t)' \in Running) - One(Place(t) \in Running)
              + One(t \in InstB') - One(t \in InstB)
      BY <2>2, <2>4, <3>1 DEF SameWeight, One
    <3> QED
      BY <1>1, <2>2, <2>3, <3>1, <3>2, <3>3, BalanceStep
  <2>6. ASSUME NEW u \in Threads PROVE FreshAt(u)'
    BY <1>1, <1>2, <2>2, <2>3 DEF Fresh, FreshAt, Uses, Others
  <2> QED
    BY <1>2, <2>5, <2>6 DEF Fresh
<1>5. CASE Uses(t) = "T"
  <2>1. a.from # "forget"
    BY <1>3, <1>5
  <2>2. reg[t] = IF a.ctr = "ref" THEN refCnt["T"] ELSE count
    BY <1>1, <1>2, <1>5, <2>1, AccountWeights DEF Fresh, FreshAt
  <2>3. refCnt["T"] \in Int /\ count \in Int /\ a.by \in Int
    BY <2>1, ThreadsFinite, FS_Subset, FS_CardinalityType, AccountWeights DEF Balance, Plugins, InstA, InstB
  <2>4. /\ refCnt' \in [Plugins -> Int] /\ count' \in Int
        /\ refCnt'["T"] - refCnt["T"] = IF a.ctr = "ref" THEN a.by ELSE 0
        /\ count' - count = IF a.ctr = "ref" THEN 0 ELSE a.by
    BY <1>5, <2>2, <2>3 DEF WriteCounter, Balance, Plugins
  <2>5. /\ t \in InstB <=> a.from \in {"check", "dropPeer"}
        /\ t \in InstB' <=> a.to \in {"check", "dropPeer"}
    BY <1>1, <2>1, AccountWeights DEF InstB, HasPeer
  <2>6. Balance'
    <3>1. refCnt'["T"] - refCnt["T"] =
              One(Place(t)' \in Referring) - One(Place(t) \in Referring)
              + One(Place(t)' \in Asking) - One(Place(t) \in Asking)
      BY <1>1, <2>1, <2>4, AccountWeights
    <3>2. count' - count =
              One(Place(t)' \in Running) - One(Place(t) \in Running)
              + One(t \in InstB') - One(t \in InstB)
      <4>1. /\ One(t \in InstB) = One(a.from \in {"check", "dropPeer"})
            /\ One(t \in InstB') = One(a.to \in {"check", "dropPeer"})
        BY <2>5 DEF One
      <4> QED
        BY <1>1, <2>1, <2>4, <4>1, AccountWeights
    <3> QED
      BY <1>1, <2>4, <3>1, <3>2, BalanceStep
  <2>7. ASSUME NEW u \in Threads PROVE FreshAt(u)'
    <3>1. CASE u = t
      BY <1>2, <3>1 DEF Fresh, FreshAt
    <3>2. CASE u # t /\ Uses(u) = "T"
      <4>1. reg[u] = None
        BY <1>2, <1>5, <3>2 DEF NoRace, Accounting
      <4> QED
        BY <1>2, <3>2, <4>1 DEF Fresh, FreshAt
    <3>3. CASE u # t /\ Uses(u) # "T"
      BY <1>1, <1>2, <3>3 DEF Fresh, FreshAt, Uses, Others
    <3> QED
      BY <3>1, <3>2, <3>3
  <2> QED
    BY <1>2, <2>6, <2>7 DEF Fresh
<1> QED
  BY <1>4, <1>5 DEF Uses

LEMMA CountMain ==
    ASSUME Alive, Where, Items, Balance, Fresh, Main
    PROVE  Balance' /\ Fresh'
<1> USE PluginThreadsOK DEF Alive, At, counters, locks, events
<1>0. "main" \in Threads /\ InPlace("main")
  BY DEF Threads, Where
<1> DEFINE Still == {"events", "add", "unlock", "new", "end", "unregister", "wait"}
<1>i. Still \cap (Checking \cup {"check", "dropPeer", "leave", "onStopped", "endOfRun"}) = {}
  BY DEF Checking
<1>r. Still \cap (Refs \cup Counts) = {"new"}
  BY DEF Refs, Counts
<1>m. ASSUME NEW m, pc["main"] \in Still \ {"new"}, Goes("main", m), UNCHANGED <<back, count, reg>>,
             \A u \in Threads \ {"main"} : item'[u] = item[u],
             refCnt' \in [Plugins -> Int], refCnt'["T"] = refCnt["T"],
             m \notin {"check", "dropPeer", "leave", "onStopped", "endOfRun"}, SameWeight(pc["main"], m)
      PROVE  Balance' /\ Fresh'
  <2>1. Others("main") /\ Place("main") = pc["main"] /\ Place("main")' = m
    BY <1>0, <1>i, <1>m, GoesMoves
  <2>2. "main" \notin InstB /\ "main" \notin InstB'
    BY <1>i, <1>m, <2>1 DEF InstB, HasPeer
  <2> QED
    BY <1>0, <1>r, <1>m, <2>1, <2>2, QuietStep
<1>w. /\ \A l, m \in {"events", "add", "unlock", "pref", "end", "unregister", "forget", "wait", "exit"} :
            SameWeight(l, m)
      /\ SameWeight("new", "unasFailed")
  BY DEF SameWeight, Referring, Asking, Running, Serving
<1>b. refCnt \in [Plugins -> Int]
  BY DEF Balance
<1>1. ASSUME LoadEvents PROVE Balance' /\ Fresh'
  <2>1. refCnt' \in [Plugins -> Int] /\ refCnt'["T"] = refCnt["T"]
    BY <1>1, <1>b DEF LoadEvents, Plugins
  <2> QED
    BY <1>1, <1>m, <1>w, <2>1 DEF LoadEvents
<1>2. ASSUME NEW p \in Plugins, LoadFails(p) PROVE Balance' /\ Fresh'
  BY <1>2, <1>m, <1>w, <1>b DEF LoadFails
<1>3. ASSUME NEW r \in Receivers, Look(r) PROVE Balance' /\ Fresh'
  BY <1>3, <1>m, <1>w, <1>b DEF Look, Items
<1>4. ASSUME Found PROVE Balance' /\ Fresh'
  BY <1>4, <1>m, <1>w, <1>b DEF Found
<1>5. ASSUME NewServerFails PROVE Balance' /\ Fresh'
  <2>1. Others("main") /\ Place("main") = "new" /\ Place("main")' = "unasFailed"
    BY <1>0, <1>5, <1>i, GoesMoves DEF NewServerFails
  <2>2. Balance'
    <3>1. "main" \notin InstB /\ "main" \notin InstB'
      BY <2>1 DEF InstB, HasPeer
    <3>2. refCnt["T"] \in Int /\ count \in Int
      BY ThreadsFinite, FS_Subset, FS_CardinalityType DEF Balance, Plugins, InstA, InstB
    <3>3. refCnt'["T"] - refCnt["T"] =
              One(Place("main")' \in Referring) - One(Place("main") \in Referring)
              + One(Place("main")' \in Asking) - One(Place("main") \in Asking)
      BY <1>5, <1>w, <2>1, <3>2 DEF NewServerFails, SameWeight, One
    <3>4. count' - count =
              One(Place("main")' \in Running) - One(Place("main") \in Running)
              + One("main" \in InstB') - One("main" \in InstB)
      BY <1>5, <1>w, <2>1, <3>1, <3>2 DEF NewServerFails, SameWeight, One
    <3> QED
      BY <1>0, <1>5, <1>b, <2>1, <3>2, <3>3, <3>4, BalanceStep DEF NewServerFails
  <2>3. ASSUME NEW u \in Threads PROVE FreshAt(u)'
    BY <1>5, <2>1, <2>3 DEF NewServerFails, Fresh, FreshAt, Uses, Others
  <2> QED
    BY <1>5, <2>2, <2>3 DEF NewServerFails, Fresh
<1>6. ASSUME StartReceiver PROVE Balance' /\ Fresh'
  <2>1. PICK r \in Receivers : item["main"] = r /\ pc[r] = "absent" /\ back["main"] = None
    BY <1>0, <1>6 DEF StartReceiver, Items, Place, InPlace, Creating, Checking, Later
  <2>2. /\ pc' = [pc EXCEPT !["main"] = "add", ![r] = "started"]
        /\ item' = [item EXCEPT !["main"] = None] /\ pc["main"] = "start"
        /\ UNCHANGED <<back, refCnt, count, reg, stopping>>
    BY <1>6, <2>1 DEF StartReceiver
  <2>3. back[r] = None /\ r \in Threads /\ r # "main"
    BY <2>1 DEF Where, InPlace, Checking, Threads
  <2>4. /\ Place("main") = "start" /\ Place("main")' = "add"
        /\ Place(r) = "absent" /\ Place(r)' = "started"
    BY <1>0, <2>1, <2>2, <2>3 DEF Place, Where
  <2>5. \A u \in Threads \ {"main", r} : pc'[u] = pc[u] /\ Place(u)' = Place(u) /\ item'[u] = item[u]
    BY <2>2 DEF Place, Where, Items
  <2>6. RefA' = (RefA \ {"main"}) \cup {r} /\ "main" \in RefA /\ r \notin RefA
    BY <1>0, <2>3, <2>4, <2>5 DEF RefA, Referring, Serving
  <2>7. InstA' = (InstA \ {"main"}) \cup {r} /\ "main" \in InstA /\ r \notin InstA
    BY <1>0, <2>3, <2>4, <2>5 DEF InstA, Running, Serving
  <2>8. RefB' = RefB
    BY <1>0, <2>3, <2>4, <2>5 DEF RefB, Asking
  <2>9. InstB' = InstB
    BY <1>0, <2>3, <2>4, <2>5 DEF InstB, HasPeer
  <2>10. IsFiniteSet(RefA) /\ IsFiniteSet(InstA)
    BY ThreadsFinite, FS_Subset DEF RefA, InstA
  <2>11. Balance'
    BY <2>2, <2>6, <2>7, <2>8, <2>9, <2>10, Exchange DEF Balance
  <2>12. ASSUME NEW u \in Threads PROVE FreshAt(u)'
    <3>1. u \in {"main", r} => reg[u] = None
      BY <1>0, <2>1, <2>2, <2>3 DEF Fresh, FreshAt, Refs, Counts
    <3> QED
      BY <2>2, <2>5, <3>1 DEF Fresh, FreshAt, Uses
  <2> QED
    BY <2>2, <2>11, <2>12 DEF Fresh
<1>7. ASSUME NextServer PROVE Balance' /\ Fresh'
  BY <1>7, <1>m, <1>w, <1>b DEF NextServer, Items
<1>8. ASSUME StopServers PROVE Balance' /\ Fresh'
  BY <1>8, <1>m, <1>w, <1>b DEF StopServers
<1>9. ASSUME Unregister PROVE Balance' /\ Fresh'
  BY <1>9, <1>m, <1>w, <1>b DEF Unregister
<1>10. ASSUME Exit PROVE Balance' /\ Fresh'
  BY <1>10, <1>m, <1>w, <1>b DEF Exit
<1> QED
  BY <1>1, <1>2, <1>3, <1>4, <1>5, <1>6, <1>7, <1>8, <1>9, <1>10 DEF Main

LEMMA CountAccount ==
    ASSUME Alive, Where, Items, Balance, Fresh, NoRace, NEW t \in Threads, Account(t)
    PROVE  Balance' /\ Fresh'
<1>1. ASSUME NEW a \in Accounts, ReadCounter(t, a) PROVE Balance' /\ Fresh'
  <2>1. /\ pc[t] = a.from /\ UNCHANGED <<pc, back, item, refCnt, count, stopping>>
        /\ reg' = [reg EXCEPT ![t] = IF a.ctr = "ref" THEN refCnt[Uses(t)] ELSE count]
    BY <1>1 DEF ReadCounter, At, events
  <2>2. a.from \in Refs \cup Counts /\ (a.ctr = "ref" <=> a.from \in Refs)
    BY AccountTable DEF Refs, Counts
  <2>3. Uses(t) \in Plugins /\ refCnt[Uses(t)] \in Int /\ count \in Int
    BY ThreadsFinite, FS_Subset, FS_CardinalityType DEF Balance, Uses, Plugins, InstA, InstB
  <2>4. Balance'
    BY <2>1 DEF Balance, RefA, RefB, InstA, InstB, HasPeer, Place
  <2>5. ASSUME NEW u \in Threads PROVE FreshAt(u)'
    BY <2>1, <2>2 DEF Fresh, FreshAt, Uses
  <2>6. reg' \in [Threads -> Int \cup {None}]
    BY <2>1, <2>3 DEF Fresh
  <2> QED
    BY <2>4, <2>5, <2>6 DEF Fresh
<1>2. ASSUME NEW a \in Accounts, WriteCounter(t, a) PROVE Balance' /\ Fresh'
  BY <1>2, WriteStep
<1>3. ASSUME AskPossible(t) \/ LockList(t) \/ Erase(t) \/ AnnounceUnload(t) \/ ReleaseList(t)
      PROVE  Balance' /\ Fresh'
  <2>1. UNCHANGED <<item, refCnt, count, reg, stopping>>
    BY <1>3 DEF AskPossible, LockList, Erase, AnnounceUnload, ReleaseList, counters, events
  <2>2. Others(t) /\ Place(t)' = Place(t) /\ pc[t] \in Checking
    BY <1>3, UnloadKeepsPlace
  <2>3. pc[t] \notin Refs \cup Counts
    BY <2>2 DEF Checking, Refs, Counts
  <2>4. SameWeight(Place(t), Place(t)') /\ (t \in InstB <=> t \in InstB')
    BY <2>1, <2>2 DEF SameWeight, InstB, HasPeer
  <2> QED
    BY <2>1, <2>2, <2>3, <2>4, QuietStep DEF Balance
<1> QED
  BY <1>1, <1>2, <1>3 DEF Account

LEMMA CountServe ==
    ASSUME Alive, Alive', Where, Items, Balance, Fresh, NEW t \in Receivers \cup Peers,
           \/ t \in Receivers /\ Receive(t)
           \/ t \in Peers /\ Disconnect(t)
    PROVE  Balance' /\ Fresh'
<1> USE PluginThreadsOK DEF Alive, At, counters, locks, events
<1>0. t \in Threads /\ t # "main"
  BY DEF Threads
<1>b. refCnt \in [Plugins -> Int]
  BY DEF Balance
<1>i. pc[t] \in (Serving \ {"accepted"}) \cup {"run"} => pc[t] \notin Checking \cup Refs \cup Counts
  BY DEF Checking, Serving, Refs, Counts
<1>m. ASSUME NEW m, pc[t] \in (Serving \ {"accepted"}) \cup {"run"}, Goes(t, m), SameWeight(pc[t], m),
             UNCHANGED <<back, refCnt, count, reg, stopping>>,
             \A u \in Threads \ {t} : item'[u] = item[u],
             t \in InstB <=> t \in InstB'
      PROVE  Balance' /\ Fresh'
  <2>1. Others(t) /\ Place(t) = pc[t] /\ Place(t)' = m
    BY <1>0, <1>i, <1>m, GoesMoves
  <2> QED
    BY <1>0, <1>b, <1>i, <1>m, <2>1, QuietStep
<1>p. ASSUME NEW m, pc[t] \in (Serving \ {"accepted"}) \cup {"run"}, Goes(t, m), UNCHANGED back
      PROVE  Place(t) = pc[t] /\ Place(t)' = m
  BY <1>0, <1>i, <1>p, GoesMoves
<1>w. /\ \A l \in Serving, m \in Serving \cup {"dropPeer", "delServer"} : SameWeight(l, m)
      /\ SameWeight("run", "delPeer")
  BY DEF SameWeight, Referring, Asking, Running, Serving
<1> DEFINE Quits == {"leave", "onStopped", "endOfRun"}
<1>1. ASSUME Broadcast(t) \/ OnStarted(t) \/ OnStopped(t), t \in Receivers PROVE Balance' /\ Fresh'
  <2>1. PICK m \in {"onStarted", "onStopped", "accept", "endOfRun"} :
            /\ Goes(t, m) /\ pc[t] \in {"started", "onStarted", "leave", "onStopped"}
            /\ (m \in Quits <=> pc[t] \in Quits)
            /\ UNCHANGED <<back, item, refCnt, count, reg, stopping>>
    BY <1>1 DEF Broadcast, OnStarted, OnStopped
  <2>2. Place(t) = pc[t] /\ Place(t)' = m
    BY <1>p, <2>1 DEF Serving
  <2>3. t \in InstB <=> t \in InstB'
    BY <2>1, <2>2 DEF InstB, HasPeer
  <2> QED
    BY <1>m, <1>w, <2>1, <2>3 DEF Serving
<1>2. ASSUME StopThrows(t) PROVE Balance' /\ Fresh'
  BY <1>2 DEF StopThrows, Goes, Where, Threads
<1>3. ASSUME EndOfRun(t), t \in Receivers PROVE Balance' /\ Fresh'
  <2>1. /\ pc[t] = "endOfRun" /\ Goes(t, IF item[t] = None THEN "delServer" ELSE "dropPeer")
        /\ item' = [item EXCEPT ![t] = None]
        /\ UNCHANGED <<back, refCnt, count, reg, stopping>>
    BY <1>3 DEF EndOfRun
  <2>2. Place(t) = "endOfRun" /\ Place(t)' = IF item[t] = None THEN "delServer" ELSE "dropPeer"
    BY <1>p, <2>1 DEF Serving
  <2>3. t \in InstB <=> t \in InstB'
    BY <1>0, <2>1, <2>2 DEF InstB, HasPeer, Items
  <2> QED
    BY <1>m, <1>w, <2>1, <2>3 DEF Serving, Items
<1>4. ASSUME AcceptEnds(t), t \in Receivers PROVE Balance' /\ Fresh'
  <2>1. /\ pc[t] = "accept" /\ Goes(t, "leave")
        /\ UNCHANGED <<back, item, refCnt, count, reg, stopping>>
    BY <1>4 DEF AcceptEnds
  <2>2. Place(t) = "accept" /\ Place(t)' = "leave"
    BY <1>p, <2>1 DEF Serving
  <2>3. t \notin InstB /\ t \notin InstB'
    BY <1>4, <2>1, <2>2 DEF InstB, HasPeer, Items, ItemOf, MayHold, Holding
  <2> QED
    BY <1>m, <1>w, <2>1, <2>3 DEF Serving
<1>5. ASSUME CheckRunning(t), t \in Receivers PROVE Balance' /\ Fresh'
  <2>1. CASE stopping
    <3>1. /\ pc[t] = "check" /\ Goes(t, "leave")
          /\ UNCHANGED <<back, item, refCnt, count, reg, stopping>>
      BY <1>5, <2>1 DEF CheckRunning
    <3>2. Place(t) = "check" /\ Place(t)' = "leave"
      BY <1>p, <3>1 DEF Serving
    <3>3. t \in InstB /\ t \in InstB'
      BY <1>0, <1>5, <3>1, <3>2 DEF InstB, HasPeer, Items, ItemOf, Holding
    <3> QED
      BY <1>m, <1>w, <3>1, <3>3 DEF Serving
  <2>2. CASE ~stopping
    <3>1. pc[t] = "check" /\ back[t] = None
      BY <1>0, <1>5, <1>i DEF CheckRunning, Where, InPlace, Serving
    <3>2. PICK p \in Peers : item[t] = p /\ pc[p] = "absent" /\ p # t
      BY <1>5, <3>1 DEF Items, ItemOf, Place, Holding
    <3>3. /\ pc' = [pc EXCEPT ![t] = "accept", ![p] = "run"]
          /\ item' = [item EXCEPT ![t] = None]
          /\ UNCHANGED <<back, refCnt, count, reg, stopping>>
      BY <1>5, <2>2, <3>2 DEF CheckRunning
    <3>4. back[p] = None /\ p \in Threads /\ p # "main"
      BY <3>2 DEF Where, InPlace, Checking, Threads
    <3>5. /\ Place(t) = "check" /\ Place(t)' = "accept"
          /\ Place(p) = "absent" /\ Place(p)' = "run"
      BY <1>0, <3>1, <3>2, <3>3, <3>4 DEF Place, Where
    <3>6. \A u \in Threads \ {t, p} : pc'[u] = pc[u] /\ Place(u)' = Place(u) /\ item'[u] = item[u]
      BY <3>3 DEF Place, Where, Items
    <3>7. InstA' = InstA \cup {p} /\ p \notin InstA
      BY <1>0, <3>4, <3>5, <3>6 DEF InstA, Running, Serving
    <3>8. InstB' = InstB \ {t} /\ t \in InstB
      <4>1. \A u \in Threads \ {t, p} : HasPeer(u)' = HasPeer(u)
        BY <3>6 DEF HasPeer
      <4>2. HasPeer(t) /\ ~HasPeer(t)' /\ ~HasPeer(p) /\ ~HasPeer(p)'
        BY <3>5 DEF HasPeer
      <4> QED
        BY <1>0, <3>4, <4>1, <4>2 DEF InstB
    <3>9. RefA' = RefA /\ RefB' = RefB
      BY <1>0, <3>4, <3>5, <3>6 DEF RefA, RefB, Referring, Asking, Serving
    <3>10. Balance'
      <4>1. IsFiniteSet(InstA) /\ IsFiniteSet(InstB)
        BY ThreadsFinite, FS_Subset DEF InstA, InstB
      <4>2. Cardinality(InstA') = Cardinality(InstA) + 1 /\ Cardinality(InstA) \in Nat
        BY <3>7, <4>1, FS_AddElement, FS_CardinalityType
      <4>3. Cardinality(InstB') = Cardinality(InstB) - 1 /\ Cardinality(InstB) \in Nat
        BY <3>8, <4>1, FS_RemoveElement, FS_CardinalityType
      <4> QED
        BY <3>3, <3>9, <4>2, <4>3 DEF Balance
    <3>11. ASSUME NEW u \in Threads PROVE FreshAt(u)'
      <4>1. u \in {t, p} => reg[u] = None
        BY <1>0, <3>1, <3>2, <3>4 DEF Fresh, FreshAt, Refs, Counts
      <4> QED
        BY <3>3, <3>6, <4>1 DEF Fresh, FreshAt, Uses
    <3> QED
      BY <3>3, <3>10, <3>11 DEF Fresh
  <2> QED
    BY <2>1, <2>2
<1>6. ASSUME NEW p \in Peers, Accept(t, p), t \in Receivers PROVE Balance' /\ Fresh'
  <2>1. /\ pc[t] = "accept" /\ Goes(t, "accepted") /\ item' = [item EXCEPT ![t] = p]
        /\ UNCHANGED <<back, refCnt, count, reg, stopping>>
    BY <1>6 DEF Accept
  <2>2. Place(t) = "accept" /\ Place(t)' = "accepted"
    BY <1>p, <2>1 DEF Serving
  <2>3. t \notin InstB /\ t \notin InstB'
    BY <2>2 DEF InstB, HasPeer
  <2> QED
    BY <1>m, <1>w, <2>1, <2>3 DEF Serving, Items
<1>7. ASSUME Disconnect(t), t \in Peers PROVE Balance' /\ Fresh'
  <2>1. /\ pc[t] = "run" /\ Goes(t, "delPeer")
        /\ UNCHANGED <<back, item, refCnt, count, reg, stopping>>
    BY <1>7 DEF Disconnect
  <2>2. Place(t) = "run" /\ Place(t)' = "delPeer"
    BY <1>p, <2>1
  <2>3. t \notin InstB /\ t \notin InstB'
    BY <2>2 DEF InstB, HasPeer
  <2> QED
    BY <1>m, <1>w, <2>1, <2>3
<1> QED
  BY <1>1, <1>2, <1>3, <1>4, <1>5, <1>6, <1>7 DEF Receive

-----------------------------------------------------------------------------
(* Unloading.                                                              *)

\* A plugin whose counters say that nobody uses it is used by nobody.
LEMMA EraseStep ==
    ASSUME Alive, Where, Handlers, Balance, NoRace, NEW t \in Threads, Erase(t)
    PROVE  pulled' = {}
<1> USE PluginThreadsOK
<1>1. pc[t] = "test" /\ back[t] \in Later \cap PlacesOf(t) /\ back[t] # None
  <2>1. pc[t] = "test" /\ "test" \in Checking
    BY DEF Erase, At, Checking
  <2> QED
    BY <2>1, PlacesAreLabels DEF Where, InPlace, Later, Labels, UsesT
<1>2. CASE ~IsUnloadable(Uses(t))
  BY <1>2 DEF Erase, Alive
<1>3. CASE IsUnloadable(Uses(t)) /\ Uses(t) = "E"
  <2>1. t = "main" /\ stopping
    BY <1>3 DEF Uses
  <2>2. Place("main") \in Later
    BY <1>1, <2>1 DEF Place
  <2>3. ~registered
    BY <2>1, <2>2 DEF Handlers, Later
  <2>4. Holders("E") = {}
    BY <2>3 DEF Handlers, Holders
  <2> QED
    BY <1>3, <2>4 DEF Erase
<1>4. CASE IsUnloadable(Uses(t)) /\ Uses(t) = "T"
  <2>1. /\ Cardinality(RefA) + Cardinality(RefB) = 0
        /\ Cardinality(InstA) + Cardinality(InstB) = 0
    BY <1>4 DEF IsUnloadable, UnloadPossible, Balance
  <2>2. IsFiniteSet(RefA) /\ IsFiniteSet(RefB) /\ IsFiniteSet(InstA) /\ IsFiniteSet(InstB)
    BY ThreadsFinite, FS_Subset DEF RefA, RefB, InstA, InstB
  <2>3. /\ Cardinality(RefA) \in Nat /\ Cardinality(RefB) \in Nat
        /\ Cardinality(InstA) \in Nat /\ Cardinality(InstB) \in Nat
    BY <2>2, FS_CardinalityType
  <2>4. Cardinality(RefA) = 0 /\ Cardinality(InstA) = 0
    BY <2>1, <2>3
  <2>5. RefA = {} /\ InstA = {}
    BY <2>2, <2>4, FS_EmptySet
  <2>6. ASSUME NEW u \in Holders("T") PROVE u = t
    <3>1. u \in Threads /\ Uses(u) = "T" /\ (pc[u] \in UsesT \/ back[u] \in UsesT)
      BY DEF Holders
    <3>2. Place(u) \notin Referring \cup Running
      BY <2>5, <3>1 DEF RefA, InstA
    <3>3. Accounting(t)
      BY <1>1, <1>4 DEF Accounting
    <3>4. CASE back[u] = None
      <4>1. pc[u] = "pref"
        BY <3>1, <3>2, <3>4, PlacesAreLabels
           DEF Where, InPlace, Place, UsesT, Referring, Running, Serving, Labels, Checking
      <4> QED
        BY <3>1, <3>3, <4>1 DEF NoRace, Accounting
    <3>5. CASE back[u] # None
      <4>1. back[u] \in Later /\ pc[u] \in Checking
        BY <3>1, <3>5 DEF Where, InPlace
      <4>2. back[u] \in {"end", "wait"}
        BY <3>2, <3>5, <4>1 DEF Place, Later, Referring
      <4>3. pc[u] \in {"possible", "want", "test"}
        BY <3>1, <4>1, <4>2 DEF UsesT, Checking
      <4> QED
        BY <3>1, <3>3, <4>3 DEF NoRace, Accounting
    <3> QED
      BY <3>4, <3>5
  <2>7. back[t] \notin UsesT
    <3>1. Place(t) = back[t] /\ Place(t) \notin Referring
      BY <1>1, <2>5 DEF Place, RefA
    <3> QED
      BY <1>1, <3>1 DEF Later, Referring, UsesT
  <2> QED
    BY <1>4, <2>6, <2>7 DEF Erase
<1> QED
  BY <1>2, <1>3, <1>4 DEF Uses

\* As long as no two threads are accounting at once, the counters are right and nothing is
\* closed under a thread.
LEMMA CountStep == PlaceInv /\ CountInv /\ [Next]_vars => CountInv'
<1> SUFFICES ASSUME PlaceInv, CountInv, [Next]_vars, ~raced'
             PROVE  pulled' = {} /\ NoRace' /\ (Alive' => Balance' /\ Fresh')
  BY DEF CountInv
<1>1. CASE UNCHANGED vars
  <2>1. UNCHANGED <<pc, reg, back, item, refCnt, count, stopping, pulled, raced>>
    BY <1>1 DEF vars, counters, locks, events
  <2>2. ~raced /\ pulled = {} /\ NoRace /\ (Alive => Balance /\ Fresh)
    BY <2>1 DEF CountInv
  <2>3. Balance => Balance'
    BY <2>1 DEF Balance, RefA, RefB, InstA, InstB, HasPeer, Place
  <2>4. Fresh => Fresh'
    BY <2>1 DEF Fresh, FreshAt, Uses
  <2>5. NoRace'
    BY <2>1, <2>2 DEF NoRace, Accounting, Uses
  <2>6. Alive' => Alive
    BY <2>1 DEF Alive
  <2> QED
    BY <2>1, <2>2, <2>3, <2>4, <2>5, <2>6
<1>2. CASE \E t \in Threads : Step(t)
  <2>1. PICK t \in Threads : Step(t)
    BY <1>2
  <2>2. Alive
    BY <2>1 DEF Step, Main, Account, Receive, LoadEvents, LoadFails, Look, Found, NewServerFails,
                StartReceiver, NextServer, StopServers, Unregister, Exit, ReadCounter, WriteCounter,
                AskPossible, LockList, Erase, AnnounceUnload, ReleaseList, Broadcast, OnStarted,
                OnStopped, StopThrows, EndOfRun, AcceptEnds, CheckRunning, Accept, Disconnect, At
  <2>3. ~raced /\ NoRace'
    BY <2>1 DEF Step, NoRace
  <2>4. Where /\ Items /\ Handlers /\ NoRace /\ Balance /\ Fresh /\ pulled = {}
    BY <2>2, <2>3 DEF PlaceInv, CountInv
  <2>5. CASE t = "main" /\ Main
    <3>1. UNCHANGED pulled
      BY <2>5 DEF Main, LoadEvents, LoadFails, Look, Found, NewServerFails, StartReceiver,
                  NextServer, StopServers, Unregister, Exit
    <3> QED
      BY <2>2, <2>3, <2>4, <2>5, <3>1, CountMain
  <2>6. CASE Account(t)
    <3>1. Erase(t) \/ UNCHANGED pulled
      BY <2>6 DEF Account, ReadCounter, WriteCounter, AskPossible, LockList, AnnounceUnload, ReleaseList
    <3>2. pulled' = {}
      BY <2>2, <2>4, <3>1, EraseStep
    <3> QED
      BY <2>2, <2>3, <2>4, <2>6, <3>2, CountAccount
  <2>7. CASE \/ t \in Receivers /\ Receive(t)
             \/ t \in Peers /\ Disconnect(t)
    <3>1. UNCHANGED pulled
      BY <2>7 DEF Receive, Broadcast, OnStarted, OnStopped, StopThrows, EndOfRun, AcceptEnds,
                  CheckRunning, Accept, Disconnect
    <3> QED
      BY <2>2, <2>3, <2>4, <2>7, <3>1, CountServe
  <2> QED
    BY <2>1, <2>5, <2>6, <2>7 DEF Step
<1>3. CASE Callback
  <2>1. /\ UNCHANGED <<reg, back, item, refCnt, count, stopping, pulled, raced>>
        /\ Alive /\ (UNCHANGED pc \/ Goes("main", "terminated"))
    BY <1>3 DEF Callback, counters
  <2>2. ~raced /\ pulled = {} /\ NoRace /\ Balance /\ Fresh
    BY <2>1 DEF CountInv
  <2>3. CASE UNCHANGED pc
    <3>1. NoRace'
      BY <2>1, <2>2, <2>3 DEF NoRace, Accounting, Uses
    <3>2. Balance' /\ Fresh'
      BY <2>1, <2>2, <2>3 DEF Balance, RefA, RefB, InstA, InstB, HasPeer, Place, Fresh, FreshAt, Uses
    <3> QED
      BY <2>1, <2>2, <3>1, <3>2
  <2>4. CASE Goes("main", "terminated")
    <3>1. ~Alive' /\ pc'["main"] = "terminated" /\ \A t \in Threads \ {"main"} : pc'[t] = pc[t]
      BY <2>1, <2>4 DEF Alive, Goes, PlaceInv, Where, Threads
    <3>2. NoRace'
      BY <2>1, <2>2, <3>1 DEF NoRace, Accounting, Uses
    <3> QED
      BY <2>1, <2>2, <3>1, <3>2
  <2> QED
    BY <2>1, <2>3, <2>4
<1> QED
  BY <1>1, <1>2, <1>3 DEF Next

LEMMA InitCounts == Init => CountInv
<1> SUFFICES ASSUME Init PROVE pulled = {} /\ NoRace /\ Balance /\ Fresh
  BY DEF CountInv
<1> USE PluginThreadsOK DEF Init, Threads
<1>1. RefA = {} /\ RefB = {} /\ InstA = {} /\ InstB = {}
  BY DEF RefA, RefB, InstA, InstB, HasPeer, Place, Referring, Asking, Running, Serving
<1>2. Balance
  BY <1>1, FS_EmptySet DEF Balance, Plugins
<1>3. Fresh
  BY DEF Fresh, FreshAt
<1>4. NoRace
  BY DEF NoRace, Accounting
<1> QED
  BY <1>2, <1>3, <1>4

\* As long as no two threads are accounting at once, a plugin is closed only when
\* nobody will use it again.
THEOREM NothingIsClosedInUse == Spec => []ClosedIsUnused
<1>1. CountInv => ClosedIsUnused
  BY DEF CountInv, ClosedIsUnused
<1> QED
  BY <1>1, InitPlaces, PlaceStep, InitCounts, CountStep, PTL DEF Spec

=============================================================================
