----------------------------- MODULE PluginList -----------------------------
(***************************************************************************)
(* Which plugins are in memory (src/pluginlist.cpp, plugin.h): a handle    *)
(* per plugin with a count of references, a count of instances inside the  *)
(* plugin, and threads that unload it when they think they were the last.  *)
(* "T" is a transport plugin: every receiver holds a reference to it and a *)
(* server instance, every peer an instance.  "E" is an event plugin, here  *)
(* avahi-publish, referred to by the event sink while it is registered.    *)
(***************************************************************************)
EXTENDS Integers, FiniteSets

CONSTANTS Receivers,    \* connectionReceiver_t threads, all of plugin "T"
          Peers,        \* dataReceiver_t threads
          None          \* no value, no label, no thread

\* Where a thread will still use "T", its handle or its creator; everywhere.
UsesT == {"pref", "as", "new", "unas", "unasFailed", "unpref", "start", "started",
          "onStarted", "accept", "accepted", "check", "leave", "onStopped", "endOfRun",
          "dropPeer", "delServer", "run", "delPeer", "possible", "want", "test"}
Labels == UsesT \cup {"absent", "end", "forget", "wait", "announce", "release", "events",
                      "add", "unlock", "unregister", "exit", "terminated"}

ASSUME PluginThreadsOK ==
    /\ IsFiniteSet(Receivers) /\ IsFiniteSet(Peers)
    /\ Receivers \cap Peers = {}
    /\ {"main", "free", "lost"} \cap (Receivers \cup Peers) = {}
    /\ None \notin Receivers \cup Peers \cup Labels

VARIABLES
    pc,            \* where each thread is
    reg,           \* a counter value a thread has read and not written back
    back,          \* where a thread goes on after checkUnload
    item,          \* the receiver main constructs, the peer a receiver accepted
    listed,        \* storage: the plugins that are listed and in memory
    refCnt, count, \* references to each handle, instances of "T"
    modify,        \* who holds modifyMutex
    sink,          \* who holds the sink's mMutex
    registered,    \* is the handler of "E" in the sink?
    published,     \* the servers "E" has in its map
    announced,     \* the servers it last committed: what the network is told
    poll,          \* "kept" by a handler of "E" that returned with avahi's lock
    stopping,      \* main has told the receivers to stop
    pulled,        \* threads that had a plugin unloaded under them
    raced          \* (history) have two threads been accounting at once?

locks    == <<modify, sink>>
counters == <<refCnt, count, reg>>
events   == <<registered, published, announced, poll>>
vars == <<pc, counters, back, item, listed, locks, events, stopping, pulled, raced>>

Threads == {"main"} \cup Receivers \cup Peers
Plugins == {"T", "E"}

Init ==
    /\ pc = [t \in Threads |-> IF t = "main" THEN "events" ELSE "absent"]
    /\ reg = [t \in Threads |-> None]
    /\ back = [t \in Threads |-> None]
    /\ item = [t \in Threads |-> None]
    /\ listed = {} /\ refCnt = [p \in Plugins |-> 0] /\ count = 0
    /\ modify = "free" /\ sink = "free"
    /\ registered = FALSE /\ published = {} /\ announced = {} /\ poll = "free"
    /\ stopping = FALSE /\ pulled = {} /\ raced = FALSE

\* Nothing is known of a program that ran through unmapped code.
Alive == pulled = {} /\ pc["main"] # "terminated"
At(t, l) == Alive /\ pc[t] = l
Goes(t, l) == pc' = [pc EXCEPT ![t] = l]

\* main unloads "E" only after it has stopped the servers.
Uses(t) == IF t = "main" /\ stopping THEN "E" ELSE "T"

UnloadPossible(p) == p = "E" \/ count = 0

\* Mutant: the instances alone decide.
IsUnloadableByCount(p) == UnloadPossible(p)

IsUnloadable(p) == refCnt[p] = 0 /\ UnloadPossible(p)

HasServer == {"started", "onStarted", "accept", "accepted", "check", "leave", "onStopped"}

\* The threads that will still use plugin p, its handle or its creator.
Holders(p) ==
    IF p = "T" THEN {t \in Threads : Uses(t) = "T" /\ (pc[t] \in UsesT \/ back[t] \in UsesT)}
    ELSE {r \in Receivers : pc[r] \in {"onStarted", "onStopped"}}

\* Inside the code that assumes it is alone: a counter read and not written back,
\* the way from a count of zero to the answer of isUnloadable, and the handle that
\* operator[] has found and not yet referred to.
Accounting(t) ==
    /\ Uses(t) = "T"
    /\ reg[t] # None \/ pc[t] \in {"possible", "want", "test", "pref"}

-----------------------------------------------------------------------------
(* Counters.                                                               *)

\* What a thread does to a counter, and where it goes on: BPluginRef and PluginPtr
\* count references, pluginInstance_t counts instances.
Accounts ==
    { [from |-> "pref",       ctr |-> "ref",   by |-> 1,  to |-> "as"],
      [from |-> "as",         ctr |-> "ref",   by |-> 1,  to |-> "new"],
      [from |-> "new",        ctr |-> "count", by |-> 1,  to |-> "unas"],
      [from |-> "unas",       ctr |-> "ref",   by |-> -1, to |-> "start"],
      [from |-> "unasFailed", ctr |-> "ref",   by |-> -1, to |-> "unpref"],
      [from |-> "unpref",     ctr |-> "ref",   by |-> -1, to |-> "end"],
      [from |-> "forget",     ctr |-> "ref",   by |-> -1, to |-> "wait"],
      [from |-> "accepted",   ctr |-> "count", by |-> 1,  to |-> "check"],
      [from |-> "dropPeer",   ctr |-> "count", by |-> -1, to |-> "delServer"],
      [from |-> "delServer",  ctr |-> "count", by |-> -1, to |-> "unpref"],
      [from |-> "delPeer",    ctr |-> "count", by |-> -1, to |-> "end"] }

\* ++ and -- of a plain integer: read, and then write.
ReadCounter(t, a) ==
    /\ At(t, a.from) /\ reg[t] = None
    /\ reg' = [reg EXCEPT ![t] = IF a.ctr = "ref" THEN refCnt[Uses(t)] ELSE count]
    /\ UNCHANGED <<pc, back, item, listed, refCnt, count, locks, events, stopping, pulled>>

\* Mutant: an instance that goes leaves the unloading to others.
AsksAfterReferences(a, value) == a.by = -1 /\ a.ctr = "ref" /\ value = 0

\* decRC asks whether it was the last reference, reset() asks the creator.
AsksForUnload(a, value) == a.by = -1 /\ (a.ctr = "ref" => value = 0)

WriteCounter(t, a) ==
    /\ At(t, a.from) /\ reg[t] # None
    /\ LET value == reg[t] + a.by IN
       /\ IF a.ctr = "ref"
          THEN refCnt' = [refCnt EXCEPT ![Uses(t)] = value] /\ UNCHANGED count
          ELSE count' = value /\ UNCHANGED refCnt
       /\ IF AsksForUnload(a, value)
          THEN Goes(t, "possible") /\ back' = [back EXCEPT ![t] = a.to]
          ELSE Goes(t, a.to) /\ UNCHANGED back
    /\ reg' = [reg EXCEPT ![t] = None]
    /\ UNCHANGED <<item, listed, locks, events, stopping, pulled>>

-----------------------------------------------------------------------------
(* Unloading.                                                              *)

\* No lock is held here.
AskPossible(t) ==
    /\ At(t, "possible")
    /\ Goes(t, IF UnloadPossible(Uses(t)) THEN "want" ELSE back[t])
    /\ back' = [back EXCEPT ![t] = IF UnloadPossible(Uses(t)) THEN @ ELSE None]
    /\ UNCHANGED <<counters, item, listed, locks, events, stopping, pulled>>

\* pluginList_t::checkUnload
LockList(t) ==
    /\ At(t, "want") /\ modify = "free"
    /\ modify' = t /\ Goes(t, "test")
    /\ UNCHANGED <<counters, back, item, listed, sink, events, stopping, pulled>>

Erase(t) ==
    /\ At(t, "test")
    /\ IF IsUnloadable(Uses(t))
       THEN /\ listed' = listed \ {Uses(t)}
            /\ IF Uses(t) = "E" THEN published' = {} /\ announced' = {}
               ELSE UNCHANGED <<published, announced>>
            /\ pulled' = Holders(Uses(t)) \ (IF back[t] \in UsesT THEN {} ELSE {t})
            /\ Goes(t, "announce")
       ELSE Goes(t, "release") /\ UNCHANGED <<listed, published, announced, pulled>>
    /\ UNCHANGED <<counters, back, item, locks, registered, poll, stopping>>

\* sendPluginUnload, with modifyMutex held: the sink's mutex is taken and given
\* back; the only handler is InternalEventHandler, which wakes main.
AnnounceUnload(t) ==
    /\ At(t, "announce") /\ sink = "free"
    /\ Goes(t, "release")
    /\ UNCHANGED <<counters, back, item, listed, locks, events, stopping, pulled>>

ReleaseList(t) ==
    /\ At(t, "release")
    /\ modify' = "free" /\ Goes(t, back[t]) /\ back' = [back EXCEPT ![t] = None]
    /\ UNCHANGED <<counters, item, listed, sink, events, stopping, pulled>>

-----------------------------------------------------------------------------
(* The main thread.                                                        *)

\* loadEventPlugin, or the configuration names none; no other thread exists yet.
LoadEvents ==
    /\ At("main", "events")
    /\ \/ UNCHANGED <<listed, refCnt, registered>>
       \/ listed' = {"E"} /\ refCnt' = [refCnt EXCEPT !["E"] = 1] /\ registered' = TRUE
    /\ Goes("main", "add")
    /\ UNCHANGED <<reg, count, back, item, locks, published, announced, poll, stopping, pulled>>

\* operator[] throws with the mutex locked; main reports it and goes on.
LoadFails(p) ==
    /\ p \notin listed /\ modify = "free"
    /\ \/ p = "E" /\ At("main", "events")
       \/ p = "T" /\ At("main", "add")
    /\ modify' = "lost" /\ Goes("main", "add")
    /\ UNCHANGED <<counters, back, item, listed, sink, events, stopping, pulled>>

\* operator[] for a new receiver: the plugin is loaded unless it is there.
Look(r) ==
    /\ At("main", "add") /\ pc[r] = "absent" /\ modify = "free"
    /\ modify' = "main" /\ listed' = listed \cup {"T"}
    /\ item' = [item EXCEPT !["main"] = r]
    /\ Goes("main", "unlock")
    /\ UNCHANGED <<counters, back, sink, events, stopping, pulled>>

Found ==
    /\ At("main", "unlock")
    /\ modify' = "free" /\ Goes("main", "pref")
    /\ UNCHANGED <<counters, back, item, listed, sink, events, stopping, pulled>>

\* newServer answers NULL, or the plugin is not one for connections.
NewServerFails ==
    /\ At("main", "new") /\ reg["main"] = None
    /\ Goes("main", "unasFailed")
    /\ UNCHANGED <<counters, back, item, listed, locks, events, stopping, pulled>>

StartReceiver ==
    /\ At("main", "start")
    /\ pc' = [pc EXCEPT !["main"] = "add", ![item["main"]] = "started"]
    /\ item' = [item EXCEPT !["main"] = None]
    /\ UNCHANGED <<counters, back, listed, locks, events, stopping, pulled>>

NextServer ==
    /\ At("main", "end")
    /\ Goes("main", "add") /\ item' = [item EXCEPT !["main"] = None]
    /\ UNCHANGED <<counters, back, listed, locks, events, stopping, pulled>>

StopServers ==
    /\ At("main", "add")
    /\ stopping' = TRUE
    /\ Goes("main", IF registered THEN "unregister" ELSE "wait")
    /\ UNCHANGED <<counters, back, item, listed, locks, events, pulled>>

\* unregEvents; then the sink forgets its reference.
Unregister ==
    /\ At("main", "unregister") /\ sink = "free"
    /\ registered' = FALSE /\ Goes("main", "forget")
    /\ UNCHANGED <<counters, back, item, listed, locks, published, announced, poll, stopping,
                   pulled>>

\* pl.count() of the second loop
Exit ==
    /\ At("main", "wait") /\ modify = "free" /\ listed = {}
    /\ Goes("main", "exit")
    /\ UNCHANGED <<counters, back, item, listed, locks, events, stopping, pulled>>

-----------------------------------------------------------------------------
(* Receivers and peers.                                                    *)

\* bcastServerStarted and bcastServerStopped: handlers run with mMutex held.
Broadcast(r) ==
    /\ Alive /\ pc[r] \in {"started", "leave"} /\ sink = "free"
    /\ IF registered
       THEN sink' = r /\ Goes(r, IF pc[r] = "started" THEN "onStarted" ELSE "onStopped")
       ELSE UNCHANGED sink /\ Goes(r, IF pc[r] = "started" THEN "accept" ELSE "endOfRun")
    /\ UNCHANGED <<counters, back, item, listed, modify, events, stopping, pulled>>

\* The handlers and avahi's own thread exclude each other by the poll lock; who finds
\* the controller in the map, or does not, returns with the lock and keeps it.

\* createServices with the map pub: nothing happens while the map is empty, or when no
\* group can be made; else the group is reset, filled and committed.
CreateServices(pub) ==
    \/ (pub = {} \/ announced = {}) /\ UNCHANGED announced
    \/ pub # {} /\ announced' = pub

\* The commit fails after the reset, and createServices throws.
CommitFails(pub) == pub # {} /\ announced' = {}

\* Without a port in the configuration, or memory, nothing is put into the map; exceptions
\* are caught here.
OnStarted(r) ==
    /\ At(r, "onStarted") /\ poll = "free"
    /\ \/ r \in published /\ poll' = "kept" /\ UNCHANGED <<published, announced>>
       \/ r \notin published /\ UNCHANGED <<published, announced, poll>>
       \/ /\ r \notin published /\ published' = published \cup {r} /\ UNCHANGED poll
          /\ CreateServices(published') \/ CommitFails(published')
    /\ sink' = "free" /\ Goes(r, "accept")
    /\ UNCHANGED <<counters, back, item, listed, modify, registered, stopping, pulled>>

\* Mutant: what is stopped stays in the map.
OnStoppedForgotten(r) ==
    /\ At(r, "onStopped") /\ poll = "free"
    /\ sink' = "free" /\ Goes(r, "endOfRun")
    /\ UNCHANGED <<counters, back, item, listed, modify, events, stopping, pulled>>

OnStopped(r) ==
    /\ At(r, "onStopped") /\ poll = "free"
    /\ \/ r \notin published /\ poll' = "kept" /\ UNCHANGED <<published, announced>>
       \/ /\ r \in published /\ published' = published \ {r} /\ UNCHANGED poll
          /\ CreateServices(published')
    /\ sink' = "free" /\ Goes(r, "endOfRun")
    /\ UNCHANGED <<counters, back, item, listed, modify, registered, stopping, pulled>>

\* createServices throws out of onStopped, which is declared to throw nothing.
StopThrows(r) ==
    /\ At(r, "onStopped") /\ poll = "free" /\ r \in published
    /\ CommitFails(published \ {r})
    /\ Goes("main", "terminated")
    /\ UNCHANGED <<counters, back, item, listed, locks, registered, published, poll,
                   stopping, pulled>>

\* Avahi calls back: the host name is being registered (the group is reset), the daemon
\* runs or the name collides (createServices), or it fails; what is thrown here ends
\* the program.
Callback ==
    /\ Alive /\ "E" \in listed /\ poll = "free"
    /\ \/ (CreateServices(published) \/ announced' = {}) /\ UNCHANGED pc
       \/ Goes("main", "terminated") /\ UNCHANGED announced
    /\ UNCHANGED <<counters, back, item, listed, locks, registered, published, poll,
                   stopping, pulled, raced>>

Accept(r, p) ==
    /\ At(r, "accept") /\ pc[p] = "absent" /\ \A q \in Receivers : item[q] # p
    /\ item' = [item EXCEPT ![r] = p] /\ Goes(r, "accepted")
    /\ UNCHANGED <<counters, back, listed, locks, events, stopping, pulled>>

\* acceptClient answers NULL: the server was stopped, or accept() failed.
AcceptEnds(r) ==
    /\ At(r, "accept")
    /\ Goes(r, "leave")
    /\ UNCHANGED <<counters, back, item, listed, locks, events, stopping, pulled>>

CheckRunning(r) ==
    /\ At(r, "check")
    /\ IF stopping THEN Goes(r, "leave") /\ UNCHANGED item
       ELSE /\ pc' = [pc EXCEPT ![r] = "accept", ![item[r]] = "run"]
            /\ item' = [item EXCEPT ![r] = None]
    /\ UNCHANGED <<counters, back, listed, locks, events, stopping, pulled>>

\* Local variables go first, the server with the thread's object afterwards.
EndOfRun(r) ==
    /\ At(r, "endOfRun")
    /\ Goes(r, IF item[r] = None THEN "delServer" ELSE "dropPeer")
    /\ item' = [item EXCEPT ![r] = None]
    /\ UNCHANGED <<counters, back, listed, locks, events, stopping, pulled>>

Disconnect(p) ==
    /\ At(p, "run")
    /\ Goes(p, "delPeer")
    /\ UNCHANGED <<counters, back, item, listed, locks, events, stopping, pulled>>

Main ==
    \/ LoadEvents \/ \E p \in Plugins : LoadFails(p)
    \/ \E r \in Receivers : Look(r)
    \/ Found \/ NewServerFails \/ StartReceiver \/ NextServer
    \/ StopServers \/ Unregister \/ Exit

Account(t) ==
    \/ \E a \in Accounts : ReadCounter(t, a) \/ WriteCounter(t, a)
    \/ AskPossible(t) \/ LockList(t) \/ Erase(t) \/ AnnounceUnload(t) \/ ReleaseList(t)

Receive(r) ==
    \/ Broadcast(r) \/ OnStarted(r) \/ OnStopped(r) \/ StopThrows(r) \/ EndOfRun(r)
    \/ AcceptEnds(r) \/ CheckRunning(r) \/ \E p \in Peers : Accept(r, p)

\* raced' is a history of what Accounting says.
Step(t) ==
    /\ \/ t = "main" /\ Main
       \/ Account(t)
       \/ t \in Receivers /\ Receive(t)
       \/ t \in Peers /\ Disconnect(t)
    /\ raced' = (raced \/ \E u, v \in Threads : u # v /\ Accounting(u)' /\ Accounting(v)')

Next == Callback \/ \E t \in Threads : Step(t)

Spec == Init /\ [][Next]_vars

\* A thread that can go on does; a connection ends some time, as does loading.
\* Nothing is asked of avahi's thread.
FairSpec == Spec /\ \A t \in Threads : WF_vars(Step(t))

-----------------------------------------------------------------------------
(* Properties.                                                             *)

\* Every variable keeps its range; a counter may go wrong only after a race.
TypeOK ==
    /\ pc \in [Threads -> Labels]
    /\ back \in [Threads -> Labels \cup {None}]
    /\ item \in [Threads -> Receivers \cup Peers \cup {None}]
    /\ reg \in [Threads -> Int \cup {None}]
    /\ listed \subseteq Plugins /\ pulled \subseteq Threads 
    /\ published \subseteq Receivers /\ announced \subseteq Receivers
    /\ refCnt \in [Plugins -> Int] /\ count \in Int
    /\ ~raced => count \in Nat /\ \A p \in Plugins : refCnt[p] \in Nat
    /\ modify \in Threads \cup {"free", "lost"} /\ sink \in Threads \cup {"free"}
    /\ poll \in {"free", "kept"}
    /\ <<registered, stopping, raced>> \in BOOLEAN \X BOOLEAN \X BOOLEAN

\* As long as no two threads are accounting at once, no plugin is closed under a
\* thread that will use it again, that is, under its own last user or in the middle
\* of an event handler.
ClosedIsUnused == ~raced => pulled = {}

\* The network is told of servers in the map of avahi-publish only, but for one: the
\* last to stop stays announced until the plugin goes or another server starts.
Told == IF published = {} THEN \A q, r \in announced : q = r ELSE announced \subseteq published

\* A server in that map exists: the map keeps the bare address of the controller, which
\* deletes itself.  And what the network is told follows the map, as far as Told says.
PublishedExist == Alive /\ registered => Told /\ \A r \in published : pc[r] \in HasServer

\* Once the servers are told to stop, every plugin is unloaded and main ends, unless
\* a plugin that failed to load kept the mutex, a handler of avahi-publish kept the poll
\* lock (a server that could not be put into the map is not found there), or threads
\* have raced.
ListEmpties ==
    stopping ~> \/ pc["main"] \in {"exit", "terminated"}
                \/ modify = "lost" \/ poll = "kept" \/ raced

=============================================================================
