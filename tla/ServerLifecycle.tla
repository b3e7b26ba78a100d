--------------------------- MODULE ServerLifecycle ---------------------------
(***************************************************************************)
(* The life of the server process (src/server.cpp): the main thread       *)
(* starts one connection receiver per configured server, sleeps on a pipe *)
(* until a signal or an ending thread wakes it, stops the receivers, and  *)
(* returns when no plugin or no thread is left.  All receivers use one    *)
(* communication plugin with asynchronous stop, as ip4tcp is; the plugin  *)
(* stays loaded while a receiver or a peer exists.  A client's connection *)
(* is served by a thread of its own, which may leave a writer thread      *)
(* behind (FileWriter has what those two do).                             *)
(***************************************************************************)
EXTENDS Naturals, Sequences, FiniteSets

CONSTANTS Receivers,    \* the connectionReceiver_t threads
          Clients,      \* the dataReceiver_t threads
          Writers,      \* the fileWriter_t threads
          None,         \* no client
          MaxThreads    \* bound: receivers, clients and writers in a behaviour

ASSUME ThreadsOK ==
    /\ Receivers \cap Clients = {} /\ Receivers \cap Writers = {}
    /\ Clients \cap Writers = {} /\ None \notin Receivers \cup Clients \cup Writers
    /\ IsFiniteSet(Receivers \cup Clients \cup Writers)
    /\ MaxThreads \in Nat

VARIABLES
    mpc,                      \* where the main thread is
    pc,                       \* where every other thread is
    stopApp, stopAppFast,     \* set by SIGINT and SIGTERM
    pipe,                     \* characters nobody has read
    threadQueue, queueMutex,  \* threads to be joined
    threadCount,
    servers,                  \* the pointers in serverList_t
    running, runningmutex,    \* of each receiver
    stopBytes,                \* calls of the plugin's stop() not yet noticed
    client,                   \* the peer a receiver has just accepted
    failed,                   \* receivers whose accept() failed
    eventPlugin,              \* is an event plugin loaded?
    fate                      \* has freed memory been touched?

stops   == <<servers, running, runningmutex, stopBytes>>
joining == <<threadQueue, queueMutex, threadCount>>
signals == <<stopApp, stopAppFast>>
vars == <<mpc, pc, signals, pipe, joining, stops, client, failed, eventPlugin, fate>>

Threads == Receivers \cup Clients \cup Writers

MayStart == Cardinality({t \in Threads : pc[t] # "absent"}) < MaxThreads

\* A thread that was started and whose end main has not waited for yet.
Unjoined(t) == pc[t] \notin {"absent", "peer", "dropped", "joined"}
Deleted(r)  == pc[r] \in {"dead", "joined"}

PluginUsers ==
    {r \in Receivers : pc[r] \notin {"absent", "dead", "joined"}}
      \cup {c \in Clients : pc[c] \notin {"absent", "dropped", "dead", "joined"}}
Count == (IF PluginUsers = {} THEN 0 ELSE 1) + (IF eventPlugin THEN 1 ELSE 0)

Init ==
    /\ mpc = "add"
    /\ pc = [t \in Threads |-> "absent"]
    /\ stopApp = FALSE /\ stopAppFast = FALSE
    /\ pipe = 0 /\ threadQueue = <<>> /\ queueMutex = "free" /\ threadCount = 0
    /\ servers = {}
    /\ running = [r \in Receivers |-> TRUE]
    /\ runningmutex = [r \in Receivers |-> "free"]
    /\ stopBytes = [r \in Receivers |-> 0]
    /\ client = [r \in Receivers |-> None]
    /\ failed = {}
    /\ eventPlugin \in BOOLEAN
    /\ fate = "running"

Alive == fate = "running" /\ mpc # "exit"
MainAt(l) == Alive /\ mpc = l
MainGoes(l) == mpc' = l
At(t, l) == Alive /\ pc[t] = l
Goes(t, l) == pc' = [pc EXCEPT ![t] = l]

unfreezeMainThread == pipe' = pipe + 1

-----------------------------------------------------------------------------
(* Signals; they are blocked in every thread but main.                     *)

SigInt ==
    /\ Alive /\ ~stopApp
    /\ stopApp' = TRUE /\ unfreezeMainThread
    /\ UNCHANGED <<mpc, pc, stopAppFast, joining, stops, client, failed, eventPlugin, fate>>

SigTerm ==
    /\ Alive /\ ~stopAppFast
    /\ stopApp' = TRUE /\ stopAppFast' = TRUE /\ unfreezeMainThread
    /\ UNCHANGED <<mpc, pc, joining, stops, client, failed, eventPlugin, fate>>

-----------------------------------------------------------------------------
(* The main thread.                                                        *)

\* serverList_t::add: the receiver is listed, and then its thread is started.
AddServer(r) ==
    /\ MainAt("add") /\ pc[r] = "absent" /\ MayStart
    /\ servers' = servers \cup {r}
    /\ Goes(r, "accept")
    /\ threadCount' = threadCount + 1
    /\ UNCHANGED <<mpc, signals, pipe, threadQueue, queueMutex, running, runningmutex,
                   stopBytes, client, failed, eventPlugin, fate>>

\* The configuration names fewer servers, or newServer fails for the others.
Loaded ==
    /\ MainAt("add")
    /\ MainGoes("test")
    /\ UNCHANGED <<pc, signals, pipe, joining, stops, client, failed, eventPlugin, fate>>

\* The three values are read one after the other.  stopApp is only ever set, no
\* plugin is loaded again and only main makes threadCount smaller, so the answer
\* is one that a single look could have given.
Test ==
    /\ MainAt("test")
    /\ MainGoes(IF ~stopApp /\ Count > 0 /\ threadCount > 0 THEN "freeze" ELSE "remove")
    /\ UNCHANGED <<pc, signals, pipe, joining, stops, client, failed, eventPlugin, fate>>

\* Mutant: the first signal is enough to leave at once.
WaitsUntilStopped == ~stopApp

WaitsOn == ~stopAppFast

TestAgain ==
    /\ MainAt("testAgain")
    /\ MainGoes(IF WaitsOn /\ Count > 0 /\ threadCount > 0 THEN "freezeAgain" ELSE "exit")
    /\ UNCHANGED <<pc, signals, pipe, joining, stops, client, failed, eventPlugin, fate>>

\* select() and read(), and then the queue is locked.
Freeze(from, to) ==
    /\ MainAt(from)
    /\ pipe > 0
    /\ pipe' = pipe - 1 /\ queueMutex' = "main"
    /\ MainGoes(to)
    /\ UNCHANGED <<pc, signals, threadQueue, threadCount, stops, client, failed,
                   eventPlugin, fate>>

\* pthread_join waits for the thread with the queue locked.
Join(at) ==
    /\ MainAt(at)
    /\ threadQueue # <<>> /\ pc[Head(threadQueue)] = "dead"
    /\ Goes(Head(threadQueue), "joined")
    /\ threadQueue' = Tail(threadQueue)
    /\ threadCount' = threadCount - 1
    /\ UNCHANGED <<mpc, signals, pipe, queueMutex, stops, client, failed, eventPlugin, fate>>

Joined(from, to) ==
    /\ MainAt(from)
    /\ threadQueue = <<>>
    /\ queueMutex' = "free"
    /\ MainGoes(to)
    /\ UNCHANGED <<pc, signals, pipe, threadQueue, threadCount, stops, client, failed,
                   eventPlugin, fate>>

\* serverList_t::remove calls stop() on every pointer in the list; a receiver
\* whose thread has ended has deleted itself and is still in it.
Stop(r) ==
    /\ MainAt("remove") /\ r \in servers
    /\ IF Deleted(r)
       THEN fate' = "undefined" /\ UNCHANGED <<mpc, running, runningmutex>>
       ELSE /\ MainGoes("stopping")
            /\ runningmutex' = [runningmutex EXCEPT ![r] = "main"]
            /\ running' = [running EXCEPT ![r] = FALSE]
            /\ UNCHANGED fate
    /\ UNCHANGED <<pc, signals, pipe, joining, servers, stopBytes, client, failed, eventPlugin>>

\* Mutant: the plugin is not told.
StopQuietly(r) ==
    /\ MainAt("stopping") /\ runningmutex[r] = "main"
    /\ IF Deleted(r) THEN fate' = "undefined" /\ UNCHANGED mpc
                     ELSE MainGoes("release") /\ UNCHANGED fate
    /\ UNCHANGED <<pc, signals, pipe, joining, stops, client, failed, eventPlugin>>

\* asyncStop_t::stop of the plugin.
StopPlugin(r) ==
    /\ MainAt("stopping") /\ runningmutex[r] = "main"
    /\ IF Deleted(r)
       THEN fate' = "undefined" /\ UNCHANGED <<mpc, stopBytes>>
       ELSE /\ MainGoes("release")
            /\ stopBytes' = [stopBytes EXCEPT ![r] = @ + 1]
            /\ UNCHANGED fate
    /\ UNCHANGED <<pc, signals, pipe, joining, servers, running, runningmutex, client,
                   failed, eventPlugin>>

\* The receiver may have noticed by now.
StopReturns(r) ==
    /\ MainAt("release") /\ runningmutex[r] = "main"
    /\ IF Deleted(r)
       THEN fate' = "undefined" /\ UNCHANGED <<mpc, servers, runningmutex>>
       ELSE /\ MainGoes("remove")
            /\ runningmutex' = [runningmutex EXCEPT ![r] = "free"]
            /\ servers' = servers \ {r}
            /\ UNCHANGED fate
    /\ UNCHANGED <<pc, signals, pipe, joining, running, stopBytes, client, failed, eventPlugin>>

\* The list is empty; event plugins are unloaded, which InternalEventHandler hears.
UnloadEvents ==
    /\ MainAt("remove") /\ servers = {}
    /\ eventPlugin' = FALSE
    /\ IF eventPlugin THEN unfreezeMainThread ELSE UNCHANGED pipe
    /\ MainGoes("testAgain")
    /\ UNCHANGED <<pc, signals, joining, stops, client, failed, fate>>

Main ==
    \/ \E r \in Receivers : AddServer(r) \/ Stop(r) \/ StopPlugin(r) \/ StopReturns(r)
    \/ Loaded \/ Test \/ TestAgain \/ UnloadEvents
    \/ Freeze("freeze", "join") \/ Join("join") \/ Joined("join", "test")
    \/ Freeze("freezeAgain", "joinAgain") \/ Join("joinAgain")
    \/ Joined("joinAgain", "testAgain")

-----------------------------------------------------------------------------
(* Connection receivers.                                                   *)

\* acceptClient looks at its own pipe first.
Accept(r, c) ==
    /\ At(r, "accept") /\ stopBytes[r] = 0 /\ pc[c] = "absent" /\ MayStart
    /\ pc' = [pc EXCEPT ![r] = "check", ![c] = "peer"]
    /\ client' = [client EXCEPT ![r] = c]
    /\ UNCHANGED <<mpc, signals, pipe, joining, stops, failed, eventPlugin, fate>>

AcceptStopped(r) ==
    /\ At(r, "accept") /\ stopBytes[r] > 0
    /\ stopBytes' = [stopBytes EXCEPT ![r] = @ - 1]
    /\ Goes(r, "leave")
    /\ UNCHANGED <<mpc, signals, pipe, joining, servers, running, runningmutex, client,
                   failed, eventPlugin, fate>>

\* accept() reports an error, and acceptClient answers as if it was stopped.
AcceptFails(r) ==
    /\ At(r, "accept") /\ stopBytes[r] = 0
    /\ failed' = failed \cup {r}
    /\ Goes(r, "leave")
    /\ UNCHANGED <<mpc, signals, pipe, joining, stops, client, eventPlugin, fate>>

CheckRunning(r) ==
    /\ At(r, "check") /\ runningmutex[r] = "free"
    /\ Goes(r, IF running[r] THEN "serve" ELSE "leave")
    /\ UNCHANGED <<mpc, signals, pipe, joining, stops, client, failed, eventPlugin, fate>>

ServeClient(r) ==
    /\ At(r, "serve")
    /\ pc' = [pc EXCEPT ![r] = "accept", ![client[r]] = "run"]
    /\ client' = [client EXCEPT ![r] = None]
    /\ threadCount' = threadCount + 1
    /\ UNCHANGED <<mpc, signals, pipe, threadQueue, queueMutex, stops, failed, eventPlugin, fate>>

\* Mutant: stop() is not waited for.
LeaveAtOnce(r) ==
    /\ At(r, "leave")
    /\ Goes(r, "stopped")
    /\ UNCHANGED <<mpc, signals, pipe, joining, stops, client, failed, eventPlugin, fate>>

\* The "synchronization trick": a stop() in progress is waited for.
Leave(r) ==
    /\ At(r, "leave") /\ runningmutex[r] = "free"
    /\ Goes(r, "stopped")
    /\ UNCHANGED <<mpc, signals, pipe, joining, stops, client, failed, eventPlugin, fate>>

\* The end of run(); a peer that was accepted too late is dropped.
ServerStopped(r) ==
    /\ At(r, "stopped")
    /\ unfreezeMainThread
    /\ pc' = [t \in Threads |-> IF t = r THEN "queue"
                                ELSE IF t = client[r] THEN "dropped" ELSE pc[t]]
    /\ client' = [client EXCEPT ![r] = None]
    /\ UNCHANGED <<mpc, signals, joining, stops, failed, eventPlugin, fate>>

-----------------------------------------------------------------------------
(* Clients and writers.                                                    *)

StartWriter(c, w) ==
    /\ At(c, "run") /\ pc[w] = "absent" /\ MayStart
    /\ Goes(w, "run")
    /\ threadCount' = threadCount + 1
    /\ UNCHANGED <<mpc, signals, pipe, threadQueue, queueMutex, stops, client, failed,
                   eventPlugin, fate>>

\* The connection has ended, or the file is written.
EndOfRun(t) ==
    /\ At(t, "run")
    /\ Goes(t, "queue")
    /\ UNCHANGED <<mpc, signals, pipe, joining, stops, client, failed, eventPlugin, fate>>

-----------------------------------------------------------------------------
(* delThread, for every kind of thread.                                    *)

\* threadAboutToExit
AboutToExit(t) ==
    /\ At(t, "queue") /\ queueMutex = "free"
    /\ threadQueue' = Append(threadQueue, t)
    /\ Goes(t, "notify")
    /\ UNCHANGED <<mpc, signals, pipe, queueMutex, threadCount, stops, client, failed,
                   eventPlugin, fate>>

\* Mutant: the main thread is not woken.
NotifyNobody(t) ==
    /\ At(t, "notify")
    /\ Goes(t, "delete")
    /\ UNCHANGED <<mpc, signals, pipe, joining, stops, client, failed, eventPlugin, fate>>

Notify(t) ==
    /\ At(t, "notify")
    /\ unfreezeMainThread
    /\ Goes(t, "delete")
    /\ UNCHANGED <<mpc, signals, joining, stops, client, failed, eventPlugin, fate>>

\* The object deletes itself; the last user of the plugin unloads it, which
\* InternalEventHandler hears.
Delete(t) ==
    /\ At(t, "delete")
    /\ Goes(t, "dead")
    /\ IF PluginUsers = {t} THEN unfreezeMainThread ELSE UNCHANGED pipe
    /\ UNCHANGED <<mpc, signals, joining, stops, client, failed, eventPlugin, fate>>

\* What a thread does unless the world outside has to do something first.
Work(t) ==
    \/ t \in Receivers /\ (\/ AcceptStopped(t) \/ CheckRunning(t) \/ ServeClient(t)
                           \/ Leave(t) \/ ServerStopped(t))
    \/ EndOfRun(t) \/ AboutToExit(t) \/ Notify(t) \/ Delete(t)

Outside ==
    \/ SigInt \/ SigTerm
    \/ \E r \in Receivers : AcceptFails(r) \/ \E c \in Clients : Accept(r, c)
    \/ \E c \in Clients, w \in Writers : StartWriter(c, w)

Next == Main \/ Outside \/ \E t \in Threads : Work(t)

Spec == Init /\ [][Next]_vars

\* Threads that can go on do.  Of a client this says that its connection ends:
\* main does not stop peers and waits for them.
FairSpec == Spec /\ WF_vars(Main) /\ \A t \in Threads : WF_vars(Work(t))

-----------------------------------------------------------------------------
(* Properties.                                                             *)

MainPCs == {"add", "test", "freeze", "join", "remove", "stopping", "release",
            "testAgain", "freezeAgain", "joinAgain", "exit"}
ThreadPCs == {"absent", "peer", "dropped", "accept", "check", "serve", "leave",
              "stopped", "run", "queue", "notify", "delete", "dead", "joined"}

TypeOK ==
    /\ mpc \in MainPCs /\ pc \in [Threads -> ThreadPCs]
    /\ stopApp \in BOOLEAN /\ stopAppFast \in BOOLEAN /\ eventPlugin \in BOOLEAN
    /\ pipe \in Nat /\ threadCount \in Nat
    /\ threadQueue \in Seq(Threads) /\ queueMutex \in {"free", "main"}
    /\ servers \subseteq Receivers /\ failed \subseteq Receivers
    /\ running \in [Receivers -> BOOLEAN]
    /\ runningmutex \in [Receivers -> {"free", "main"}]
    /\ stopBytes \in [Receivers -> Nat]
    /\ client \in [Receivers -> Clients \cup {None}]
    /\ fate \in {"running", "undefined"}

\* threadCount is the number of threads main has yet to wait for, so main does
\* not take the last one for gone (thread_t::start, freezeMainThread).
ThreadsAreCounted == threadCount = Cardinality({t \in Threads : Unjoined(t)})

\* Main never sleeps on an empty pipe while a thread is in its queue that it has
\* been told of: the queue is filled before the character is written, and emptied
\* after it is read, so one that is read for another thread does no harm.
EndsAreSeen ==
    mpc \in {"freeze", "freezeAgain"} /\ pipe = 0 =>
        \A i \in DOMAIN threadQueue : pc[threadQueue[i]] = "notify"

\* Without SIGTERM main returns only when no connection is being served, so a
\* SIGINT does not cut one off (the second loop of main).
GracefulExit == mpc = "exit" /\ ~stopAppFast => \A c \in Clients : pc[c] # "run"

\* stop() works on a receiver that exists, unless accept() has failed there: a
\* stop() in progress keeps it alive ("synchronization trick").
StopIsSafe == fate = "undefined" => failed # {}

\* A stop() that has returned is not missed, wherever the receiver was: it does not
\* sleep in acceptClient without a character that wakes it, and serves no peer but the
\* one that it has accepted and looked at running for already.
StopIsNoticed ==
    \A r \in Receivers :
        r \notin servers /\ pc[r] \in {"accept", "check", "serve"} =>
            stopBytes[r] > 0 /\ ~running[r]

\* After a signal main returns: the plugin's stop() reaches every receiver
\* wherever it is, and no character is lost that main has to wake up for.
MainReturns == stopApp ~> (mpc = "exit" \/ fate = "undefined")
=============================================================================
