----------------------- MODULE ServerLifecycleProofs -----------------------
(***************************************************************************)
(* What holds of the server for any number of receivers, clients and       *)
(* writers: threads are counted, main misses the end of none, it returns   *)
(* under no connection unless it is told to, stop() finds a receiver and   *)
(* no receiver misses it.                                                  *)
(*                                                                         *)
(* The last part is about fifolock, under which                            *)
(* scripts/instsendd-wrapper.sh starts the server: for any number of       *)
(* processes, attempts and crashes the pipes say where a process is, and   *)
(* of the first two attempts one at most starts the server.                *)
(***************************************************************************)
EXTENDS ServerLifecycle, FifoLock, FiniteSetTheorems, TLAPS

-----------------------------------------------------------------------------
(* Types, the peers in the hands of receivers, and the count of threads.   *)

\* Every kind of thread has places of its own.
Kinds ==
    /\ \A r \in Receivers : pc[r] \notin {"peer", "dropped", "run"}
    /\ \A t \in Clients \cup Writers :
           pc[t] \notin {"accept", "check", "serve", "leave", "stopped"}
    /\ \A w \in Writers : pc[w] \notin {"peer", "dropped"}

\* A peer that was accepted and does not run yet is in the hands of one receiver.
PeersHeld ==
    /\ \A r \in Receivers : client[r] # None => pc[client[r]] = "peer"
    /\ \A r \in Receivers : pc[r] \in {"check", "serve"} => client[r] # None
    /\ \A r, s \in Receivers : client[r] = client[s] /\ client[r] # None => r = s
    /\ \A r \in Receivers : pc[r] = "accept" \/ pc[r] = "absent" => client[r] = None

Places ==
    /\ mpc \in MainPCs /\ pc \in [Threads -> ThreadPCs]
    /\ pipe \in Nat /\ threadQueue \in Seq(Threads) /\ queueMutex \in {"free", "main"}
    /\ client \in [Receivers -> Clients \cup {None}]
    /\ servers \subseteq Receivers /\ failed \subseteq Receivers
    /\ runningmutex \in [Receivers -> {"free", "main"}]
    /\ stopBytes \in [Receivers -> Nat]
    /\ fate \in {"running", "undefined"}

Counted == {t \in Threads : Unjoined(t)}

TypeInv == Places /\ Kinds /\ PeersHeld /\ ThreadsAreCounted

\* No thread has been started.
LEMMA InitTypeInv == Init => TypeInv
<1> SUFFICES ASSUME Init PROVE TypeInv
  OBVIOUS
<1>1. Counted = {}
  BY DEF Init, Counted, Unjoined
<1>2. ThreadsAreCounted
  BY <1>1, FS_EmptySet DEF Init, ThreadsAreCounted, Counted
<1>3. Places
  BY DEF Init, Places, MainPCs, ThreadPCs
<1>4. Kinds /\ PeersHeld
  BY DEF Init, Kinds, PeersHeld, Threads
<1> QED BY <1>2, <1>3, <1>4 DEF TypeInv

\* The places and what receivers hold are kept by every step.
LEMMA PlacesStep ==
  ASSUME Places, Kinds, PeersHeld, [Next]_vars PROVE Places' /\ Kinds' /\ PeersHeld'
<1> USE ThreadsOK DEF Places, Kinds, PeersHeld, Threads, Goes, MainGoes, MainAt, At,
        unfreezeMainThread, joining, stops, signals, MainPCs, ThreadPCs
<1>1. CASE SigInt \/ SigTerm
  BY <1>1 DEF SigInt, SigTerm
<1>2. ASSUME NEW r \in Receivers, AddServer(r)
      PROVE  Places' /\ Kinds' /\ PeersHeld'
  BY <1>2 DEF AddServer
<1>3. CASE Loaded \/ Test \/ TestAgain \/ UnloadEvents
  BY <1>3 DEF Loaded, Test, TestAgain, UnloadEvents
<1>4. CASE Freeze("freeze", "join") \/ Freeze("freezeAgain", "joinAgain")
  BY <1>4 DEF Freeze
<1>5. CASE Joined("join", "test") \/ Joined("joinAgain", "testAgain")
  BY <1>5 DEF Joined
<1>6. ASSUME NEW l, Join(l)
      PROVE  Places' /\ Kinds' /\ PeersHeld'
  BY <1>6 DEF Join
<1>7. ASSUME NEW r \in Receivers, Stop(r)
      PROVE  Places' /\ Kinds' /\ PeersHeld'
  BY <1>7 DEF Stop
<1>8. ASSUME NEW r \in Receivers, StopPlugin(r)
      PROVE  Places' /\ Kinds' /\ PeersHeld'
  BY <1>8 DEF StopPlugin
<1>9. ASSUME NEW r \in Receivers, StopReturns(r)
      PROVE  Places' /\ Kinds' /\ PeersHeld'
  BY <1>9 DEF StopReturns
<1>10. ASSUME NEW r \in Receivers, NEW c \in Clients, Accept(r, c)
      PROVE  Places' /\ Kinds' /\ PeersHeld'
  BY <1>10 DEF Accept
<1>11. ASSUME NEW r \in Receivers, AcceptStopped(r)
      PROVE  Places' /\ Kinds' /\ PeersHeld'
  BY <1>11 DEF AcceptStopped
<1>12. ASSUME NEW r \in Receivers, AcceptFails(r)
      PROVE  Places' /\ Kinds' /\ PeersHeld'
  BY <1>12 DEF AcceptFails
<1>13. ASSUME NEW r \in Receivers, CheckRunning(r)
      PROVE  Places' /\ Kinds' /\ PeersHeld'
  <2>1. pc[r] = "check" /\ pc' \in {[pc EXCEPT ![r] = "serve"], [pc EXCEPT ![r] = "leave"]}
    BY <1>13 DEF CheckRunning
  <2>2. UNCHANGED <<mpc, signals, pipe, joining, stops, client, failed, eventPlugin, fate>>
    BY <1>13 DEF CheckRunning
  <2>3. CASE pc' = [pc EXCEPT ![r] = "serve"]
    <3>1. client[r] # None
      BY <2>1 
    <3> QED BY <2>1, <2>2, <2>3, <3>1
  <2>4. CASE pc' = [pc EXCEPT ![r] = "leave"]
    BY <2>1, <2>2, <2>4
  <2> QED BY <2>1, <2>3, <2>4
<1>14. ASSUME NEW r \in Receivers, Leave(r) PROVE Places' /\ Kinds' /\ PeersHeld'
  BY <1>14 DEF Leave
<1>15. ASSUME NEW r \in Receivers, ServeClient(r)
      PROVE  Places' /\ Kinds' /\ PeersHeld'
  BY <1>15 DEF ServeClient
<1>16. ASSUME NEW r \in Receivers, ServerStopped(r)
      PROVE  Places' /\ Kinds' /\ PeersHeld'
  <2>1. /\ pc' \in [Threads -> ThreadPCs] /\ pc[r] = "stopped"
        /\ \A t \in Threads : pc'[t] = IF t = r THEN "queue"
                                       ELSE IF t = client[r] THEN "dropped" ELSE pc[t]
    BY <1>16 DEF ServerStopped
  <2>2. /\ client' \in [Receivers -> Clients \cup {None}]
        /\ \A q \in Receivers : client'[q] = IF q = r THEN None ELSE client[q]
    BY <1>16 DEF ServerStopped
  <2>3. /\ pipe' \in Nat
        /\ UNCHANGED <<mpc, signals, joining, stops, failed, eventPlugin, fate>>
    BY <1>16 DEF ServerStopped
  <2>4. Places'
    BY <2>1, <2>2, <2>3
  <2>0. r \notin Clients \cup Writers /\ client[r] \notin Receivers \cup Writers
    OBVIOUS
  <2>5. Kinds'
    BY <2>1, <2>0
  <2>6. PeersHeld'
    <3>1. \A q \in Receivers : client'[q] # None => client'[q] = client[q] /\ q # r
      BY <2>2
    <3>2. \A q \in Receivers : client'[q] # None => pc'[client'[q]] = "peer"
      <4> SUFFICES ASSUME NEW q \in Receivers, client'[q] # None
                   PROVE  pc'[client'[q]] = "peer"
        OBVIOUS
      <4>1. client'[q] \in Clients /\ pc[client'[q]] = "peer" /\ client'[q] # client[r]
        BY <3>1
      <4> QED BY <4>1, <2>1, <2>0
    <3>3. \A q \in Receivers : q # r => pc'[q] = pc[q]
      BY <2>1, <2>0
    <3>4. \A q \in Receivers : pc'[q] \in {"check", "serve"} => client'[q] # None
      BY <2>1, <2>2, <3>1, <3>3
    <3>5. \A q, s \in Receivers : client'[q] = client'[s] /\ client'[q] # None => q = s
      BY <2>2, <3>1
    <3>6. \A q \in Receivers : pc'[q] = "accept" \/ pc'[q] = "absent" => client'[q] = None
      BY <2>1, <2>2, <3>1, <3>3
    <3> QED BY <3>2, <3>4, <3>5, <3>6
  <2> QED BY <2>4, <2>5, <2>6
<1>17. ASSUME NEW c \in Clients, NEW w \in Writers, StartWriter(c, w)
      PROVE  Places' /\ Kinds' /\ PeersHeld'
  BY <1>17 DEF StartWriter
<1>18. ASSUME NEW t \in Threads, EndOfRun(t)
      PROVE  Places' /\ Kinds' /\ PeersHeld'
  BY <1>18 DEF EndOfRun
<1>19. ASSUME NEW t \in Threads, AboutToExit(t)
      PROVE  Places' /\ Kinds' /\ PeersHeld'
  BY <1>19 DEF AboutToExit
<1>20. ASSUME NEW t \in Threads, Notify(t)
      PROVE  Places' /\ Kinds' /\ PeersHeld'
  BY <1>20 DEF Notify
<1>21. ASSUME NEW t \in Threads, Delete(t)
      PROVE  Places' /\ Kinds' /\ PeersHeld'
  BY <1>21 DEF Delete
<1>22. CASE UNCHANGED vars
  BY <1>22 DEF vars
<1> QED
  BY <1>1, <1>2, <1>3, <1>4, <1>5, <1>6, <1>7, <1>8, <1>9, <1>10, <1>11, <1>12, <1>13,
     <1>14, <1>15, <1>16, <1>17, <1>18, <1>19, <1>20, <1>21, <1>22
  DEF Next, Main, Outside, Work

-----------------------------------------------------------------------------
(* Counting.                                                               *)

\* Threads are finitely many, so those to be joined can be counted.
LEMMA CountedFinite == IsFiniteSet(Counted) /\ IsFiniteSet(Counted')
<1>1. Counted \in SUBSET Threads /\ Counted' \in SUBSET Threads
  BY DEF Counted
<1>2. IsFiniteSet(Threads)
  BY ThreadsOK DEF Threads
<1> QED BY <1>1, <1>2, FS_Subset

\* thread_t::start
LEMMA OneMore ==
  ASSUME ThreadsAreCounted, NEW t, t \notin Counted, Counted' = Counted \cup {t},
         threadCount' = threadCount + 1
  PROVE  ThreadsAreCounted'
<1>1. Cardinality(Counted \cup {t}) = Cardinality(Counted) + 1
  BY CountedFinite, FS_AddElement
<1> QED BY <1>1 DEF ThreadsAreCounted, Counted

\* pthread_join
LEMMA OneLess ==
  ASSUME ThreadsAreCounted, NEW t, t \in Counted, Counted' = Counted \ {t},
         threadCount' = threadCount - 1
  PROVE  ThreadsAreCounted'
<1>1. Cardinality(Counted \ {t}) = Cardinality(Counted) - 1
  BY CountedFinite, FS_RemoveElement
<1> QED BY <1>1 DEF ThreadsAreCounted, Counted

\* Every other step leaves the threads to be joined as they are.
LEMMA NoneMore ==
  ASSUME ThreadsAreCounted, UNCHANGED threadCount,
         \A t \in Threads : Unjoined(t)' <=> Unjoined(t)
  PROVE  ThreadsAreCounted'
BY DEF ThreadsAreCounted

\* Whoever changes threadCount starts a thread or has waited for one.
LEMMA CountStep ==
  ASSUME TypeInv, [Next]_vars PROVE ThreadsAreCounted'
<1> USE DEF TypeInv, Places, Goes, Unjoined, joining, Threads, At, MainAt, MainGoes
<1>1. ASSUME NEW r \in Receivers, AddServer(r) PROVE ThreadsAreCounted'
  BY <1>1, OneMore DEF AddServer, Counted
<1>2. ASSUME NEW l, Join(l) PROVE ThreadsAreCounted'
  <2>1. Head(threadQueue) \in Threads /\ pc[Head(threadQueue)] = "dead"
    BY <1>2 DEF Join
  <2> QED BY <1>2, <2>1, OneLess DEF Join, Counted
<1>3. ASSUME NEW r \in Receivers, ServeClient(r) PROVE ThreadsAreCounted'
  <2>1. client[r] \in Clients /\ pc[client[r]] = "peer" /\ pc[r] = "serve"
    BY <1>3 DEF ServeClient, PeersHeld
  <2>2. pc' = [pc EXCEPT ![r] = "accept", ![client[r]] = "run"] /\ threadCount' = threadCount + 1
    BY <1>3 DEF ServeClient
  <2>3. \A t \in Threads : pc'[t] = IF t = client[r] THEN "run"
                                   ELSE IF t = r THEN "accept" ELSE pc[t]
    BY <2>1, <2>2
  <2>4. client[r] \notin Counted /\ Counted' = Counted \cup {client[r]}
    BY <2>1, <2>3 DEF Counted
  <2> QED BY <2>2, <2>4, OneMore
<1>4. ASSUME NEW c \in Clients, NEW w \in Writers, StartWriter(c, w)
      PROVE  ThreadsAreCounted'
  BY <1>4, OneMore DEF StartWriter, Counted
<1>5. CASE SigInt \/ SigTerm \/ Loaded \/ Test \/ TestAgain \/ UnloadEvents
  BY <1>5, NoneMore DEF SigInt, SigTerm, Loaded, Test, TestAgain, UnloadEvents
<1>6. CASE Freeze("freeze", "join") \/ Freeze("freezeAgain", "joinAgain")
  BY <1>6, NoneMore DEF Freeze
<1>7. CASE Joined("join", "test") \/ Joined("joinAgain", "testAgain")
  BY <1>7, NoneMore DEF Joined
<1>8. ASSUME NEW r \in Receivers, Stop(r) \/ StopPlugin(r) \/ StopReturns(r)
      PROVE  ThreadsAreCounted'
  BY <1>8, NoneMore DEF Stop, StopPlugin, StopReturns
<1>9. ASSUME NEW r \in Receivers, NEW c \in Clients, Accept(r, c)
      PROVE  ThreadsAreCounted'
  BY <1>9, NoneMore DEF Accept
<1>10. ASSUME NEW r \in Receivers, AcceptStopped(r) \/ AcceptFails(r)
       PROVE  ThreadsAreCounted'
  BY <1>10, NoneMore DEF AcceptStopped, AcceptFails
<1>11. ASSUME NEW r \in Receivers, CheckRunning(r) \/ Leave(r)
       PROVE  ThreadsAreCounted'
  BY <1>11, NoneMore DEF CheckRunning, Leave
<1>12. ASSUME NEW r \in Receivers, ServerStopped(r) PROVE ThreadsAreCounted'
  <2>1. /\ \A t \in Threads : pc'[t] = IF t = r THEN "queue"
                                       ELSE IF t = client[r] THEN "dropped" ELSE pc[t]
        /\ pc[r] = "stopped" /\ UNCHANGED threadCount
    BY <1>12 DEF ServerStopped
  <2>2. \A t \in Threads : t = client[r] => pc[t] = "peer"
    BY ThreadsOK DEF PeersHeld
  <2> QED BY <2>1, <2>2, NoneMore
<1>13. ASSUME NEW t \in Threads, EndOfRun(t) \/ AboutToExit(t) PROVE ThreadsAreCounted'
  BY <1>13, NoneMore DEF EndOfRun, AboutToExit
<1>14. ASSUME NEW t \in Threads, Notify(t) \/ Delete(t) PROVE ThreadsAreCounted'
  BY <1>14, NoneMore DEF Notify, Delete
<1>15. CASE UNCHANGED vars
  BY <1>15, NoneMore DEF vars
<1> QED
  BY <1>1, <1>2, <1>3, <1>4, <1>5, <1>6, <1>7, <1>8, <1>9, <1>10, <1>11, <1>12, <1>13,
     <1>14, <1>15
  DEF Next, Main, Outside, Work

\* Types, peers and the count together are inductive.
LEMMA TypeStep == TypeInv /\ [Next]_vars => TypeInv'
BY PlacesStep, CountStep DEF TypeInv

\* threadCount is the number of threads that main has to wait for, and thereby
\* never negative: ThreadsAreCounted of ServerLifecycle.
THEOREM CountIsRight == Spec => []ThreadsAreCounted
<1>1. TypeInv => ThreadsAreCounted
  BY DEF TypeInv
<1> QED BY InitTypeInv, TypeStep, <1>1, PTL DEF Spec

\* What is only ever true or false.
Flags ==
    /\ stopApp \in BOOLEAN /\ stopAppFast \in BOOLEAN /\ eventPlugin \in BOOLEAN
    /\ running \in [Receivers -> BOOLEAN]

\* Signals set two flags, main clears the others.
LEMMA FlagsStep == Flags /\ [Next]_vars => Flags'
<1> SUFFICES ASSUME Flags, [Next]_vars PROVE Flags'
  OBVIOUS
<1>1. stopApp' \in BOOLEAN /\ stopAppFast' \in BOOLEAN /\ eventPlugin' \in BOOLEAN
  BY Zenon DEF Flags, vars, Next, Main, Outside, Work, signals, joining, stops, SigInt, SigTerm,
     AddServer, Loaded, Test, TestAgain, UnloadEvents, Freeze, Join, Joined, Stop,
     StopPlugin, StopReturns, Accept, AcceptStopped, AcceptFails, CheckRunning,
     ServeClient, Leave, ServerStopped, StartWriter, EndOfRun, AboutToExit, Notify, Delete
<1>2. running' = running \/ \E r \in Receivers : running' = [running EXCEPT ![r] = FALSE]
  BY DEF vars, Next, Main, Outside, Work, signals, joining, stops, SigInt, SigTerm,
     AddServer, Loaded, Test, TestAgain, UnloadEvents, Freeze, Join, Joined, Stop,
     StopPlugin, StopReturns, Accept, AcceptStopped, AcceptFails, CheckRunning,
     ServeClient, Leave, ServerStopped, StartWriter, EndOfRun, AboutToExit, Notify, Delete
<1>3. running' \in [Receivers -> BOOLEAN]
  BY <1>2, Zenon DEF Flags
<1> QED BY <1>1, <1>3 DEF Flags

\* Every variable keeps its range: TypeOK of ServerLifecycle.
THEOREM TypeCorrect == Spec => []TypeOK
<1>1. Init => Flags
  BY DEF Init, Flags
<1>2. TypeInv => threadCount \in Nat
  BY CountedFinite, FS_CardinalityType DEF TypeInv, ThreadsAreCounted, Counted
<1>3. TypeInv /\ Flags => TypeOK
  BY <1>2 DEF TypeInv, Places, Flags, TypeOK
<1> QED BY InitTypeInv, TypeStep, <1>1, FlagsStep, <1>3, PTL DEF Spec

-----------------------------------------------------------------------------
(* Ends of threads.                                                        *)

\* What EndsAreSeen says of a main thread that sleeps holds whenever it is not
\* emptying the queue: a thread beyond "notify" has left its character in the pipe.
EndsInv ==
    mpc \notin {"join", "joinAgain", "exit"} /\ pipe = 0 =>
        \A i \in DOMAIN threadQueue : pc[threadQueue[i]] = "notify"

\* Only main reads from the pipe, and then empties the queue; only "notify" is left by
\* writing to it.
LEMMA EndsStep == TypeInv /\ EndsInv /\ [Next]_vars => EndsInv'
<1> SUFFICES ASSUME TypeInv, EndsInv, [Next]_vars PROVE EndsInv'
  OBVIOUS
<1> USE DEF TypeInv, Places, EndsInv, Goes, MainGoes, MainAt, At, unfreezeMainThread,
        signals, joining, stops, Threads
<1>1. CASE SigInt \/ SigTerm
  BY <1>1 DEF SigInt, SigTerm
<1>2. ASSUME NEW r \in Receivers, AddServer(r) PROVE EndsInv'
  BY <1>2 DEF AddServer
<1>3. CASE Loaded \/ Test \/ TestAgain
  BY <1>3 DEF Loaded, Test, TestAgain
<1>4. CASE UnloadEvents
  BY <1>4 DEF UnloadEvents
<1>5. CASE Freeze("freeze", "join") \/ Freeze("freezeAgain", "joinAgain")
  BY <1>5 DEF Freeze
<1>6. CASE Join("join") \/ Join("joinAgain")
  BY <1>6 DEF Join
<1>7. CASE Joined("join", "test") \/ Joined("joinAgain", "testAgain")
  BY <1>7 DEF Joined
<1>8. ASSUME NEW r \in Receivers, Stop(r) \/ StopPlugin(r) \/ StopReturns(r) PROVE EndsInv'
  BY <1>8 DEF Stop, StopPlugin, StopReturns
<1>9. ASSUME NEW t \in Threads, AboutToExit(t) PROVE EndsInv'
  <2>1. \A i \in DOMAIN threadQueue' :
            (i \in DOMAIN threadQueue /\ threadQueue'[i] = threadQueue[i]) \/ threadQueue'[i] = t
    BY <1>9 DEF AboutToExit
  <2>2. pc' = [pc EXCEPT ![t] = "notify"] /\ UNCHANGED <<mpc, pipe>>
    BY <1>9 DEF AboutToExit
  <2>3. \A i \in DOMAIN threadQueue : threadQueue[i] \in Threads
    OBVIOUS
  <2> QED BY <2>1, <2>2, <2>3
<1>10. ASSUME NEW t \in Threads, Notify(t) PROVE EndsInv'
  BY <1>10 DEF Notify
<1>11. ASSUME NEW t \in Threads, Delete(t) PROVE EndsInv'
  BY <1>11 DEF Delete
<1>12. ASSUME NEW t \in Threads, EndOfRun(t) PROVE EndsInv'
  BY <1>12 DEF EndOfRun
<1>13. ASSUME NEW r \in Receivers, AcceptStopped(r) \/ AcceptFails(r) \/ CheckRunning(r) \/ Leave(r)
       PROVE  EndsInv'
  BY <1>13 DEF AcceptStopped, AcceptFails, CheckRunning, Leave
<1>14. ASSUME NEW r \in Receivers, ServeClient(r) PROVE EndsInv'
  BY <1>14 DEF ServeClient, PeersHeld
<1>15. ASSUME NEW r \in Receivers, ServerStopped(r) PROVE EndsInv'
  BY <1>15 DEF ServerStopped
<1>16. ASSUME NEW r \in Receivers, NEW c \in Clients, Accept(r, c) PROVE EndsInv'
  BY <1>16 DEF Accept
<1>17. ASSUME NEW c \in Clients, NEW w \in Writers, StartWriter(c, w) PROVE EndsInv'
  BY <1>17 DEF StartWriter
<1>18. CASE UNCHANGED vars
  BY <1>18 DEF vars
<1> QED
  BY <1>1, <1>2, <1>3, <1>4, <1>5, <1>6, <1>7, <1>8, <1>9, <1>10, <1>11, <1>12, <1>13,
     <1>14, <1>15, <1>16, <1>17, <1>18
  DEF Next, Main, Outside, Work

\* Main misses the end of no thread: the property EndsAreSeen of the run "server".
THEOREM NoEndIsMissed == Spec => []EndsAreSeen
<1>1. Init => EndsInv
  BY DEF Init, EndsInv
<1>2. EndsInv => EndsAreSeen
  BY DEF EndsInv, EndsAreSeen
<1> QED BY InitTypeInv, TypeStep, <1>1, EndsStep, <1>2, PTL DEF Spec

-----------------------------------------------------------------------------
(* The end of main.                                                        *)

\* Whoever uses the plugin keeps the count of plugins above zero, a connection that is
\* served is a thread main waits for, and after "exit" nothing happens.
LEMMA ExitStep == TypeInv /\ GracefulExit /\ [Next]_vars => GracefulExit'
<1> SUFFICES ASSUME TypeInv, GracefulExit, [Next]_vars, mpc' = "exit", ~stopAppFast'
             PROVE  \A c \in Clients : pc'[c] # "run"
  BY DEF GracefulExit
<1>1. CASE TestAgain
  <2>1. UNCHANGED <<pc, stopAppFast>> /\ (Count = 0 \/ threadCount = 0)
    <3>1. UNCHANGED <<pc, stopAppFast>> /\ ~(Count > 0 /\ threadCount > 0)
      BY <1>1 DEF TestAgain, WaitsOn, signals, MainGoes
    <3>2. Count \in Nat /\ threadCount \in Nat
      BY CountedFinite, FS_CardinalityType
      DEF Count, TypeInv, ThreadsAreCounted, Counted
    <3> QED BY <3>1, <3>2
  <2>2. CASE Count = 0
    <3>1. PluginUsers = {}
      BY <2>2 DEF Count
    <3> QED BY <3>1, <2>1 DEF PluginUsers
  <2>3. CASE threadCount = 0
    <3>1. Counted = {}
      BY <2>3, CountedFinite, FS_EmptySet DEF TypeInv, ThreadsAreCounted, Counted
    <3> QED BY <3>1, <2>1 DEF Counted, Unjoined, Threads
  <2> QED BY <2>1, <2>2, <2>3
<1>2. CASE UNCHANGED vars
  BY <1>2 DEF vars, GracefulExit, signals
<1>3. CASE Next /\ ~TestAgain
  <2>1. mpc # "exit"
    BY <1>3 DEF Next, Main, Outside, Work, MainAt, At, Alive, SigInt, SigTerm,
       AddServer, Loaded, Test, UnloadEvents, Freeze, Join, Joined, Stop,
       StopPlugin, StopReturns, Accept, AcceptStopped, AcceptFails, CheckRunning,
       ServeClient, Leave, ServerStopped, StartWriter, EndOfRun, AboutToExit, Notify, Delete
  <2>2. mpc' # "exit"
    BY <1>3, <2>1 DEF Next, Main, Outside, Work, MainGoes, SigInt, SigTerm,
       AddServer, Loaded, Test, UnloadEvents, Freeze, Join, Joined, Stop,
       StopPlugin, StopReturns, Accept, AcceptStopped, AcceptFails, CheckRunning,
       ServeClient, Leave, ServerStopped, StartWriter, EndOfRun, AboutToExit, Notify, Delete
  <2> QED BY <2>2
<1> QED BY <1>1, <1>2, <1>3

\* A SIGINT cuts off no connection: the property GracefulExit of the run "server".
THEOREM ExitIsGraceful == Spec => []GracefulExit
<1>1. Init => GracefulExit
  BY DEF Init, GracefulExit
<1> QED BY InitTypeInv, TypeStep, <1>1, ExitStep, PTL DEF Spec

-----------------------------------------------------------------------------
(* Stopping receivers.                                                     *)

\* As long as accept() has not failed anywhere, a receiver in the list serves until
\* stop() is called on it, and is held in "leave" until stop() returns.
ReceiverInv ==
    failed = {} =>
        /\ fate = "running"
        /\ \A r \in Receivers :
             /\ pc[r] = "absent" => r \notin servers /\ running[r] /\ stopBytes[r] = 0
             /\ r \in servers /\ runningmutex[r] = "free" =>
                    running[r] /\ stopBytes[r] = 0 /\ pc[r] \in {"accept", "check", "serve"}
             /\ runningmutex[r] = "main" =>
                    /\ r \in servers /\ mpc \in {"stopping", "release"}
                    /\ pc[r] \in {"accept", "check", "serve", "leave"}
        /\ \A r, s \in Receivers : runningmutex[r] = "main" /\ runningmutex[s] = "main" => r = s

\* The "synchronization trick" of run(): a receiver passes "leave" only when its mutex is
\* free, and then it is not in the list any more.
LEMMA ReceiverStep == TypeInv /\ Flags /\ ReceiverInv /\ [Next]_vars => ReceiverInv'
<1> SUFFICES ASSUME TypeInv, Flags, ReceiverInv, [Next]_vars, failed' = {} PROVE ReceiverInv'
  BY DEF ReceiverInv
<1> USE ThreadsOK DEF TypeInv, Places, Kinds, Goes, MainGoes, MainAt, At, unfreezeMainThread,
        signals, joining, stops, Threads
<1>1. failed = {}
  BY DEF vars, Next, Main, Outside, Work, SigInt, SigTerm,
     AddServer, Loaded, Test, TestAgain, UnloadEvents, Freeze, Join, Joined, Stop,
     StopPlugin, StopReturns, Accept, AcceptStopped, AcceptFails, CheckRunning,
     ServeClient, Leave, ServerStopped, StartWriter, EndOfRun, AboutToExit, Notify, Delete
<1> USE <1>1 DEF ReceiverInv
<1>2. CASE SigInt \/ SigTerm
  BY <1>2 DEF SigInt, SigTerm
<1>3. ASSUME NEW r \in Receivers, AddServer(r) PROVE ReceiverInv'
  BY <1>3 DEF AddServer
<1>4. CASE Loaded \/ Test \/ TestAgain \/ UnloadEvents
  BY <1>4 DEF Loaded, Test, TestAgain, UnloadEvents
<1>5. CASE Freeze("freeze", "join") \/ Freeze("freezeAgain", "joinAgain")
  BY <1>5 DEF Freeze
<1>6. CASE Join("join") \/ Join("joinAgain")
  BY <1>6 DEF Join
<1>7. CASE Joined("join", "test") \/ Joined("joinAgain", "testAgain")
  BY <1>7 DEF Joined
<1>8. ASSUME NEW r \in Receivers, Stop(r) PROVE ReceiverInv'
  <2>1. mpc = "remove" /\ r \in servers /\ pc[r] \in {"accept", "check", "serve"}
    BY <1>8 DEF Stop
  <2>2. /\ mpc' = "stopping" /\ runningmutex' = [runningmutex EXCEPT ![r] = "main"]
        /\ running' = [running EXCEPT ![r] = FALSE]
        /\ UNCHANGED <<pc, servers, stopBytes, failed, fate>>
    BY <1>8, <2>1 DEF Stop, Deleted
  <2>3. \A q \in Receivers : q # r => running'[q] = running[q]
    BY <2>2 DEF Flags
  <2>4. \A q \in Receivers : runningmutex[q] = "free"
    BY <2>1
  <2> QED BY <2>1, <2>2, <2>3, <2>4
<1>9. ASSUME NEW r \in Receivers, StopPlugin(r) PROVE ReceiverInv'
  BY <1>9 DEF StopPlugin, Deleted
<1>10. ASSUME NEW r \in Receivers, StopReturns(r) PROVE ReceiverInv'
  BY <1>10 DEF StopReturns, Deleted
<1>11. ASSUME NEW t \in Threads, EndOfRun(t) PROVE ReceiverInv'
  BY <1>11 DEF EndOfRun
<1>12. ASSUME NEW t \in Threads, AboutToExit(t) PROVE ReceiverInv'
  BY <1>12 DEF AboutToExit
<1>13. ASSUME NEW t \in Threads, Notify(t) PROVE ReceiverInv'
  BY <1>13 DEF Notify
<1>14. ASSUME NEW t \in Threads, Delete(t) PROVE ReceiverInv'
  BY <1>14 DEF Delete
<1>15. ASSUME NEW r \in Receivers, AcceptStopped(r) PROVE ReceiverInv'
  BY <1>15 DEF AcceptStopped
<1>16. ASSUME NEW r \in Receivers, CheckRunning(r) PROVE ReceiverInv'
  <2>1. pc[r] = "check" /\ runningmutex[r] = "free"
    BY <1>16 DEF CheckRunning
  <2>2. UNCHANGED <<mpc, stops, failed, fate>>
    BY <1>16 DEF CheckRunning
  <2>3. CASE running[r]
    BY <1>16, <2>1, <2>2, <2>3 DEF CheckRunning
  <2>4. CASE ~running[r]
    BY <1>16, <2>1, <2>2, <2>4 DEF CheckRunning
  <2> QED BY <2>3, <2>4
<1>17. ASSUME NEW r \in Receivers, Leave(r) PROVE ReceiverInv'
  BY <1>17 DEF Leave
<1>18. ASSUME NEW r \in Receivers, ServeClient(r) PROVE ReceiverInv'
  <2>1. \A q \in Receivers : pc'[q] = IF q = r THEN "accept" ELSE pc[q]
    BY <1>18 DEF ServeClient, PeersHeld
  <2>2. UNCHANGED <<mpc, stops, failed, fate>> /\ pc[r] = "serve"
    BY <1>18 DEF ServeClient
  <2> QED BY <2>1, <2>2
<1>19. ASSUME NEW r \in Receivers, ServerStopped(r) PROVE ReceiverInv'
  <2>1. \A q \in Receivers : pc'[q] = IF q = r THEN "queue" ELSE pc[q]
    BY <1>19 DEF ServerStopped, PeersHeld
  <2>2. UNCHANGED <<mpc, stops, failed, fate>> /\ pc[r] = "stopped"
    BY <1>19 DEF ServerStopped
  <2> QED BY <2>1, <2>2
<1>20. ASSUME NEW r \in Receivers, NEW c \in Clients, Accept(r, c) PROVE ReceiverInv'
  BY <1>20 DEF Accept
<1>21. ASSUME NEW c \in Clients, NEW w \in Writers, StartWriter(c, w) PROVE ReceiverInv'
  BY <1>21 DEF StartWriter
<1>22. ASSUME NEW r \in Receivers, AcceptFails(r) PROVE FALSE
  BY <1>22 DEF AcceptFails
<1>23. CASE UNCHANGED vars
  BY <1>23 DEF vars
<1> QED
  BY <1>2, <1>3, <1>4, <1>5, <1>6, <1>7, <1>8, <1>9, <1>10, <1>11, <1>12, <1>13,
     <1>14, <1>15, <1>16, <1>17, <1>18, <1>19, <1>20, <1>21, <1>22, <1>23
  DEF Next, Main, Outside, Work

\* stop() works on a receiver that exists as long as accept() has not failed: the
\* property StopIsSafe of the run "server".
THEOREM StopFindsReceiver == Spec => []StopIsSafe
<1>0. Init => Flags
  BY DEF Init, Flags
<1>1. Init => ReceiverInv
  BY DEF Init, ReceiverInv
<1>2. ReceiverInv => StopIsSafe
  BY DEF ReceiverInv, StopIsSafe
<1> QED BY InitTypeInv, TypeStep, FlagsStep, <1>0, <1>1, ReceiverStep, <1>2, PTL DEF Spec

\* A receiver is told before stop() lets go of its mutex, and it is the only one then.
NoticeInv ==
    /\ \A r \in Receivers : runningmutex[r] = "main" =>
           mpc \in {"stopping", "release"} /\ r \in servers /\ ~running[r]
    /\ \A r, s \in Receivers : runningmutex[r] = "main" /\ runningmutex[s] = "main" => r = s
    /\ \A r \in Receivers :
           /\ pc[r] \in {"accept", "check", "serve"}
           /\ r \notin servers \/ (runningmutex[r] = "main" /\ mpc = "release")
           => stopBytes[r] > 0 /\ ~running[r]

\* Whoever takes the character of stop() leaves, and whoever looks at running does not serve.
LEMMA NoticeStep == TypeInv /\ Flags /\ NoticeInv /\ [Next]_vars => NoticeInv'
<1> SUFFICES ASSUME TypeInv, Flags, NoticeInv, [Next]_vars PROVE NoticeInv'
  OBVIOUS
<1> USE ThreadsOK DEF TypeInv, Places, Kinds, Goes, MainGoes, MainAt, At, unfreezeMainThread,
        signals, joining, stops, Threads, NoticeInv
<1>1. CASE SigInt \/ SigTerm
  BY <1>1 DEF SigInt, SigTerm
<1>2. ASSUME NEW r \in Receivers, AddServer(r) PROVE NoticeInv'
  BY <1>2 DEF AddServer
<1>3. CASE Loaded \/ Test \/ TestAgain \/ UnloadEvents
  BY <1>3 DEF Loaded, Test, TestAgain, UnloadEvents
<1>4. CASE Freeze("freeze", "join") \/ Freeze("freezeAgain", "joinAgain")
  BY <1>4 DEF Freeze
<1>5. CASE Join("join") \/ Join("joinAgain")
  BY <1>5 DEF Join
<1>6. CASE Joined("join", "test") \/ Joined("joinAgain", "testAgain")
  BY <1>6 DEF Joined
<1>7. ASSUME NEW r \in Receivers, Stop(r) PROVE NoticeInv'
  <2>1. mpc = "remove" /\ r \in servers /\ \A q \in Receivers : runningmutex[q] = "free"
    BY <1>7 DEF Stop
  <2>2. UNCHANGED <<pc, servers, stopBytes>>
    BY <1>7 DEF Stop
  <2>3. CASE Deleted(r)
    BY <1>7, <2>2, <2>3 DEF Stop
  <2>4. CASE ~Deleted(r)
    <3>1. /\ mpc' = "stopping" /\ runningmutex' = [runningmutex EXCEPT ![r] = "main"]
          /\ running' = [running EXCEPT ![r] = FALSE]
      BY <1>7, <2>4 DEF Stop
    <3>2. ~running'[r] /\ \A q \in Receivers : q # r => running'[q] = running[q]
      BY <3>1, Zenon DEF Flags
    <3>3. \A q \in Receivers : q # r => runningmutex'[q] = "free"
      BY <2>1, <3>1
    <3> QED BY <2>1, <2>2, <3>1, <3>2, <3>3
  <2> QED BY <2>3, <2>4
<1>8. ASSUME NEW r \in Receivers, StopPlugin(r) PROVE NoticeInv'
  BY <1>8 DEF StopPlugin
<1>9. ASSUME NEW r \in Receivers, StopReturns(r) PROVE NoticeInv'
  BY <1>9 DEF StopReturns
<1>10. ASSUME NEW t \in Threads, EndOfRun(t) \/ AboutToExit(t) PROVE NoticeInv'
  BY <1>10 DEF EndOfRun, AboutToExit
<1>11. ASSUME NEW t \in Threads, Notify(t) \/ Delete(t) PROVE NoticeInv'
  BY <1>11 DEF Notify, Delete
<1>12. ASSUME NEW r \in Receivers, AcceptStopped(r) \/ AcceptFails(r) \/ Leave(r) PROVE NoticeInv'
  BY <1>12 DEF AcceptStopped, AcceptFails, Leave
<1>13. ASSUME NEW r \in Receivers, CheckRunning(r) PROVE NoticeInv'
  <2>1. /\ pc[r] = "check" /\ runningmutex[r] = "free"
        /\ UNCHANGED <<mpc, stops, failed, fate>>
    BY <1>13 DEF CheckRunning
  <2>2. CASE running[r]
    BY <1>13, <2>1, <2>2 DEF CheckRunning
  <2>3. CASE ~running[r]
    BY <1>13, <2>1, <2>3 DEF CheckRunning
  <2> QED BY <2>2, <2>3
<1>14. ASSUME NEW r \in Receivers, ServeClient(r) PROVE NoticeInv'
  <2>1. \A q \in Receivers : pc'[q] = IF q = r THEN "accept" ELSE pc[q]
    BY <1>14 DEF ServeClient, PeersHeld
  <2>2. UNCHANGED <<mpc, stops>> /\ pc[r] = "serve"
    BY <1>14 DEF ServeClient
  <2> QED BY <2>1, <2>2
<1>15. ASSUME NEW r \in Receivers, ServerStopped(r) PROVE NoticeInv'
  <2>1. \A q \in Receivers : pc'[q] = IF q = r THEN "queue" ELSE pc[q]
    BY <1>15 DEF ServerStopped, PeersHeld
  <2>2. UNCHANGED <<mpc, stops>>
    BY <1>15 DEF ServerStopped
  <2> QED BY <2>1, <2>2
<1>16. ASSUME NEW r \in Receivers, NEW c \in Clients, Accept(r, c) PROVE NoticeInv'
  BY <1>16 DEF Accept
<1>17. ASSUME NEW c \in Clients, NEW w \in Writers, StartWriter(c, w) PROVE NoticeInv'
  BY <1>17 DEF StartWriter
<1>18. CASE UNCHANGED vars
  BY <1>18 DEF vars
<1> QED
  BY <1>1, <1>2, <1>3, <1>4, <1>5, <1>6, <1>7, <1>8, <1>9, <1>10, <1>11, <1>12, <1>13,
     <1>14, <1>15, <1>16, <1>17, <1>18
  DEF Next, Main, Outside, Work

\* No receiver misses a stop() that has returned: the property StopIsNoticed of the run
\* "server", also after accept() has failed at some receiver.
THEOREM StopsAreNoticed == Spec => []StopIsNoticed
<1>0. Init => Flags
  BY DEF Init, Flags
<1>1. Init => NoticeInv
  BY DEF Init, NoticeInv, Threads
<1>2. NoticeInv => StopIsNoticed
  BY DEF NoticeInv, StopIsNoticed
<1> QED BY InitTypeInv, TypeStep, FlagsStep, <1>0, <1>1, NoticeStep, <1>2, PTL DEF Spec

-----------------------------------------------------------------------------
(* fifolock: the pipes.                                                    *)

LockInv == LockTypeOK /\ PipesFollowCode

\* At the start no pipe is open.
LEMMA InitLockInv == LockInit => LockInv
<1> SUFFICES ASSUME LockInit PROVE LockInv
  OBVIOUS
<1>1. LockTypeOK
  <2>1. place \in [Procs -> {"out", "program"} \cup Busy]
    BY DEF LockInit
  <2>2. open \in [Pipes -> SUBSET Procs]
    BY DEF LockInit
  <2>3. exclusive \in BOOLEAN /\ leaked \in [Procs -> Nat]
    BY DEF LockInit
  <2>4. attempts \in 0 .. MaxAttempts /\ crashes \in 0 .. MaxCrashes
    BY LockConstantsOK DEF LockInit
  <2>5. QED
    BY <2>1, <2>2, <2>3, <2>4 DEF LockTypeOK
<1>2. ASSUME NEW p \in Procs, NEW k \in Pipes PROVE p \notin open[k] /\ place[p] = "out"
  BY DEF LockInit
<1>3. ASSUME NEW p \in Procs, NEW k PROVE k \notin Holds(p)
  <2>1. place[p] = "out"
    BY DEF LockInit
  <2>2. QED
    BY <2>1 DEF Holds, Section, Recovery
<1>4. PipesFollowCode
  BY <1>2, <1>3 DEF PipesFollowCode, Pipes, LockInit
<1>5. QED
  BY <1>1, <1>4 DEF LockInv

\* A step opens and closes the pipes of the part of the code it enters and leaves.
LEMMA NextLockInv == LockInv /\ [LockNext]_lockVars => LockInv'
<1> SUFFICES ASSUME LockInv, [LockNext]_lockVars PROVE LockInv'
  OBVIOUS
<1> USE LockConstantsOK
    DEF LockInv, LockTypeOK, PipesFollowCode, Holds, Pipes, Busy, Section, Recovery, Moves,
        L, U, LosesNone, rest
<1>1. CASE UNCHANGED lockVars
  BY <1>1 DEF lockVars
<1>2. ASSUME NEW p \in Procs, Start(p) PROVE LockInv'
  BY <1>2 DEF Start
<1>3. ASSUME NEW p \in Procs, Enter(p) PROVE LockInv'
  BY <1>3 DEF Enter
<1>4. ASSUME NEW p \in Procs, Show(p) PROVE LockInv'
  BY <1>4 DEF Show
<1>5. ASSUME NEW p \in Procs, Create(p) \/ Occupied(p) PROVE LockInv'
  <2>1. CASE Create(p)
    BY <2>1 DEF Create
  <2>2. CASE Occupied(p)
    BY <2>2 DEF Occupied
  <2>3. QED
    BY <1>5, <2>1, <2>2
<1>6. ASSUME NEW p \in Procs, MarkSection(p) PROVE LockInv'
  BY <1>6 DEF MarkSection
<1>7. ASSUME NEW p \in Procs, TestProgram(p) PROVE LockInv'
  BY <1>7 DEF TestProgram, Leaks
<1>8. ASSUME NEW p \in Procs, Claim(p) PROVE LockInv'
  BY <1>8 DEF Claim
<1>9. ASSUME NEW p \in Procs, UnlockEx(p) PROVE LockInv'
  BY <1>9, ZenonT(30) DEF UnlockEx
<1>10. ASSUME NEW p \in Procs, LeaveSection(p) PROVE LockInv'
  BY <1>10 DEF LeaveSection
<1>11. ASSUME NEW p \in Procs, ProgramEnds(p) PROVE LockInv'
  BY <1>11 DEF ProgramEnds
<1>12. ASSUME NEW p \in Procs, MarkRecovery(p) PROVE LockInv'
  BY <1>12 DEF MarkRecovery
<1>13. ASSUME NEW p \in Procs, LetGo(p) PROVE LockInv'
  BY <1>13 DEF LetGo
<1>14. ASSUME NEW p \in Procs, Reserve(p) PROVE LockInv'
  BY <1>14 DEF Reserve
<1>15. ASSUME NEW p \in Procs, TestOwner(p) \/ RemoveStale(p) PROVE LockInv'
  <2>1. CASE TestOwner(p)
    BY <2>1 DEF TestOwner, Leaks
  <2>2. CASE RemoveStale(p)
    BY <2>2, ZenonT(30) DEF RemoveStale
  <2>3. QED
    BY <1>15, <2>1, <2>2
<1>16. ASSUME NEW p \in Procs, Retry(p) PROVE LockInv'
  BY <1>16 DEF Retry
<1>17. ASSUME NEW p \in Procs, Crash(p) PROVE LockInv'
  BY <1>17 DEF Crash
<1>18. ASSUME NEW p \in Procs, Fails(p) PROVE LockInv'
  BY <1>18 DEF Fails
<1>19. QED
  BY <1>1, <1>2, <1>3, <1>4, <1>5, <1>6, <1>7, <1>8, <1>9, <1>10, <1>11, <1>12, <1>13,
     <1>14, <1>15, <1>16, <1>17, <1>18 DEF LockNext, Step

\* Every variable keeps its range.
THEOREM LockTypeCorrect == LockSpec => []LockTypeOK
<1>1. LockInv => LockTypeOK
  BY DEF LockInv
<1>2. QED
  BY InitLockInv, NextLockInv, <1>1, PTL DEF LockSpec

\* The pipes a process has open for writing are those its position in the code says,
\* in every round of the loop and after every crash; what T has left open for reading
\* goes when the process or its program does.
THEOREM DescriptorsFollow == LockSpec => []PipesFollowCode
<1>1. LockInv => PipesFollowCode
  BY DEF LockInv
<1>2. QED
  BY InitLockInv, NextLockInv, <1>1, PTL DEF LockSpec

-----------------------------------------------------------------------------
(* fifolock: the first two attempts.                                       *)

\* Before the section, where a process may find a lock that is not its own; and where it
\* believes to hold the lock.
Young == {"enter", "show", "create"} \cup Recovery
Inside == Section \ {"leave"}

\* An attempt begins once and creates the file once: as long as there was one, nobody finds
\* a lock, and there are never more processes than attempts.
FewInv ==
    /\ attempts = 0 => ~exclusive /\ \A p \in Procs : place[p] = "out"
    /\ attempts = 1 =>
           /\ \A p, q \in Procs : place[p] # "out" /\ place[q] # "out" => p = q
           /\ \A p \in Procs : place[p] \in Young => ~exclusive /\ place[p] \notin Recovery
    /\ attempts = 2 =>
           \A p, q, r \in Procs : place[p] # "out" /\ place[q] # "out" /\ place[r] # "out" =>
               p = q \/ q = r \/ p = r

\* Who finds a lock finds that of the other attempt, which is past the section or dead when
\* the lock is removed.
ExcludeInv ==
    /\ \A p, q \in Procs : p # q /\ place[p] \in Young /\ place[q] \in Young => ~exclusive /\ place[p] \notin Recovery
    /\ \A p, q \in Procs : p # q /\ place[p] = "remove" => place[q] \notin Section
    /\ \A p \in Procs : place[p] \in Inside => exclusive
    /\ \A p, q \in Procs : place[p] \in Inside /\ place[q] \in Inside => p = q
    /\ \A p \in Procs : place[p] = "claim" => open[4] = {}
    /\ \A p, q \in open[4] : p = q
    /\ \A p \in Procs : place[p] = "program" => p \in open[4]

TwoInv == attempts <= 2 => FewInv /\ ExcludeInv


\* At the start no attempt has begun.
LEMMA InitTwoInv == LockInit => TwoInv
<1> SUFFICES ASSUME LockInit PROVE TwoInv
  OBVIOUS
<1>1. \A p \in Procs : place[p] = "out"
  BY DEF LockInit
<1>2. open[4] = {}
  BY DEF LockInit, Pipes
<1>3. attempts = 0 /\ ~exclusive
  BY DEF LockInit
<1>4. FewInv
  BY <1>1, <1>3 DEF FewInv
<1>5. ExcludeInv
  BY <1>1, <1>2 DEF ExcludeInv, Young, Inside, Section, Recovery
<1>6. QED
  BY <1>4, <1>5 DEF TwoInv

\* With no attempt begun nobody is anywhere; an attempt that is the only one passes the
\* section undisturbed; the second may find the lock of the first, but takes it away only
\* when nobody has pipe 1 open, and then the first is out of the section.
LEMMA NextTwoInv == LockInv /\ TwoInv /\ [LockNext]_lockVars => TwoInv'
<1> SUFFICES ASSUME LockInv, TwoInv, [LockNext]_lockVars, attempts' <= 2 PROVE FewInv' /\ ExcludeInv'
  BY DEF TwoInv
<1>1. /\ place \in [Procs -> {"out", "program"} \cup Busy]
      /\ open \in [Pipes -> SUBSET Procs]
      /\ exclusive \in BOOLEAN
      /\ attempts \in Nat
  BY DEF LockInv, LockTypeOK
<1>2. \A q \in Procs : place[q] \in Section => q \in open[1]
  BY DEF LockInv, PipesFollowCode, Holds, Section
<1>3. \A q \in Procs : q \in open[4] => place[q] \in {"unlock", "leave", "program"}
  BY DEF LockInv, PipesFollowCode
<1> USE DEF Young, Inside, Section, Recovery, Busy, Moves, rest
<1>4. CASE UNCHANGED lockVars
  BY <1>1, <1>4 DEF lockVars, TwoInv, FewInv, ExcludeInv
<1>5. ASSUME NEW p \in Procs, Start(p) PROVE FewInv' /\ ExcludeInv'
  <2>1. /\ attempts \in {0, 1} /\ attempts' = attempts + 1
        /\ FewInv /\ ExcludeInv
        /\ place[p] = "out" /\ place' = [place EXCEPT ![p] = "enter"]
        /\ open' = open /\ exclusive' = exclusive
    BY <1>1, <1>5 DEF Start, TwoInv
  <2>2. FewInv'
    BY <1>1, <2>1 DEF FewInv
  <2>3. ExcludeInv'
    BY <1>1, <1>3, <2>1 DEF FewInv, ExcludeInv
  <2>4. QED
    BY <2>2, <2>3
<1>6. ASSUME NEW p \in Procs, Step(p) \/ ProgramEnds(p) \/ Crash(p), attempts' = attempts
      PROVE FewInv' /\ ExcludeInv'
  <2>1. FewInv /\ ExcludeInv
    BY <1>6 DEF TwoInv
  <2>2. CASE Enter(p)
    BY <1>1, <2>1, <2>2 DEF Enter, L, Pipes, FewInv, ExcludeInv
  <2>3. CASE Show(p)
    BY <1>1, <2>1, <2>3 DEF Show, L, Pipes, FewInv, ExcludeInv
  <2>4. CASE Create(p)
    BY <1>1, <2>1, <2>4 DEF Create, FewInv, ExcludeInv
  <2>5. CASE Occupied(p)
    BY <1>1, <2>1, <2>5 DEF Occupied, FewInv, ExcludeInv
  <2>6. CASE MarkSection(p)
    BY <1>1, <2>1, <2>6 DEF MarkSection, L, Pipes, FewInv, ExcludeInv
  <2>7. CASE TestProgram(p)
    BY <1>1, <2>1, <2>7 DEF TestProgram, T, FewInv, ExcludeInv
  <2>8. CASE Claim(p)
    BY <1>1, <2>1, <2>8 DEF Claim, L, Pipes, FewInv, ExcludeInv
  <2>9. CASE UnlockEx(p)
    BY <1>1, <2>1, <2>9 DEF UnlockEx, FewInv, ExcludeInv
  <2>10. CASE LeaveSection(p)
    BY <1>1, <2>1, <2>10 DEF LeaveSection, U, Pipes, FewInv, ExcludeInv
  <2>11. CASE MarkRecovery(p)
    BY <1>1, <2>1, <2>11 DEF MarkRecovery, L, Pipes, FewInv, ExcludeInv
  <2>12. CASE LetGo(p)
    BY <1>1, <2>1, <2>12 DEF LetGo, U, Pipes, FewInv, ExcludeInv
  <2>13. CASE Reserve(p)
    BY <1>1, <2>1, <2>13 DEF Reserve, L, Pipes, FewInv, ExcludeInv
  <2>14. CASE TestOwner(p)
    BY <1>1, <1>2, <2>1, <2>14 DEF TestOwner, T, FewInv, ExcludeInv
  <2>15. CASE RemoveStale(p)
    BY <1>1, <2>1, <2>15 DEF RemoveStale, FewInv, ExcludeInv
  <2>16. CASE Retry(p)
    BY <1>1, <2>1, <2>16 DEF Retry, U, Pipes, FewInv, ExcludeInv
  <2>17. CASE ProgramEnds(p)
    BY <1>1, <2>1, <2>17 DEF ProgramEnds, U, Pipes, FewInv, ExcludeInv
  <2>18. CASE Crash(p)
    BY <1>1, <2>1, <2>18 DEF Crash, U, Pipes, FewInv, ExcludeInv
  <2>19. CASE Fails(p)
    BY <1>1, <2>1, <2>19 DEF Fails, FewInv, ExcludeInv
  <2>20. QED
    BY <1>6, <2>2, <2>3, <2>4, <2>5, <2>6, <2>7, <2>8, <2>9, <2>10, <2>11, <2>12, <2>13,
       <2>14, <2>15, <2>16, <2>17, <2>18, <2>19 DEF Step
<1>7. \A p \in Procs : Step(p) \/ ProgramEnds(p) \/ Crash(p) => attempts' = attempts
  BY DEF Step, Enter, Show, Create, Occupied, MarkSection, TestProgram, Claim, UnlockEx,
         LeaveSection, MarkRecovery, LetGo, Reserve, TestOwner, RemoveStale, Retry, ProgramEnds, Crash, Fails
<1>8. QED
  BY <1>4, <1>5, <1>6, <1>7 DEF LockNext

\* Of the first two attempts at most one starts its program, however often and wherever a
\* process is killed: the section, T(4) and L(4) of fifolock.c exclude one another.
THEOREM FirstTwoAreExclusive == LockSpec => []FirstTwoExclude
<1>1. LockInv /\ TwoInv => FirstTwoExclude
  BY DEF TwoInv, ExcludeInv, FirstTwoExclude, AtMostOneProgram
<1>2. LockInit => LockInv /\ TwoInv
  BY InitLockInv, InitTwoInv
<1>3. LockInv /\ TwoInv /\ [LockNext]_lockVars => (LockInv /\ TwoInv)'
  BY NextLockInv, NextTwoInv
<1>4. QED
  BY <1>1, <1>2, <1>3, PTL DEF LockSpec

=============================================================================
