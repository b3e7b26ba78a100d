----------------------------- MODULE FileWriter -----------------------------
(***************************************************************************)
(* One incoming file on the server (src/filewriter.cpp, src/filelist.cpp, *)
(* src/datareceiver.cpp, src/sysapi/posix/multithread.cpp).  Two threads  *)
(* share a fileWriter_t:                                                  *)
(*                                                                         *)
(*   - the receiver, a dataReceiver_t serving one connection, creates the *)
(*     controller, pushes the fragments it receives into the queue and    *)
(*     drops its reference when the client is done or gone;               *)
(*   - the writer, the thread the controller itself starts, pops the      *)
(*     fragments, writes them and reports the outcome.                    *)
(*                                                                         *)
(* Whoever comes last is supposed to delete the controller.  A step is    *)
(* what a thread does between two points where the other one can run: a   *)
(* semaphore operation, a locked region, an access to a shared field.     *)
(* Fragments are counted instead of bytes, and a fragment is identified   *)
(* by its place in the order of arrival.                                  *)
(***************************************************************************)
EXTENDS Naturals, Sequences, FiniteSets

CONSTANTS FSize,           \* fSize: the fragments that make up the file
          MaxBuf,          \* MAX_BUF_FRAGMENT_COUNT
          UpdateInterval,  \* updateInterval: fragments between two updates
          Faults,          \* the ways this client may leave the protocol
          MaxExtra         \* bound: fragments a faulty client sends too many

ASSUME ConstantsOK ==
    /\ FSize \in Nat
    /\ MaxBuf \in Nat \ {0}
    /\ UpdateInterval \in Nat \ {0}
    /\ Faults \subseteq {"drop", "extra", "disk"}
    /\ MaxExtra \in Nat

VARIABLES
    rpc, wpc,               \* where the receiver and the writer are
    arrived,                \* position of every fragment received so far
    queue,                  \* fragments in the priority queue
    cur,                    \* the fragment the writer has popped
    inputSem, outputSem,    \* free places, and fragments to be popped
    refSem, refcount,       \* fileController_t
    mutex,                  \* who holds fileWriter_t::mutex
    stop, hasStopped, zr,   \* the three flags of the shutdown protocol
    bytes, tStatus, lastUpdate,
    written,                \* fragments that are in the file
    events,                 \* the progress events plugins were called with
    inList,                 \* is the controller in fileList_t::identifiers?
    running, queued,        \* the writer thread: tdata.running, waits for join
    obj,                    \* the controller's memory
    fate                    \* what became of the process

control == <<rpc, wpc>>
buffer  == <<arrived, queue, cur, inputSem, outputSem>>
refs    == <<refSem, refcount>>
flags   == <<stop, hasStopped, zr>>
thread  == <<running, queued>>
life    == <<refs, mutex, flags, inList, thread, obj>>
report  == <<bytes, tStatus, lastUpdate, written, events>>
vars    == <<control, buffer, life, report, fate>>

Pos   == 0 .. FSize - 1
NoFragment == 0
Fragments  == 1 .. Len(arrived)

ReceiverPCs == {"create", "started", "begin", "insert", "incRC", "recv",
                "waitInput", "push", "postOutput", "decRC", "setZR", "check",
                "remove", "setStop", "wake", "postRef", "done", "killed"}
WriterPCs == {"none", "start", "loop", "waitOutput", "testStop", "pop",
              "postInput", "write", "drain", "status", "setStop", "update",
              "end", "testRef", "waitRef", "check", "setStopped", "exit",
              "autoDelete", "delete", "gone"}
Statuses == {"IN_PROGRESS", "FINISHED", "ERROR"}
Event == [kind : {"begin", "update", "end"}, status : Statuses]

Init ==
    /\ rpc = "create" /\ wpc = "none"
    /\ arrived = <<>> /\ queue = {} /\ cur = NoFragment
    /\ inputSem = MaxBuf /\ outputSem = 0
    /\ refSem = 0 /\ refcount = 0 /\ mutex = "free"
    /\ stop = FALSE /\ hasStopped = FALSE /\ zr = TRUE
    /\ bytes = 0 /\ tStatus = "IN_PROGRESS" /\ lastUpdate = 0
    /\ written = {} /\ events = <<>>
    /\ inList = FALSE /\ running = FALSE /\ queued = FALSE
    /\ obj = "live" /\ fate = "running"

-----------------------------------------------------------------------------
(* Control.  A thread that is inside one of these sections works on the    *)
(* controller, so it is guarded by the memory being there; the two Touches *)
(* actions below are what happens when it is not.                          *)

ReceiverAt(l) == fate = "running" /\ obj = "live" /\ rpc = l
WriterAt(l)   == fate = "running" /\ obj = "live" /\ wpc = l

ReceiverGoes(l) == rpc' = l /\ UNCHANGED <<wpc, fate>>
WriterGoes(l)   == wpc' = l /\ UNCHANGED <<rpc, fate>>

\* Mutant: zr is left out.
HasStoppedOnly == hasStopped

\* autoDelete(), and the test inside cleanupCheck().
MayDelete == zr /\ hasStopped

Emit(kind) == events' = Append(events, [kind |-> kind, status |-> tStatus])

-----------------------------------------------------------------------------
(* The receiver: creating the controller.                                  *)

\* thread_t::start in the constructor; it keeps tdata.mutex until it returns.
Create ==
    /\ ReceiverAt("create")
    /\ rpc' = "started" /\ wpc' = "start"
    /\ UNCHANGED <<buffer, life, report, fate>>

StartReturns ==
    /\ ReceiverAt("started")
    /\ ReceiverGoes("begin")
    /\ UNCHANGED <<buffer, life, report>>

\* The last statement of the constructor; the writer is running already.
BroadcastBegin ==
    /\ ReceiverAt("begin")
    /\ Emit("begin")
    /\ ReceiverGoes("insert")
    /\ UNCHANGED <<buffer, life, bytes, tStatus, lastUpdate, written>>

InsertController ==
    /\ ReceiverAt("insert")
    /\ inList' = TRUE
    /\ ReceiverGoes("incRC")
    /\ UNCHANGED <<buffer, refs, mutex, flags, thread, obj, report>>

\* parseHeader takes its reference and then answers "accept".
IncRC ==
    /\ ReceiverAt("incRC")
    /\ refcount' = refcount + 1
    /\ ReceiverGoes("recv")
    /\ UNCHANGED <<buffer, refSem, mutex, flags, inList, thread, obj, report>>

-----------------------------------------------------------------------------
(* The receiver: taking fragments.  The client decides what comes next.    *)

Sent == {arrived[i] : i \in Fragments}

\* A client following the protocol sends every position once, in any order; a
\* faulty one repeats some or writes past the end, MaxExtra fragments too many.
\* An empty fragment is dropped by writeData without touching anything.
ReceiveFragment(p) ==
    /\ ReceiverAt("recv")
    /\ \/ p \in Pos \ Sent
       \/ "extra" \in Faults /\ Len(arrived) < FSize + MaxExtra
    /\ arrived' = Append(arrived, p)
    /\ ReceiverGoes("waitInput")
    /\ UNCHANGED <<queue, cur, inputSem, outputSem, life, report>>

\* "finished"; or, when the client may fail, a lost connection or a fragment
\* that cannot be parsed.  All of them end in decRC.
EndOfData ==
    /\ ReceiverAt("recv")
    /\ Pos \subseteq Sent \/ "drop" \in Faults
    /\ ReceiverGoes("decRC")
    /\ UNCHANGED <<buffer, life, report>>

\* Mutant: the place is not counted as taken.
WaitInputUncounted ==
    /\ ReceiverAt("waitInput")
    /\ ReceiverGoes("push")
    /\ UNCHANGED <<buffer, life, report>>

WaitInput ==
    /\ ReceiverAt("waitInput")
    /\ inputSem > 0
    /\ inputSem' = inputSem - 1
    /\ ReceiverGoes("push")
    /\ UNCHANGED <<arrived, queue, cur, outputSem, life, report>>

Push ==
    /\ ReceiverAt("push")
    /\ mutex = "free"
    /\ queue' = queue \cup {Len(arrived)}
    /\ ReceiverGoes("postOutput")
    /\ UNCHANGED <<arrived, cur, inputSem, outputSem, life, report>>

PostOutput ==
    /\ ReceiverAt("postOutput")
    /\ outputSem' = outputSem + 1
    /\ ReceiverGoes("recv")
    /\ UNCHANGED <<arrived, queue, cur, inputSem, life, report>>

-----------------------------------------------------------------------------
(* The receiver: giving the reference back.                                *)

DecRC ==
    /\ ReceiverAt("decRC")
    /\ refcount' = refcount - 1
    /\ ReceiverGoes(IF refcount = 1 THEN "setZR" ELSE "postRef")
    /\ UNCHANGED <<buffer, refSem, mutex, flags, inList, thread, obj, report>>

\* zeroReferences: zr is set under the mutex, the answer is looked up later.
SetZR ==
    /\ ReceiverAt("setZR")
    /\ mutex = "free"
    /\ zr' = TRUE
    /\ ReceiverGoes("check")
    /\ UNCHANGED <<buffer, refs, mutex, stop, hasStopped, inList, thread, obj,
                   report>>

ReceiverCheck ==
    /\ ReceiverAt("check")
    /\ mutex = "free"
    /\ ReceiverGoes(IF MayDelete THEN "remove" ELSE "setStop")
    /\ UNCHANGED <<buffer, life, report>>

\* removeController(id, true).  The destructor takes the mutex.  When the
\* writer thread has not reached delThread yet, ~linuxThreadData_t calls
\* pthread_exit on the deleting thread: it is unwound out of a destructor, or
\* the process is terminated, depending on the language standard of the build.
RemoveController ==
    /\ ReceiverAt("remove")
    /\ mutex = "free"
    /\ inList' = FALSE /\ obj' = "deleted"
    /\ \/ ~running /\ rpc' = "postRef" /\ UNCHANGED fate
       \/ running /\ rpc' = "killed" /\ fate' \in {"running", "aborted"}
    /\ UNCHANGED <<wpc, buffer, refs, mutex, flags, thread, report>>

SetStop ==
    /\ ReceiverAt("setStop")
    /\ mutex = "free"
    /\ mutex' = "receiver" /\ stop' = TRUE
    /\ ReceiverGoes("wake")
    /\ UNCHANGED <<buffer, refs, hasStopped, zr, inList, thread, obj, report>>

\* Mutant: a writer that waits for data is not woken.
WakeNobody ==
    /\ ReceiverAt("wake")
    /\ mutex' = "free"
    /\ ReceiverGoes("postRef")
    /\ UNCHANGED <<buffer, refs, flags, inList, thread, obj, report>>

\* The extra token lets a writer that waits for data find out that none comes.
Wake ==
    /\ ReceiverAt("wake")
    /\ outputSem' = outputSem + 1 /\ mutex' = "free"
    /\ ReceiverGoes("postRef")
    /\ UNCHANGED <<arrived, queue, cur, inputSem, refs, flags, inList, thread,
                   obj, report>>

\* The last access decRC makes to the controller.
PostRef ==
    /\ ReceiverAt("postRef")
    /\ refSem' = refSem + 1
    /\ ReceiverGoes("done")
    /\ UNCHANGED <<buffer, refcount, mutex, flags, inList, thread, obj,
                   report>>

-----------------------------------------------------------------------------
(* The writer: writing the file.                                           *)

\* startThread, and the first statement of run().
StartThread ==
    /\ WriterAt("start")
    /\ running' = TRUE /\ zr' = FALSE
    /\ WriterGoes("loop")
    /\ UNCHANGED <<buffer, refs, mutex, stop, hasStopped, inList, queued, obj,
                   report>>

Loop ==
    /\ WriterAt("loop")
    /\ WriterGoes(IF bytes < FSize /\ ~stop THEN "waitOutput" ELSE "drain")
    /\ UNCHANGED <<buffer, life, report>>

WaitOutput ==
    /\ WriterAt("waitOutput")
    /\ outputSem > 0
    /\ outputSem' = outputSem - 1
    /\ WriterGoes("testStop")
    /\ UNCHANGED <<arrived, queue, cur, inputSem, life, report>>

\* Mutant: stop is not looked at between the token and the pop.
TestStopNot ==
    /\ WriterAt("testStop")
    /\ WriterGoes("pop")
    /\ UNCHANGED <<buffer, life, report>>

TestStop ==
    /\ WriterAt("testStop")
    /\ WriterGoes(IF stop THEN "loop" ELSE "pop")
    /\ UNCHANGED <<buffer, life, report>>

\* The fragments of a transfer are all equivalent under dataFragment_t's
\* operator<, so which one top() answers is left open.
Pop ==
    /\ WriterAt("pop")
    /\ mutex = "free"
    /\ \E f \in queue :
          /\ cur' = f
          /\ queue' = queue \ {f}
    /\ WriterGoes("postInput")
    /\ UNCHANGED <<arrived, inputSem, outputSem, life, report>>

\* Mutant: the place is not given back.
PostInputForgotten ==
    /\ WriterAt("postInput")
    /\ WriterGoes("write")
    /\ UNCHANGED <<buffer, life, report>>

PostInput ==
    /\ WriterAt("postInput")
    /\ inputSem' = inputSem + 1
    /\ WriterGoes("write")
    /\ UNCHANGED <<arrived, queue, cur, outputSem, life, report>>

WriteFragment ==
    /\ WriterAt("write")
    /\ written' = written \cup {cur} /\ bytes' = bytes + 1
    /\ cur' = NoFragment
    /\ lastUpdate' = (lastUpdate + 1) % UpdateInterval
    /\ IF lastUpdate' = 0 THEN Emit("update") ELSE UNCHANGED events
    /\ WriterGoes("loop")
    /\ UNCHANGED <<arrived, queue, inputSem, outputSem, life, tStatus>>

\* Mutant: what is queued is left there.
DrainForgotten ==
    /\ WriterAt("drain")
    /\ WriterGoes("status")
    /\ UNCHANGED <<buffer, life, report>>

\* "try write remaining data": what is queued when the loop ends, in one
\* locked region and without giving the places back.
Drain ==
    /\ WriterAt("drain")
    /\ mutex = "free"
    /\ written' = written \cup queue /\ bytes' = bytes + Cardinality(queue)
    /\ queue' = {}
    /\ WriterGoes("status")
    /\ UNCHANGED <<arrived, cur, inputSem, outputSem, life, tStatus,
                   lastUpdate, events>>

\* PosixFile::writeData throws when the disk is full; nothing in the writer
\* thread catches it, and std::terminate ends the whole server.
DiskFails ==
    /\ "disk" \in Faults
    /\ \/ WriterAt("write")
       \/ WriterAt("drain") /\ mutex = "free" /\ queue # {}
    /\ fate' = "aborted"
    /\ UNCHANGED <<control, buffer, life, report>>

-----------------------------------------------------------------------------
(* The writer: reporting the outcome and going away.                       *)

\* Mutant: the status is never set.
OutcomeForgotten == tStatus

Outcome == IF bytes = FSize THEN "FINISHED" ELSE "ERROR"

Settle ==
    /\ WriterAt("status")
    /\ tStatus' = IF tStatus = "IN_PROGRESS" THEN Outcome ELSE tStatus
    /\ WriterGoes("setStop")
    /\ UNCHANGED <<buffer, life, bytes, lastUpdate, written, events>>

WriterStops ==
    /\ WriterAt("setStop")
    /\ stop' = TRUE
    /\ WriterGoes("update")
    /\ UNCHANGED <<buffer, refs, mutex, hasStopped, zr, inList, thread, obj,
                   report>>

BroadcastUpdate ==
    /\ WriterAt("update")
    /\ Emit("update")
    /\ WriterGoes("end")
    /\ UNCHANGED <<buffer, life, bytes, tStatus, lastUpdate, written>>

BroadcastEnd ==
    /\ WriterAt("end")
    /\ Emit("end")
    /\ WriterGoes("testRef")
    /\ UNCHANGED <<buffer, life, bytes, tStatus, lastUpdate, written>>

\* waitZR: the counter is read without refmutex.
TestRef ==
    /\ WriterAt("testRef")
    /\ WriterGoes(IF refcount # 0 THEN "waitRef" ELSE "check")
    /\ UNCHANGED <<buffer, life, report>>

WaitRef ==
    /\ WriterAt("waitRef")
    /\ refSem > 0
    /\ refSem' = refSem - 1
    /\ WriterGoes("testRef")
    /\ UNCHANGED <<buffer, refcount, mutex, flags, inList, thread, obj,
                   report>>

\* cleanupCheck(true) comes before hasStopped is set.
WriterCheck ==
    /\ WriterAt("check")
    /\ mutex = "free"
    /\ inList' = (inList /\ ~MayDelete)
    /\ WriterGoes("setStopped")
    /\ UNCHANGED <<buffer, refs, mutex, flags, thread, obj, report>>

SetStopped ==
    /\ WriterAt("setStopped")
    /\ hasStopped' = TRUE
    /\ WriterGoes("exit")
    /\ UNCHANGED <<buffer, refs, mutex, stop, zr, inList, thread, obj, report>>

\* delThread: locks tdata.mutex, which start() holds until it returns, and
\* hands the thread to the main thread for joining.
ExitThread ==
    /\ WriterAt("exit")
    /\ rpc # "started"
    /\ running' = FALSE /\ queued' = TRUE
    /\ WriterGoes("autoDelete")
    /\ UNCHANGED <<buffer, refs, mutex, flags, inList, obj, report>>

AutoDelete ==
    /\ WriterAt("autoDelete")
    /\ WriterGoes(IF MayDelete THEN "delete" ELSE "gone")
    /\ UNCHANGED <<buffer, life, report>>

DeleteSelf ==
    /\ WriterAt("delete")
    /\ mutex = "free"
    /\ obj' = "deleted"
    /\ WriterGoes("gone")
    /\ UNCHANGED <<buffer, refs, mutex, flags, inList, thread, report>>

-----------------------------------------------------------------------------
(* Working on a controller that has been deleted by the other thread.      *)

ReceiverTouchesFreed ==
    /\ fate = "running" /\ obj = "deleted"
    /\ rpc \notin {"create", "done", "killed"}
    /\ fate' = "undefined"
    /\ UNCHANGED <<control, buffer, life, report>>

WriterTouchesFreed ==
    /\ fate = "running" /\ obj = "deleted"
    /\ wpc \notin {"none", "gone"}
    /\ fate' = "undefined"
    /\ UNCHANGED <<control, buffer, life, report>>

ReceiverStep ==
    \/ Create \/ StartReturns \/ BroadcastBegin \/ InsertController \/ IncRC
    \/ \E p \in 0 .. FSize : ReceiveFragment(p)
    \/ EndOfData \/ WaitInput \/ Push \/ PostOutput
    \/ DecRC \/ SetZR \/ ReceiverCheck \/ RemoveController
    \/ SetStop \/ Wake \/ PostRef \/ ReceiverTouchesFreed

WriterStep ==
    \/ StartThread \/ Loop \/ WaitOutput \/ TestStop \/ Pop
    \/ PostInput \/ WriteFragment \/ Drain \/ DiskFails
    \/ Settle \/ WriterStops \/ BroadcastUpdate \/ BroadcastEnd
    \/ TestRef \/ WaitRef \/ WriterCheck \/ SetStopped \/ ExitThread
    \/ AutoDelete \/ DeleteSelf \/ WriterTouchesFreed

\* Both threads have returned, or the process has come to an end.
Over == fate # "running" \/ (rpc \in {"done", "killed"} /\ wpc = "gone")
Terminated == Over /\ UNCHANGED vars

Next == ReceiverStep \/ WriterStep \/ Terminated

Spec == Init /\ [][Next]_vars

(* Both are ordinary threads, and nothing here needs more than that a      *)
(* thread which can go on does.  For the receiver this says in addition    *)
(* that the client does not fall silent for ever: the code has no timeout. *)
FairSpec == Spec /\ WF_vars(ReceiverStep) /\ WF_vars(WriterStep)
-----------------------------------------------------------------------------
(* Properties.                                                             *)

Stored == {arrived[i] : i \in written}
Ended  == \E i \in DOMAIN events : events[i].kind = "end"

\* The range of every variable.
TypeOK ==
    /\ rpc \in ReceiverPCs /\ wpc \in WriterPCs
    /\ arrived \in Seq(Nat)
    /\ queue \subseteq Fragments /\ written \subseteq Fragments
    /\ cur \in Fragments \cup {NoFragment}
    /\ inputSem \in Nat /\ outputSem \in Nat
    /\ refSem \in Nat /\ refcount \in 0 .. 1
    /\ mutex \in {"free", "receiver"}
    /\ stop \in BOOLEAN /\ hasStopped \in BOOLEAN /\ zr \in BOOLEAN
    /\ bytes \in Nat /\ lastUpdate \in Nat
    /\ tStatus \in Statuses
    /\ events \in Seq(Event)
    /\ inList \in BOOLEAN /\ running \in BOOLEAN /\ queued \in BOOLEAN
    /\ obj \in {"live", "deleted"}
    /\ fate \in {"running", "aborted", "undefined"}

\* The writer never calls top() on an empty priority queue: a token that was
\* not posted for a fragment is posted after stop, and stop is looked at between
\* the token and the pop (writeBuffer, zeroReferences).
NeverPopsEmpty == wpc = "pop" => queue # {}

\* The two semaphores keep the buffer within MAX_BUF_FRAGMENT_COUNT: a place is
\* never handed out twice, counting the one the receiver has taken and not yet
\* filled and the one the writer has emptied and not yet given back.
BufferBounded ==
    inputSem + Cardinality(queue)
      + (IF rpc = "push" THEN 1 ELSE 0)
      + (IF wpc = "postInput" THEN 1 ELSE 0) <= MaxBuf

\* FINISHED is reported only when every position of the file is on the disk,
\* whatever order the fragments arrived and were popped in (run).
FinishedIsComplete == tStatus = "FINISHED" => Stored = Pos

\* ERROR is reported only when the client did not deliver the whole file: no
\* interleaving of "finished" with a full queue loses a fragment (run, which
\* drains the queue after stop).
ErrorIsIncomplete == tStatus = "ERROR" => Sent # Pos

\* After onEnd a plugin hears no update and no second end of the transfer, and
\* onEnd never shows it a transfer that is still in progress.
EndIsFinal ==
    \A i \in DOMAIN events :
        events[i].kind = "end" =>
            /\ events[i].status # "IN_PROGRESS"
            /\ \A j \in DOMAIN events : j > i => events[j].kind = "begin"

\* The destructor throws away no fragment the client has delivered.
NothingDiscarded == obj = "deleted" => queue = {}

\* The controller is deleted only after its end was announced and the receiver
\* put zr on record after giving its reference back, whichever thread deletes it.
DeletedAfterRelease ==
    obj = "deleted" =>
        /\ Ended
        /\ rpc \in {"check", "remove", "setStop", "wake", "postRef", "done", "killed"}

\* Every transfer that was started is announced as ended, whether the client
\* finishes, breaks the protocol or disappears.
AlwaysReported == (rpc = "started") ~> Ended

\* The receiver thread always comes out of receiveFileData.
ReceiverReleased ==
    (rpc = "started") ~> (rpc \in {"done", "killed"} \/ fate # "running")

\* The transfer as plugins see it is the one Transfer describes: FINISHED is reported
\* when every part is on the disk and ERROR only when the client did not deliver them
\* all, so nothing is lost between the queue and the file.
T == INSTANCE Transfer WITH
         status <- tStatus, sent <- Sent, stored <- Stored, announced <- Ended
RefinesTransfer == T!Spec

\* A plugin hears nothing of a transfer before its onBegin, although the writer
\* is started first (fileWriter_t's constructor): include/pluginapi.h, onBegin is
\* called when the transfer started, onUpdate during it and onEnd when it ended.
BeginComesFirst == events # <<>> => events[1].kind = "begin"

\* doc/code_sk.txt: since the threads are separate, no synchronisation is needed.
NoUseAfterFree == fate # "undefined"

\* include/pluginapi.h: once the file is transferred, "fileStatus will be
\* deleted soon".
EventuallyDeleted == Ended ~> (obj = "deleted" \/ fate # "running")
=============================================================================
