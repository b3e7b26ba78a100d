-------------------------- MODULE FileWriterProofs --------------------------
(***************************************************************************)
(* Theorems about FileWriter that hold for every file size, buffer size   *)
(* and kind of client.                                                    *)
(***************************************************************************)
EXTENDS FileWriter, FiniteSetTheorems, SequenceTheorems, TLAPS

-----------------------------------------------------------------------------
(* Types, with what the later steps of a thread rely on.                   *)

Holding == {"recv", "waitInput", "push", "postOutput", "decRC"}

Shape ==
    /\ rpc = "create" => wpc = "none"
    /\ refcount = IF rpc \in Holding THEN 1 ELSE 0
    /\ rpc \in {"waitInput", "push"} =>
          Len(arrived) > 0 /\ Len(arrived) \notin queue
    /\ wpc \in {"postInput", "write"} => cur \in Fragments

TypeInv == TypeOK /\ Shape

\* A set of arrival numbers is finite, so the drain can count it.
LEMMA QueueFinite ==
  ASSUME NEW n \in Nat, NEW S \in SUBSET (1 .. n)
  PROVE  IsFiniteSet(S) /\ Cardinality(S) \in Nat
<1>1. IsFiniteSet(1 .. n)
  BY FS_Interval
<1>2. IsFiniteSet(S)
  BY <1>1, FS_Subset
<1>3. QED
  BY <1>2, FS_CardinalityType

\* The constructor leaves every field in its range.
LEMMA InitTypeInv == Init => TypeInv
<1> SUFFICES ASSUME Init PROVE TypeInv
  OBVIOUS
<1>1. arrived \in Seq(Nat) /\ events \in Seq(Event)
  BY DEF Init
<1>2. rpc \in ReceiverPCs /\ wpc \in WriterPCs /\ tStatus \in Statuses
  BY DEF Init, ReceiverPCs, WriterPCs, Statuses
<1>3. inputSem \in Nat /\ outputSem \in Nat /\ refSem \in Nat
      /\ refcount \in 0 .. 1 /\ bytes \in Nat /\ lastUpdate \in Nat
  BY ConstantsOK DEF Init
<1>4. Shape
  BY DEF Init, Shape, Holding
<1>5. QED
  BY <1>1, <1>2, <1>3, <1>4 DEF Init, TypeInv, TypeOK

\* The receiver's steps keep every field in its range.
LEMMA ReceiverTypeInv == TypeInv /\ ReceiverStep => TypeInv'
<1> SUFFICES ASSUME TypeInv, ReceiverStep PROVE TypeInv'
  OBVIOUS
<1> USE DEF TypeInv, TypeOK, Shape, Fragments, Holding, ReceiverPCs, WriterPCs,
        ReceiverAt, ReceiverGoes, control, buffer, refs, flags, thread, life,
        report
<1>0. \A k \in {"begin", "update", "end"} :
         Append(events, [kind |-> k, status |-> tStatus]) \in Seq(Event)
  BY DEF Event
<1>1. CASE Create
  BY <1>1 DEF Create
<1>2. CASE StartReturns
  BY <1>2 DEF StartReturns
<1>3. CASE BroadcastBegin
  BY <1>3, <1>0 DEF BroadcastBegin, Emit
<1>4. CASE InsertController
  BY <1>4 DEF InsertController
<1>5. CASE IncRC
  BY <1>5 DEF IncRC
<1>6. ASSUME NEW p \in 0 .. FSize, ReceiveFragment(p) PROVE TypeInv'
  BY <1>6, ConstantsOK DEF ReceiveFragment
<1>7. CASE EndOfData
  BY <1>7 DEF EndOfData
<1>8. CASE WaitInput
  BY <1>8 DEF WaitInput
<1>9. CASE Push
  <2>1. Len(arrived) \in Fragments
    BY <1>9, LenProperties DEF Push
  <2>2. queue' \subseteq Fragments'
    BY <1>9, <2>1 DEF Push
  <2>3. QED
    BY <1>9, <2>2 DEF Push
<1>10. CASE PostOutput
  BY <1>10 DEF PostOutput
<1>11. CASE DecRC
  BY <1>11 DEF DecRC
<1>12. CASE SetZR
  BY <1>12 DEF SetZR
<1>13. CASE ReceiverCheck
  BY <1>13 DEF ReceiverCheck
<1>14. CASE RemoveController
  <2>1. rpc' \in {"postRef", "killed"} /\ fate' \in {"running", "aborted"}
    BY <1>14 DEF RemoveController
  <2>2. /\ rpc = "remove" /\ inList' = FALSE /\ obj' = "deleted"
        /\ UNCHANGED <<wpc, buffer, refSem, refcount, mutex, stop, hasStopped,
                       zr, running, queued, report>>
    BY <1>14 DEF RemoveController
  <2>3. Shape'
    BY <2>1, <2>2
  <2>4. rpc' \in ReceiverPCs
    BY <2>1
  <2>5. /\ fate' \in {"running", "aborted", "undefined"}
        /\ inList' \in BOOLEAN /\ obj' \in {"live", "deleted"}
    BY <2>1, <2>2
  <2>6. UNCHANGED <<wpc, buffer, refSem, refcount, mutex, stop, hasStopped,
                    zr, running, queued, report>>
    BY <2>2
  <2>7. QED
    BY <2>3, <2>4, <2>5, <2>6
<1>15. CASE SetStop
  BY <1>15 DEF SetStop
<1>16. CASE Wake
  BY <1>16 DEF Wake
<1>17. CASE PostRef
  BY <1>17 DEF PostRef
<1>18. CASE ReceiverTouchesFreed
  BY <1>18 DEF ReceiverTouchesFreed
<1>19. QED
  BY <1>1, <1>2, <1>3, <1>4, <1>5, <1>6, <1>7, <1>8, <1>9, <1>10, <1>11, <1>12, <1>13, <1>14, <1>15, <1>16, <1>17, <1>18 DEF ReceiverStep

\* The writer's steps keep every field in its range.
LEMMA WriterTypeInv == TypeInv /\ WriterStep => TypeInv'
<1> SUFFICES ASSUME TypeInv, WriterStep PROVE TypeInv'
  OBVIOUS
<1> USE DEF TypeInv, TypeOK, Shape, Fragments, Holding, ReceiverPCs, WriterPCs,
        WriterAt, WriterGoes, control, buffer, refs, flags, thread, life,
        report
<1>0. \A k \in {"begin", "update", "end"} :
         Append(events, [kind |-> k, status |-> tStatus]) \in Seq(Event)
  BY DEF Event
<1>1. CASE StartThread
  <2>1. /\ wpc = "start" /\ wpc' = "loop" /\ running' = TRUE /\ zr' = FALSE
        /\ UNCHANGED <<rpc, arrived, queue, cur, inputSem, outputSem, refSem, refcount, mutex>>
        /\ UNCHANGED <<stop, hasStopped, inList, queued, obj, fate>>
        /\ UNCHANGED <<bytes, tStatus, lastUpdate, written, events>>
    BY <1>1 DEF StartThread
  <2>2. Shape'
    BY <2>1
  <2>3. TypeOK'
    <3>1. Fragments' = Fragments
      BY <2>1
    <3>2. wpc' \in WriterPCs
      BY <2>1
    <3> HIDE DEF Fragments, ReceiverPCs, WriterPCs, Shape
    <3> QED
      BY <2>1, <3>1, <3>2
  <2> QED
    BY <2>2, <2>3
<1>2. CASE Loop
  BY <1>2 DEF Loop
<1>3. CASE WaitOutput
  BY <1>3 DEF WaitOutput
<1>4. CASE TestStop
  BY <1>4 DEF TestStop
<1>5. CASE Pop
  BY <1>5 DEF Pop
<1>6. CASE PostInput
  BY <1>6 DEF PostInput
<1>7. CASE WriteFragment
  <2>1. events' \in Seq(Event)
    BY <1>7, <1>0 DEF WriteFragment, Emit
  <2>2. lastUpdate' \in Nat /\ bytes' \in Nat
    BY <1>7, ConstantsOK DEF WriteFragment
  <2>3. written' \subseteq Fragments' /\ cur' \in (Fragments \cup {NoFragment})'
    BY <1>7 DEF WriteFragment
  <2>4. QED
    BY <1>7, <2>1, <2>2, <2>3 DEF WriteFragment
<1>8. CASE Drain
  <2>1. Cardinality(queue) \in Nat
    BY QueueFinite, LenProperties
  <2>2. QED
    BY <1>8, <2>1 DEF Drain
<1>9. CASE DiskFails
  BY <1>9 DEF DiskFails
<1>10. CASE Settle
  BY <1>10 DEF Settle, Outcome, Statuses
<1>11. CASE WriterStops
  BY <1>11 DEF WriterStops
<1>12. CASE BroadcastUpdate
  BY <1>12, <1>0 DEF BroadcastUpdate, Emit
<1>13. CASE BroadcastEnd
  BY <1>13, <1>0 DEF BroadcastEnd, Emit
<1>14. CASE TestRef
  BY <1>14 DEF TestRef
<1>15. CASE WaitRef
  BY <1>15 DEF WaitRef
<1>16. CASE WriterCheck
  BY <1>16 DEF WriterCheck, MayDelete
<1>17. CASE SetStopped
  BY <1>17 DEF SetStopped
<1>18. CASE ExitThread
  BY <1>18, ZenonT(30) DEF ExitThread
<1>19. CASE AutoDelete
  BY <1>19 DEF AutoDelete
<1>20. CASE DeleteSelf
  BY <1>20 DEF DeleteSelf
<1>21. CASE WriterTouchesFreed
  BY <1>21 DEF WriterTouchesFreed
<1>22. QED
  BY <1>1, <1>2, <1>3, <1>4, <1>5, <1>6, <1>7, <1>8, <1>9, <1>10, <1>11, <1>12, <1>13, <1>14, <1>15, <1>16, <1>17, <1>18, <1>19, <1>20, <1>21 DEF WriterStep

\* Every step of the system keeps every field in its range.
LEMMA NextTypeInv == TypeInv /\ [Next]_vars => TypeInv'
<1> SUFFICES ASSUME TypeInv, [Next]_vars PROVE TypeInv'
  OBVIOUS
<1>1. CASE UNCHANGED vars
  BY <1>1 DEF vars, control, buffer, refs, flags, thread, life,
        report, TypeInv, TypeOK, Shape, Fragments
<1>2. QED
  BY <1>1, ReceiverTypeInv, WriterTypeInv DEF Next, Terminated

\* Type correctness for every size of file and buffer.
THEOREM TypeCorrect == Spec => []TypeOK
<1>1. Spec => []TypeInv
  BY InitTypeInv, NextTypeInv, PTL DEF Spec
<1>2. TypeInv => TypeOK
  BY DEF TypeInv
<1>3. QED
  BY <1>1, <1>2, PTL
-----------------------------------------------------------------------------
(* The buffer: places, tokens and what the writer pops.                    *)

One(p) == IF p THEN 1 ELSE 0

Filling == {"none", "start", "loop", "waitOutput", "testStop", "pop",
            "postInput", "write", "drain"}

\* As long as nobody has set stop, every token stands for a queued fragment,
\* counting the one the receiver is about to post and the one the writer has
\* just taken.
TokensMatch ==
    ~stop /\ wpc \in Filling =>
        outputSem + One(rpc = "postOutput") + One(wpc \in {"testStop", "pop"})
          = Cardinality(queue)

\* The token that stands for no fragment is posted after stop was set.
WakeIsLate == rpc = "wake" => stop

BufferInv == BufferBounded /\ NeverPopsEmpty /\ TokensMatch /\ WakeIsLate

\* Nothing is queued, and every place is free, when the controller is created.
LEMMA InitBufferInv == Init => BufferInv
BY FS_EmptySet, ConstantsOK DEF Init, BufferInv, BufferBounded, NeverPopsEmpty,
   TokensMatch, WakeIsLate, One, Filling

\* The receiver keeps places and tokens balanced.
LEMMA ReceiverBufferInv == TypeInv /\ BufferInv /\ ReceiverStep => BufferInv'
<1> SUFFICES ASSUME TypeInv, BufferInv, ReceiverStep PROVE BufferInv'
  OBVIOUS
<1> USE DEF BufferInv, BufferBounded, NeverPopsEmpty, TokensMatch, WakeIsLate, One,
        Filling, ReceiverAt, ReceiverGoes, control, buffer, refs, flags, thread, life, report
<1>01. Len(arrived) \in Nat
  BY LenProperties DEF TypeInv, TypeOK
<1>02. IsFiniteSet(queue) /\ Cardinality(queue) \in Nat
  BY <1>01, QueueFinite DEF TypeInv, TypeOK, Fragments
<1>0. /\ IsFiniteSet(queue) /\ Cardinality(queue) \in Nat
      /\ inputSem \in Nat /\ outputSem \in Nat
  BY <1>02 DEF TypeInv, TypeOK
<1>1. CASE Create
  BY <1>1, <1>0 DEF Create, TypeInv, Shape
<1>2. CASE StartReturns
  BY <1>2, <1>0 DEF StartReturns
<1>3. CASE BroadcastBegin
  BY <1>3, <1>0 DEF BroadcastBegin
<1>4. CASE InsertController
  BY <1>4, <1>0 DEF InsertController
<1>5. CASE IncRC
  BY <1>5, <1>0 DEF IncRC
<1>6. ASSUME NEW p \in 0 .. FSize, ReceiveFragment(p) PROVE BufferInv'
  BY <1>6, <1>0 DEF ReceiveFragment
<1>7. CASE EndOfData
  BY <1>7, <1>0 DEF EndOfData
<1>8. CASE WaitInput
  BY <1>8, <1>0 DEF WaitInput
<1>9. CASE Push
  <2>1. Cardinality(queue') = Cardinality(queue) + 1
    BY <1>9, <1>0, FS_AddElement DEF Push, TypeInv, Shape
  <2>2. QED
    BY <1>9, <1>0, <2>1 DEF Push
<1>10. CASE PostOutput
  BY <1>10, <1>0 DEF PostOutput
<1>11. CASE DecRC
  BY <1>11, <1>0 DEF DecRC
<1>12. CASE SetZR
  BY <1>12, <1>0 DEF SetZR
<1>13. CASE ReceiverCheck
  BY <1>13, <1>0 DEF ReceiverCheck
<1>14. CASE RemoveController
  BY <1>14, <1>0 DEF RemoveController
<1>15. CASE SetStop
  BY <1>15, <1>0 DEF SetStop
<1>16. CASE Wake
  BY <1>16, <1>0 DEF Wake
<1>17. CASE PostRef
  BY <1>17, <1>0 DEF PostRef
<1>18. CASE ReceiverTouchesFreed
  BY <1>18, <1>0 DEF ReceiverTouchesFreed
<1>19. QED
  BY <1>1, <1>2, <1>3, <1>4, <1>5, <1>6, <1>7, <1>8, <1>9, <1>10, <1>11, <1>12, <1>13, <1>14, <1>15, <1>16, <1>17, <1>18 DEF ReceiverStep

\* The writer keeps places and tokens balanced.
LEMMA WriterBufferInv == TypeInv /\ BufferInv /\ WriterStep => BufferInv'
<1> SUFFICES ASSUME TypeInv, BufferInv, WriterStep PROVE BufferInv'
  OBVIOUS
<1> USE DEF BufferInv, BufferBounded, NeverPopsEmpty, TokensMatch, WakeIsLate, One,
        Filling, WriterAt, WriterGoes, control, buffer, refs, flags, thread, life, report
<1>01. Len(arrived) \in Nat
  BY LenProperties DEF TypeInv, TypeOK
<1>02. IsFiniteSet(queue) /\ Cardinality(queue) \in Nat
  BY <1>01, QueueFinite DEF TypeInv, TypeOK, Fragments
<1>0. /\ IsFiniteSet(queue) /\ Cardinality(queue) \in Nat
      /\ inputSem \in Nat /\ outputSem \in Nat
  BY <1>02 DEF TypeInv, TypeOK
<1>1. CASE StartThread
  BY <1>1, <1>0 DEF StartThread
<1>2. CASE Loop
  BY <1>2, <1>0 DEF Loop
<1>3. CASE WaitOutput
  BY <1>3, <1>0 DEF WaitOutput
<1>4. CASE TestStop
  <2>1. ~stop => Cardinality(queue) # 0
    BY <1>4, <1>0 DEF TestStop
  <2>2. ~stop => queue # {}
    BY <2>1, FS_EmptySet
  <2>3. QED
    BY <1>4, <1>0, <2>2 DEF TestStop
<1>5. CASE Pop
  <2>1. Cardinality(queue') = Cardinality(queue) - 1
    BY <1>5, <1>0, FS_RemoveElement DEF Pop
  <2>2. QED
    BY <1>5, <1>0, <2>1 DEF Pop
<1>6. CASE PostInput
  BY <1>6, <1>0 DEF PostInput
<1>7. CASE WriteFragment
  BY <1>7, <1>0 DEF WriteFragment
<1>8. CASE Drain
  <2>1. queue' = {}
    BY <1>8 DEF Drain
  <2>2. Cardinality(queue') = 0
    BY <2>1, FS_EmptySet
  <2>3. QED
    BY <1>8, <1>0, <2>2, ConstantsOK DEF Drain
<1>9. CASE DiskFails
  BY <1>9, <1>0 DEF DiskFails
<1>10. CASE Settle
  BY <1>10, <1>0 DEF Settle
<1>11. CASE WriterStops
  BY <1>11, <1>0 DEF WriterStops
<1>12. CASE BroadcastUpdate
  BY <1>12, <1>0 DEF BroadcastUpdate
<1>13. CASE BroadcastEnd
  BY <1>13, <1>0 DEF BroadcastEnd
<1>14. CASE TestRef
  BY <1>14, <1>0 DEF TestRef
<1>15. CASE WaitRef
  BY <1>15, <1>0 DEF WaitRef
<1>16. CASE WriterCheck
  BY <1>16, <1>0 DEF WriterCheck
<1>17. CASE SetStopped
  BY <1>17, <1>0 DEF SetStopped
<1>18. CASE ExitThread
  BY <1>18, <1>0 DEF ExitThread
<1>19. CASE AutoDelete
  BY <1>19, <1>0 DEF AutoDelete
<1>20. CASE DeleteSelf
  BY <1>20, <1>0 DEF DeleteSelf
<1>21. CASE WriterTouchesFreed
  BY <1>21, <1>0 DEF WriterTouchesFreed
<1>22. QED
  BY <1>1, <1>2, <1>3, <1>4, <1>5, <1>6, <1>7, <1>8, <1>9, <1>10, <1>11, <1>12, <1>13, <1>14, <1>15, <1>16, <1>17, <1>18, <1>19, <1>20, <1>21 DEF WriterStep

\* However the threads interleave, the writer never pops an empty queue.
THEOREM PopIsSafe == Spec => []NeverPopsEmpty
<1>1. TypeInv /\ BufferInv /\ [Next]_vars => BufferInv'
  <2>1. CASE UNCHANGED vars
    BY <2>1 DEF vars, control, buffer, refs, flags, thread, life, report, BufferInv, BufferBounded,
       NeverPopsEmpty, TokensMatch, WakeIsLate
  <2>2. QED
    BY <2>1, ReceiverBufferInv, WriterBufferInv DEF Next, Terminated
<1>2. BufferInv => NeverPopsEmpty
  BY DEF BufferInv
<1>3. QED
  BY InitTypeInv, NextTypeInv, InitBufferInv, <1>1, <1>2, PTL DEF Spec

\* However the threads interleave, the buffer stays within its bound.
THEOREM BufferStaysBounded == Spec => []BufferBounded
<1>1. TypeInv /\ BufferInv /\ [Next]_vars => BufferInv'
  <2>1. CASE UNCHANGED vars
    BY <2>1 DEF vars, control, buffer, refs, flags, thread, life, report, BufferInv, BufferBounded,
       NeverPopsEmpty, TokensMatch, WakeIsLate
  <2>2. QED
    BY <2>1, ReceiverBufferInv, WriterBufferInv DEF Next, Terminated
<1>2. BufferInv => BufferBounded
  BY DEF BufferInv
<1>3. QED
  BY InitTypeInv, NextTypeInv, InitBufferInv, <1>1, <1>2, PTL DEF Spec

-----------------------------------------------------------------------------
(* The shutdown protocol: who may delete the controller, and when.         *)

Released == {"check", "remove", "setStop", "wake", "postRef", "done", "killed"}
Announced == {"testRef", "waitRef", "check", "setStopped", "exit",
              "autoDelete", "delete", "gone"}
Leaving == {"exit", "autoDelete", "delete", "gone"}

ShutdownInv ==
    /\ wpc \in Announced => Ended
    /\ hasStopped => wpc \in Leaving
    /\ zr /\ wpc \notin {"none", "start"} => rpc \in Released
    /\ wpc = "delete" => rpc \in Released
    /\ rpc = "remove" => wpc \in Leaving
    /\ DeletedAfterRelease

\* What has been announced stays announced.
LEMMA EndedStays ==
  ASSUME NEW e, events \in Seq(Event), events' = Append(events, e), Ended
  PROVE  Ended'
BY DEF Ended

\* An end event announces the end.
LEMMA AppendedEnd ==
  ASSUME NEW e, events \in Seq(Event), events' = Append(events, e), e.kind = "end"
  PROVE  Ended'
<1>1. Len(events) + 1 \in DOMAIN events' /\ events'[Len(events) + 1] = e
  OBVIOUS
<1>2. QED
  BY <1>1 DEF Ended

\* A controller that has just been created is not being deleted.
LEMMA InitShutdownInv == Init => ShutdownInv
BY DEF Init, ShutdownInv, DeletedAfterRelease, Released, Announced, Leaving

\* The receiver keeps the shutdown protocol.
LEMMA ReceiverShutdownInv == TypeInv /\ ShutdownInv /\ ReceiverStep => ShutdownInv'
<1> SUFFICES ASSUME TypeInv, ShutdownInv, ReceiverStep PROVE ShutdownInv'
  OBVIOUS
<1> USE DEF ShutdownInv, DeletedAfterRelease, Released, Announced, Leaving,
        ReceiverAt, ReceiverGoes, control, buffer, refs, flags, thread, life, report
<1>1. CASE Create
  BY <1>1 DEF Create, Ended, TypeInv, Shape
<1>2. CASE StartReturns
  BY <1>2 DEF StartReturns, Ended
<1>3. CASE BroadcastBegin
  <2>1. Ended => Ended'
    BY <1>3, EndedStays DEF BroadcastBegin, Emit, TypeInv, TypeOK
  <2>2. QED
    BY <1>3, <2>1 DEF BroadcastBegin
<1>4. CASE InsertController
  BY <1>4 DEF InsertController, Ended
<1>5. CASE IncRC
  BY <1>5 DEF IncRC, Ended
<1>6. ASSUME NEW p \in 0 .. FSize, ReceiveFragment(p) PROVE ShutdownInv'
  BY <1>6 DEF ReceiveFragment, Ended
<1>7. CASE EndOfData
  BY <1>7 DEF EndOfData, Ended
<1>8. CASE WaitInput
  BY <1>8 DEF WaitInput, Ended
<1>9. CASE Push
  BY <1>9 DEF Push, Ended
<1>10. CASE PostOutput
  BY <1>10 DEF PostOutput, Ended
<1>11. CASE DecRC
  BY <1>11 DEF DecRC, Ended
<1>12. CASE SetZR
  BY <1>12 DEF SetZR, Ended
<1>13. CASE ReceiverCheck
  BY <1>13 DEF MayDelete, ReceiverCheck, Ended
<1>14. CASE RemoveController
  BY <1>14 DEF RemoveController, Ended
<1>15. CASE SetStop
  BY <1>15 DEF SetStop, Ended
<1>16. CASE Wake
  BY <1>16 DEF Wake, Ended
<1>17. CASE PostRef
  BY <1>17 DEF PostRef, Ended
<1>18. CASE ReceiverTouchesFreed
  BY <1>18 DEF ReceiverTouchesFreed, Ended
<1>19. QED
  BY <1>1, <1>2, <1>3, <1>4, <1>5, <1>6, <1>7, <1>8, <1>9, <1>10, <1>11, <1>12, <1>13, <1>14, <1>15, <1>16, <1>17, <1>18 DEF ReceiverStep

\* The writer keeps the shutdown protocol.
LEMMA WriterShutdownInv == TypeInv /\ ShutdownInv /\ WriterStep => ShutdownInv'
<1> SUFFICES ASSUME TypeInv, ShutdownInv, WriterStep PROVE ShutdownInv'
  OBVIOUS
<1> USE DEF ShutdownInv, DeletedAfterRelease, Released, Announced, Leaving,
        WriterAt, WriterGoes, control, buffer, refs, flags, thread, life, report
<1>1. CASE StartThread
  BY <1>1 DEF StartThread, Ended
<1>2. CASE Loop
  BY <1>2 DEF Loop, Ended
<1>3. CASE WaitOutput
  BY <1>3 DEF WaitOutput, Ended
<1>4. CASE TestStop
  BY <1>4 DEF TestStop, Ended
<1>5. CASE Pop
  BY <1>5 DEF Pop, Ended
<1>6. CASE PostInput
  BY <1>6 DEF PostInput, Ended
<1>7. CASE WriteFragment
  <2>1. Ended => Ended'
    BY <1>7, EndedStays DEF WriteFragment, Emit, TypeInv, TypeOK, Ended
  <2>2. QED
    BY <1>7, <2>1 DEF WriteFragment
<1>8. CASE Drain
  BY <1>8 DEF Drain, Ended
<1>9. CASE DiskFails
  BY <1>9 DEF DiskFails, Ended
<1>10. CASE Settle
  BY <1>10 DEF Settle, Ended
<1>11. CASE WriterStops
  BY <1>11 DEF WriterStops, Ended
<1>12. CASE BroadcastUpdate
  <2>1. Ended => Ended'
    BY <1>12, EndedStays DEF BroadcastUpdate, Emit, TypeInv, TypeOK
  <2>2. QED
    BY <1>12, <2>1 DEF BroadcastUpdate
<1>13. CASE BroadcastEnd
  <2>1. Ended'
    BY <1>13, AppendedEnd DEF BroadcastEnd, Emit, TypeInv, TypeOK
  <2>2. QED
    BY <1>13, <2>1 DEF BroadcastEnd
<1>14. CASE TestRef
  BY <1>14 DEF TestRef, Ended
<1>15. CASE WaitRef
  BY <1>15 DEF WaitRef, Ended
<1>16. CASE WriterCheck
  BY <1>16 DEF WriterCheck, Ended
<1>17. CASE SetStopped
  BY <1>17 DEF SetStopped, Ended
<1>18. CASE ExitThread
  BY <1>18 DEF ExitThread, Ended
<1>19. CASE AutoDelete
  BY <1>19 DEF MayDelete, AutoDelete, Ended
<1>20. CASE DeleteSelf
  BY <1>20 DEF DeleteSelf, Ended
<1>21. CASE WriterTouchesFreed
  BY <1>21 DEF WriterTouchesFreed, Ended
<1>22. QED
  BY <1>1, <1>2, <1>3, <1>4, <1>5, <1>6, <1>7, <1>8, <1>9, <1>10, <1>11, <1>12, <1>13, <1>14, <1>15, <1>16, <1>17, <1>18, <1>19, <1>20, <1>21 DEF WriterStep

\* The controller is deleted only after its end was announced and the receiver
\* said that it is through with it.
THEOREM DeletionIsLate == Spec => []DeletedAfterRelease
<1>1. TypeInv /\ ShutdownInv /\ [Next]_vars => ShutdownInv'
  <2>1. CASE UNCHANGED vars
    BY <2>1 DEF vars, control, buffer, refs, flags, thread, life, report, ShutdownInv,
       DeletedAfterRelease, Ended
  <2>2. QED
    BY <2>1, ReceiverShutdownInv, WriterShutdownInv DEF Next, Terminated
<1>2. ShutdownInv => DeletedAfterRelease
  BY DEF ShutdownInv
<1>3. QED
  BY InitTypeInv, NextTypeInv, InitShutdownInv, <1>1, <1>2, PTL DEF Spec

-----------------------------------------------------------------------------
(* What plugins hear of the end, and when the status settles.              *)

SettledInv ==
    /\ tStatus = "IN_PROGRESS" <=> wpc \in Filling \cup {"status"}
    /\ Ended => wpc \in Announced
    /\ EndIsFinal

\* One more event.
LEMMA AppendFinal ==
  ASSUME NEW e, events \in Seq(Event), events' = Append(events, e), EndIsFinal,
         e.kind # "begin" => ~Ended, e.kind = "end" => e.status # "IN_PROGRESS"
  PROVE  EndIsFinal' /\ (Ended' => Ended \/ e.kind = "end")
<1>1. /\ DOMAIN events = 1 .. Len(events) /\ DOMAIN events' = 1 .. Len(events) + 1 /\ Len(events) \in Nat
      /\ events'[Len(events) + 1] = e /\ \A i \in DOMAIN events : events'[i] = events[i]
  OBVIOUS
<1>2. Ended' => Ended \/ e.kind = "end"
  BY <1>1 DEF Ended
<1>3. ASSUME NEW i \in DOMAIN events', events'[i].kind = "end"
      PROVE  /\ events'[i].status # "IN_PROGRESS"
             /\ \A j \in DOMAIN events' : j > i => events'[j].kind = "begin"
  <2>1. CASE i = Len(events) + 1
    BY <1>1, <1>3, <2>1
  <2>2. CASE i \in DOMAIN events
    <3>1. Ended /\ events[i].status # "IN_PROGRESS" /\ e.kind = "begin"
      BY <1>1, <1>3, <2>2 DEF Ended, EndIsFinal
    <3> QED
      BY <1>1, <1>3, <2>2, <3>1 DEF EndIsFinal
  <2> QED
    BY <1>1, <2>1, <2>2
<1> QED
  BY <1>2, <1>3 DEF EndIsFinal

LEMMA InitSettledInv == Init => SettledInv
BY DEF Init, SettledInv, EndIsFinal, Ended, Filling

\* The receiver says nothing but that the transfer begins.
LEMMA ReceiverSettledInv == TypeInv /\ SettledInv /\ ReceiverStep => SettledInv'
<1> SUFFICES ASSUME TypeInv, SettledInv, ReceiverStep PROVE SettledInv'
  OBVIOUS
<1>1. CASE Create
  <2>1. wpc = "none" /\ wpc' = "start" /\ UNCHANGED <<tStatus, events>>
    BY <1>1 DEF Create, ReceiverAt, TypeInv, Shape, report
  <2> QED
    BY <2>1 DEF SettledInv, Ended, EndIsFinal, Announced, Filling
<1>2. CASE BroadcastBegin
  <2>1. PICK e : e = [kind |-> "begin", status |-> tStatus]
    OBVIOUS
  <2>2. events' = Append(events, e) /\ e.kind = "begin" /\ UNCHANGED <<tStatus, wpc>>
    BY <1>2, <2>1 DEF BroadcastBegin, Emit, ReceiverGoes
  <2>3. EndIsFinal' /\ (Ended' => Ended)
    BY <2>2, AppendFinal DEF TypeInv, TypeOK, SettledInv
  <2> QED
    BY <2>2, <2>3 DEF SettledInv
<1>3. CASE ~Create /\ ~BroadcastBegin
  <2>1. UNCHANGED <<wpc, tStatus, events>>
    BY <1>3 DEF ReceiverStep, StartReturns, InsertController, IncRC, ReceiveFragment, EndOfData,
       WaitInput, Push, PostOutput, DecRC, SetZR, ReceiverCheck, RemoveController, SetStop, Wake,
       PostRef, ReceiverTouchesFreed, ReceiverGoes, report, control
  <2> QED
    BY <2>1 DEF SettledInv, Ended, EndIsFinal
<1> QED
  BY <1>1, <1>2, <1>3

\* The writer settles the status before it announces the end, and announces nothing afterwards.
LEMMA WriterSettledInv == TypeInv /\ SettledInv /\ WriterStep => SettledInv'
<1> SUFFICES ASSUME TypeInv, SettledInv, WriterStep PROVE SettledInv'
  OBVIOUS
<1>1. CASE WriteFragment \/ BroadcastUpdate \/ BroadcastEnd
  <2>1. PICK k, e : /\ k = (IF BroadcastEnd THEN "end" ELSE "update") /\ e = [kind |-> k, status |-> tStatus]
    OBVIOUS
  <2>2. wpc \notin Announced /\ (BroadcastEnd => tStatus # "IN_PROGRESS")
    BY <1>1 DEF WriteFragment, BroadcastUpdate, BroadcastEnd, WriterAt, Announced, SettledInv, Filling
  <2>3. UNCHANGED events \/ events' = Append(events, e)
    BY <1>1, <2>1 DEF WriteFragment, BroadcastUpdate, BroadcastEnd, Emit, WriterAt
  <2>4. EndIsFinal' /\ (Ended' => Ended \/ BroadcastEnd)
    <3>1. CASE UNCHANGED events
      BY <3>1 DEF SettledInv, Ended, EndIsFinal
    <3>2. CASE events' = Append(events, e)
      <4>1. e.kind = k /\ e.status = tStatus /\ (k = "end" => BroadcastEnd)
        BY <2>1
      <4> QED
        BY <2>2, <3>2, <4>1, AppendFinal DEF TypeInv, TypeOK, SettledInv
    <3> QED
      BY <2>3, <3>1, <3>2
  <2>5. UNCHANGED tStatus
    BY <1>1 DEF WriteFragment, BroadcastUpdate, BroadcastEnd
  <2>6. \/ wpc = "write" /\ wpc' = "loop" /\ ~BroadcastEnd
        \/ wpc = "update" /\ wpc' = "end" /\ ~BroadcastEnd
        \/ wpc = "end" /\ wpc' = "testRef"
    BY <1>1 DEF WriteFragment, BroadcastUpdate, BroadcastEnd, WriterAt, WriterGoes
  <2> QED
    BY <2>2, <2>4, <2>5, <2>6 DEF SettledInv, Announced, Filling
<1>2. CASE ~(WriteFragment \/ BroadcastUpdate \/ BroadcastEnd)
  <2>1. UNCHANGED events
    BY <1>2 DEF WriterStep, StartThread, Loop, WaitOutput, TestStop, Pop, PostInput, Drain, DiskFails,
       Settle, WriterStops, TestRef, WaitRef, WriterCheck, SetStopped, ExitThread, AutoDelete,
       DeleteSelf, WriterTouchesFreed, report
  <2>2. (Ended' <=> Ended) /\ (EndIsFinal' <=> EndIsFinal)
    BY <2>1 DEF Ended, EndIsFinal
  <2>3. CASE Settle
    <3>1. wpc = "status" /\ wpc' = "setStop" /\ tStatus' # "IN_PROGRESS"
      BY <2>3 DEF Settle, WriterAt, WriterGoes, Outcome
    <3> QED
      BY <2>2, <3>1 DEF SettledInv, Announced, Filling
  <2>4. CASE ~Settle
    <3>1. UNCHANGED tStatus
      BY <1>2, <2>4 DEF WriterStep, StartThread, Loop, WaitOutput, TestStop, Pop, PostInput, Drain,
         DiskFails, WriterStops, TestRef, WaitRef, WriterCheck, SetStopped, ExitThread, AutoDelete,
         DeleteSelf, WriterTouchesFreed, report
    <3>2. \/ UNCHANGED wpc
          \/ wpc \in Filling /\ wpc' \in Filling \cup {"status"}
          \/ wpc = "setStop" /\ wpc' = "update"
          \/ wpc \in Announced /\ wpc' \in Announced
      BY <1>2, <2>4 DEF WriterStep, StartThread, Loop, WaitOutput, TestStop, Pop, PostInput, Drain,
         DiskFails, WriterStops, TestRef, WaitRef, WriterCheck, SetStopped, ExitThread, AutoDelete,
         DeleteSelf, WriterTouchesFreed, WriterAt, WriterGoes, control, Announced, Filling
    <3> QED
      BY <2>2, <3>1, <3>2 DEF SettledInv, Announced, Filling
  <2> QED
    BY <2>3, <2>4
<1> QED
  BY <1>1, <1>2

LEMMA NextSettledInv == TypeInv /\ SettledInv /\ [Next]_vars => SettledInv'
<1>1. SettledInv /\ UNCHANGED vars => SettledInv'
  BY DEF vars, control, report, SettledInv, EndIsFinal, Ended
<1> QED
  BY <1>1, ReceiverSettledInv, WriterSettledInv DEF Next, Terminated

\* A plugin hears one end of a transfer, with its outcome, and nothing but a late onBegin after
\* it (fileWriter_t::run is the only place that broadcasts it).
THEOREM EndComesLast == Spec => []EndIsFinal
<1>1. SettledInv => EndIsFinal
  BY DEF SettledInv
<1> QED
  BY InitTypeInv, NextTypeInv, InitSettledInv, NextSettledInv, <1>1, PTL DEF Spec

-----------------------------------------------------------------------------
(* What a plugin is shown is a Transfer, unless the client sends too much. *)

\* Every fragment is another part of the file, and it is in one place at a time.
DataInv ==
    /\ \A i \in Fragments : arrived[i] \in Pos
    /\ \A i, j \in Fragments : arrived[i] = arrived[j] => i = j
    /\ written \cap queue = {} /\ cur \notin written \cup queue
    /\ rpc \in {"waitInput", "push"} => Len(arrived) \notin written \cup queue \cup {cur}
    /\ bytes = Cardinality(written)

\* The bytes that were written are counted right.
LEMMA AllIsStored ==
  ASSUME TypeInv, DataInv
  PROVE  bytes = FSize <=> Stored = Pos
<1> DEFINE f == [i \in written |-> arrived[i]]
<1>1. IsFiniteSet(Pos) /\ Cardinality(Pos) = FSize
  BY FS_Interval, ConstantsOK DEF Pos
<1>2. f \in Injection(written, Pos)
  BY DEF Injection, IsInjective, DataInv, TypeInv, TypeOK
<1>3. Cardinality(written) = Cardinality(Pos) <=> f \in Surjection(written, Pos)
  BY <1>1, <1>2, FS_Injection
<1>4. f \in Surjection(written, Pos) <=> Stored = Pos
  <2>1. Stored \subseteq Pos
    BY DEF Stored, DataInv, TypeInv, TypeOK
  <2>2. f \in Surjection(written, Pos) <=> \A p \in Pos : \E i \in written : arrived[i] = p
    BY <1>2 DEF Surjection, Injection
  <2> QED
    BY <2>1, <2>2 DEF Stored
<1> QED
  BY <1>1, <1>3, <1>4 DEF DataInv

\* What the client has delivered is in the file, in the queue, or in the hands of one of
\* the threads; when the writer gives up before the end, the receiver is through.
Past == {"wake", "postRef", "done", "killed"}
ArrivedInv ==
    /\ \A i \in Fragments :
           i \in written \cup queue \cup {cur} \/ (i = Len(arrived) /\ rpc \in {"waitInput", "push"})
    /\ wpc \notin {"postInput", "write"} => cur = NoFragment
    /\ wpc \in Filling \cup {"status"} /\ stop => rpc \in Past
    /\ wpc = "drain" => bytes >= FSize \/ stop
    /\ wpc = "status" => bytes >= FSize \/ (stop /\ queue = {})

\* Nothing is lost: the writer has stored all that was sent when it stops short of the file.
LEMMA NothingIsLost ==
  ASSUME TypeInv, DataInv, ArrivedInv, wpc = "status", bytes # FSize
  PROVE  Sent # Pos
<1>1. bytes <= FSize
  <2> DEFINE f == [i \in written |-> arrived[i]]
  <2>1. IsFiniteSet(Pos) /\ Cardinality(Pos) = FSize
    BY FS_Interval, ConstantsOK DEF Pos
  <2>2. f \in Injection(written, Pos)
    BY DEF Injection, IsInjective, DataInv, TypeInv, TypeOK
  <2>3. Cardinality(written) <= Cardinality(Pos)
    BY <2>1, <2>2, FS_Injection
  <2> QED
    BY <2>1, <2>3 DEF DataInv
<1>2. stop /\ queue = {} /\ cur = NoFragment /\ rpc \in Past
  BY <1>1, ConstantsOK DEF ArrivedInv, Filling, TypeInv, TypeOK
<1>3. \A i \in Fragments : i \in written
  BY <1>2 DEF ArrivedInv, Past, Fragments, NoFragment
<1>4. Sent = Stored
  BY <1>3 DEF Sent, Stored, TypeInv, TypeOK
<1> QED
  BY <1>4, AllIsStored

LEMMA InitArrivedInv == Init => ArrivedInv
BY ConstantsOK DEF Init, ArrivedInv, Fragments, Filling, NoFragment

LEMMA ReceiverArrivedInv ==
  ASSUME TypeInv, ArrivedInv, ReceiverStep
  PROVE  ArrivedInv'
<1>1. UNCHANGED <<written, cur, bytes>> /\ (UNCHANGED wpc \/ wpc' = "start")
  BY DEF ReceiverStep, Create, StartReturns, BroadcastBegin, InsertController, IncRC, ReceiveFragment,
     EndOfData, WaitInput, Push, PostOutput, DecRC, SetZR, ReceiverCheck, RemoveController, SetStop,
     Wake, PostRef, ReceiverTouchesFreed, ReceiverGoes, report, buffer, control
<1>2. ASSUME NEW p \in 0 .. FSize, ReceiveFragment(p) PROVE ArrivedInv'
  <2>1. /\ rpc = "recv" /\ rpc' = "waitInput" /\ arrived' = Append(arrived, p)
        /\ UNCHANGED <<queue, stop, wpc>>
    BY <1>2 DEF ReceiveFragment, ReceiverAt, ReceiverGoes, life, flags
  <2>2. Len(arrived) \in Nat /\ Len(arrived') = Len(arrived) + 1
    BY <2>1 DEF TypeInv, TypeOK
  <2>3. Fragments' = Fragments \cup {Len(arrived')}
    BY <2>2 DEF Fragments
  <2> QED
    BY <1>1, <2>1, <2>3 DEF ArrivedInv, Past
<1>3. CASE Push
  <2>1. /\ rpc = "push" /\ rpc' = "postOutput" /\ queue' = queue \cup {Len(arrived)}
        /\ UNCHANGED <<arrived, stop, wpc>>
    BY <1>3 DEF Push, ReceiverAt, ReceiverGoes, life, flags
  <2> QED
    BY <1>1, <2>1 DEF ArrivedInv, Past, Filling, Fragments
<1>4. CASE Create
  <2>1. /\ rpc = "create" /\ rpc' = "started" /\ wpc' = "start" /\ wpc = "none"
        /\ UNCHANGED <<arrived, queue, stop>>
    BY <1>4 DEF Create, ReceiverAt, TypeInv, Shape, buffer, life, flags
  <2>2. ~stop /\ cur = NoFragment
    BY <2>1 DEF ArrivedInv, Past, Filling
  <2>3. Fragments' = Fragments
    BY <2>1 DEF Fragments
  <2>4. \A i \in Fragments' : i \in written' \cup queue' \cup {cur'}
    BY <1>1, <2>1, <2>3 DEF ArrivedInv
  <2> QED
    BY <1>1, <2>1, <2>2, <2>4 DEF ArrivedInv
<1>5. CASE SetStop
  <2>1. rpc' = "wake" /\ stop' = TRUE /\ UNCHANGED <<arrived, queue, wpc>> /\ rpc = "setStop"
    BY <1>5 DEF SetStop, ReceiverAt, ReceiverGoes, buffer
  <2>2. \A i \in Fragments' : i \in written' \cup queue' \cup {cur'}
    BY <1>1, <2>1 DEF ArrivedInv, Fragments
  <2>3. wpc = "status" => bytes >= FSize \/ queue = {}
    BY DEF ArrivedInv
  <2>4. cur = NoFragment \/ wpc \in {"postInput", "write"}
    BY DEF ArrivedInv
  <2> QED
    BY <2>1, <2>2, <2>3, <2>4, <1>1 DEF ArrivedInv, Past
<1>6. CASE ~Push /\ ~Create /\ ~SetStop /\ ~\E p \in 0 .. FSize : ReceiveFragment(p)
  <2>1. UNCHANGED <<arrived, queue, stop, wpc>>
    BY <1>6 DEF ReceiverStep, StartReturns, BroadcastBegin, InsertController, IncRC, EndOfData,
       WaitInput, PostOutput, DecRC, SetZR, ReceiverCheck, RemoveController, Wake, PostRef,
       ReceiverTouchesFreed, ReceiverGoes, buffer, life, flags, control
  <2>2. /\ rpc \in Past => rpc' \in Past
        /\ rpc \in {"waitInput", "push"} => rpc' \in {"waitInput", "push"}
    BY <1>6 DEF ReceiverStep, StartReturns, BroadcastBegin, InsertController, IncRC, EndOfData,
       WaitInput, PostOutput, DecRC, SetZR, ReceiverCheck, RemoveController, Wake, PostRef,
       ReceiverTouchesFreed, ReceiverAt, ReceiverGoes, control, Past
  <2> QED
    BY <1>1, <2>1, <2>2 DEF ArrivedInv, Fragments
<1> QED
  BY <1>2, <1>3, <1>4, <1>5, <1>6

LEMMA WriterArrivedInv ==
  ASSUME TypeInv, ArrivedInv, WriterStep
  PROVE  ArrivedInv'
<1>1. UNCHANGED <<arrived, rpc>>
  BY DEF WriterStep, StartThread, Loop, WaitOutput, TestStop, Pop, PostInput, WriteFragment, Drain,
     DiskFails, Settle, WriterStops, BroadcastUpdate, BroadcastEnd, TestRef, WaitRef, WriterCheck,
     SetStopped, ExitThread, AutoDelete, DeleteSelf, WriterTouchesFreed, WriterGoes, buffer, control
<1>2. CASE Pop
  <2>1. /\ wpc = "pop" /\ wpc' = "postInput" /\ cur' \in queue /\ queue' = queue \ {cur'}
        /\ UNCHANGED <<written, stop, bytes>>
    BY <1>2 DEF Pop, WriterAt, WriterGoes, life, flags, report
  <2> QED
    BY <1>1, <2>1 DEF ArrivedInv, Filling, Fragments, NoFragment
<1>3. CASE WriteFragment
  <2>1. /\ wpc = "write" /\ wpc' = "loop" /\ written' = written \cup {cur} /\ cur' = NoFragment
        /\ UNCHANGED <<queue, stop>>
    BY <1>3 DEF WriteFragment, WriterAt, WriterGoes, life, flags
  <2> QED
    BY <1>1, <2>1 DEF ArrivedInv, Filling, Fragments
<1>4. CASE Drain
  <2>1. /\ wpc = "drain" /\ wpc' = "status" /\ written' = written \cup queue /\ queue' = {}
        /\ bytes' = bytes + Cardinality(queue) /\ UNCHANGED <<cur, stop>>
    BY <1>4 DEF Drain, WriterAt, WriterGoes, life, flags
  <2>2. Cardinality(queue) \in Nat
    BY QueueFinite, LenProperties DEF TypeInv, TypeOK, Fragments
  <2>3. bytes' >= FSize \/ stop
    BY <2>1, <2>2, ConstantsOK DEF ArrivedInv, TypeInv, TypeOK
  <2> QED
    BY <1>1, <2>1, <2>3 DEF ArrivedInv, Filling, Fragments
<1>5. CASE Loop
  <2>1. /\ wpc = "loop" /\ wpc' = IF bytes < FSize /\ ~stop THEN "waitOutput" ELSE "drain"
        /\ UNCHANGED <<queue, cur, written, bytes, stop>>
    BY <1>5 DEF Loop, WriterAt, WriterGoes, buffer, life, flags, report
  <2>2. wpc' = "drain" => bytes >= FSize \/ stop
    BY <2>1, ConstantsOK DEF TypeInv, TypeOK
  <2> QED
    BY <1>1, <2>1, <2>2 DEF ArrivedInv, Filling, Fragments
<1>6. CASE WriterStops
  <2>1. wpc = "setStop" /\ wpc' = "update" /\ UNCHANGED <<queue, cur, written>>
    BY <1>6 DEF WriterStops, WriterAt, WriterGoes, buffer, report
  <2> QED
    BY <1>1, <2>1 DEF ArrivedInv, Filling, Fragments
<1>7. CASE ~Pop /\ ~WriteFragment /\ ~Drain /\ ~Loop /\ ~WriterStops
  <2>1. UNCHANGED <<queue, cur, written, bytes, stop>>
    BY <1>7 DEF WriterStep, StartThread, WaitOutput, TestStop, PostInput, DiskFails, Settle,
       BroadcastUpdate, BroadcastEnd, TestRef, WaitRef, WriterCheck, SetStopped, ExitThread,
       AutoDelete, DeleteSelf, WriterTouchesFreed, buffer, life, flags, report
  <2>2. /\ wpc' \in Filling => wpc \in Filling
        /\ wpc' \in {"drain", "status"} => wpc' = wpc
        /\ wpc \in {"postInput", "write"} => wpc' \in {"postInput", "write"}
    BY <1>7 DEF WriterStep, StartThread, WaitOutput, TestStop, PostInput, DiskFails, Settle,
       BroadcastUpdate, BroadcastEnd, TestRef, WaitRef, WriterCheck, SetStopped, ExitThread,
       AutoDelete, DeleteSelf, WriterTouchesFreed, WriterAt, WriterGoes, control, Filling
  <2> QED
    BY <1>1, <2>1, <2>2 DEF ArrivedInv, Fragments
<1> QED
  BY <1>2, <1>3, <1>4, <1>5, <1>6, <1>7

LEMMA InitDataInv == Init => DataInv
BY FS_EmptySet, ConstantsOK DEF Init, DataInv, Fragments, NoFragment

\* Steps that leave the fragments where they are.
LEMMA SameData ==
  ASSUME DataInv, UNCHANGED <<arrived, queue, cur, written, bytes>>,
         rpc' \in {"waitInput", "push"} => rpc \in {"waitInput", "push"}
  PROVE  DataInv'
BY DEF DataInv, Fragments

LEMMA ReceiverDataInv ==
  ASSUME "extra" \notin Faults, TypeInv, DataInv, ReceiverStep
  PROVE  DataInv'
<1>1. ASSUME NEW p \in 0 .. FSize, ReceiveFragment(p) PROVE DataInv'
  <2>1. /\ p \in Pos \ Sent /\ arrived' = Append(arrived, p) /\ rpc' = "waitInput"
        /\ UNCHANGED <<queue, cur, written, bytes>>
    BY <1>1 DEF ReceiveFragment, ReceiverGoes, report
  <2>2. /\ Len(arrived) \in Nat /\ Len(arrived') = Len(arrived) + 1
        /\ arrived'[Len(arrived) + 1] = p /\ \A i \in Fragments : arrived'[i] = arrived[i]
    BY <2>1 DEF TypeInv, TypeOK, Fragments
  <2>3. Fragments' = Fragments \cup {Len(arrived')} /\ Len(arrived') \notin Fragments \cup {NoFragment}
    BY <2>2 DEF Fragments, NoFragment
  <2>4. \A i \in Fragments' : arrived'[i] \in Pos
    BY <2>1, <2>2, <2>3 DEF DataInv
  <2>5. \A i, j \in Fragments' : arrived'[i] = arrived'[j] => i = j
    <3>1. \A i \in Fragments : arrived'[i] # p
      BY <2>1, <2>2 DEF Sent
    <3> QED
      BY <2>2, <2>3, <3>1 DEF DataInv
  <2>6. Len(arrived') \notin written \cup queue \cup {cur}
    BY <2>3 DEF TypeInv, TypeOK
  <2> QED
    BY <2>1, <2>4, <2>5, <2>6 DEF DataInv
<1>2. CASE Push
  <2>1. /\ rpc = "push" /\ rpc' = "postOutput" /\ queue' = queue \cup {Len(arrived)}
        /\ UNCHANGED <<arrived, cur, written, bytes>>
    BY <1>2 DEF Push, ReceiverAt, ReceiverGoes, report
  <2> QED
    BY <2>1 DEF DataInv, Fragments
<1>3. CASE ~Push /\ ~\E p \in 0 .. FSize : ReceiveFragment(p)
  <2>1. UNCHANGED <<arrived, queue, cur, written, bytes>>
    BY <1>3 DEF ReceiverStep, Create, StartReturns, BroadcastBegin, InsertController, IncRC, EndOfData,
       WaitInput, PostOutput, DecRC, SetZR, ReceiverCheck, RemoveController, SetStop, Wake,
       PostRef, ReceiverTouchesFreed, buffer, report
  <2>2. rpc' \in {"waitInput", "push"} => rpc \in {"waitInput", "push"}
    BY <1>3 DEF ReceiverStep, Create, StartReturns, BroadcastBegin, InsertController, IncRC, EndOfData,
       WaitInput, PostOutput, DecRC, SetZR, ReceiverCheck, RemoveController, SetStop, Wake,
       PostRef, ReceiverTouchesFreed, ReceiverAt, ReceiverGoes, control
  <2> QED
    BY <2>1, <2>2, SameData
<1> QED
  BY <1>1, <1>2, <1>3

LEMMA WriterDataInv == TypeInv /\ DataInv /\ WriterStep => DataInv'
<1> SUFFICES ASSUME TypeInv, DataInv, WriterStep PROVE DataInv'
  OBVIOUS
<1>1. Len(arrived) \in Nat /\ queue \subseteq Fragments /\ written \subseteq Fragments
  BY DEF TypeInv, TypeOK
<1>2. IsFiniteSet(queue) /\ IsFiniteSet(written) /\ Cardinality(queue) \in Nat /\ Cardinality(written) \in Nat
  BY <1>1, QueueFinite DEF Fragments
<1>3. NoFragment \notin Fragments
  BY DEF Fragments, NoFragment
<1>4. CASE Pop
  <2>1. /\ UNCHANGED <<arrived, written, bytes, rpc>>
        /\ cur' \in queue /\ queue' = queue \ {cur'}
    BY <1>4 DEF Pop, WriterGoes, report
  <2> QED
    BY <2>1 DEF DataInv, Fragments
<1>5. CASE WriteFragment
  <2>1. /\ UNCHANGED <<arrived, queue, rpc>>
        /\ written' = written \cup {cur} /\ bytes' = bytes + 1 /\ cur' = NoFragment /\ cur \in Fragments
    BY <1>5 DEF WriteFragment, WriterAt, WriterGoes, TypeInv, Shape
  <2>2. Cardinality(written') = Cardinality(written) + 1
    BY <1>2, <2>1, FS_AddElement DEF DataInv
  <2> QED
    <3>1. /\ written' \cap queue' = {} /\ cur' \notin written' \cup queue'
          /\ bytes' = Cardinality(written')
      BY <1>1, <1>3, <2>1, <2>2 DEF DataInv
    <3>2. rpc' \in {"waitInput", "push"} => Len(arrived') \notin written' \cup queue' \cup {cur'}
      BY <2>1 DEF DataInv, TypeInv, Shape, NoFragment
    <3> QED
      BY <2>1, <3>1, <3>2 DEF DataInv, Fragments
<1>6. CASE Drain
  <2>1. /\ UNCHANGED <<arrived, cur, rpc>> /\ queue' = {}
        /\ written' = written \cup queue /\ bytes' = bytes + Cardinality(queue)
    BY <1>6 DEF Drain, WriterGoes
  <2>2. Cardinality(written') = Cardinality(written) + Cardinality(queue)
    <3>1. Cardinality(written \cap queue) = 0
      BY FS_EmptySet DEF DataInv
    <3>2. Cardinality(written \cup queue) = Cardinality(written) + Cardinality(queue) - Cardinality(written \cap queue)
      BY <1>2, FS_Union
    <3> QED
      BY <1>2, <2>1, <3>1, <3>2
  <2> QED
    BY <2>1, <2>2 DEF DataInv, Fragments
<1>7. CASE ~Pop /\ ~WriteFragment /\ ~Drain
  <2>1. UNCHANGED <<arrived, queue, cur, written, bytes, rpc>>
    BY <1>7 DEF WriterStep, StartThread, Loop, WaitOutput, TestStop, PostInput, DiskFails, Settle,
       WriterStops, BroadcastUpdate, BroadcastEnd, TestRef, WaitRef, WriterCheck, SetStopped,
       ExitThread, AutoDelete, DeleteSelf, WriterTouchesFreed, WriterGoes, buffer, report, control
  <2> QED
    BY <2>1, SameData
<1> QED
  BY <1>4, <1>5, <1>6, <1>7

\* The steps that Transfer does not see.
LEMMA Unseen ==
  ASSUME UNCHANGED tStatus, Sent' = Sent, Stored' = Stored, Ended' <=> Ended
  PROVE  UNCHANGED T!tvars
<1>1. Ended' = Ended
  BY DEF Ended
<1> QED
  BY <1>1 DEF T!tvars

\* Nothing but the end that is announced changes what plugins know of it.
LEMMA SameEnd ==
  ASSUME NEW e, events \in Seq(Event), events' = Append(events, e), e.kind # "end"
  PROVE  Ended' <=> Ended
<1>1. /\ DOMAIN events = 1 .. Len(events) /\ DOMAIN events' = 1 .. Len(events) + 1 /\ Len(events) \in Nat
      /\ events'[Len(events) + 1] = e /\ \A i \in DOMAIN events : events'[i] = events[i]
  OBVIOUS
<1> QED
  BY <1>1 DEF Ended

\* What is sent is known by what has arrived.
LEMMA SameSent ==
  ASSUME UNCHANGED arrived
  PROVE  Sent' = Sent
BY DEF Sent, Fragments

LEMMA ReceiverRefines ==
  ASSUME "extra" \notin Faults, TypeInv, ReceiverStep
  PROVE  T!Next \/ UNCHANGED T!tvars
<1>1. UNCHANGED <<tStatus, written>>
  BY DEF ReceiverStep, Create, StartReturns, BroadcastBegin, InsertController, IncRC, ReceiveFragment,
     EndOfData, WaitInput, Push, PostOutput, DecRC, SetZR, ReceiverCheck, RemoveController, SetStop,
     Wake, PostRef, ReceiverTouchesFreed, report
<1>2. Stored' = Stored
  <2>1. CASE UNCHANGED arrived
    BY <1>1, <2>1 DEF Stored
  <2>2. ASSUME NEW p \in 0 .. FSize, arrived' = Append(arrived, p) PROVE Stored' = Stored
    <3>1. \A i \in written : arrived'[i] = arrived[i]
      BY <2>2 DEF TypeInv, TypeOK, Fragments
    <3> QED
      BY <1>1, <3>1 DEF Stored
  <2>3. UNCHANGED arrived \/ \E p \in 0 .. FSize : arrived' = Append(arrived, p)
    BY DEF ReceiverStep, Create, StartReturns, BroadcastBegin, InsertController, IncRC, ReceiveFragment,
       EndOfData, WaitInput, Push, PostOutput, DecRC, SetZR, ReceiverCheck, RemoveController, SetStop,
       Wake, PostRef, ReceiverTouchesFreed, buffer
  <2> QED
    BY <2>1, <2>2, <2>3
<1>3. Ended' <=> Ended
  <2>1. CASE UNCHANGED events
    BY <2>1 DEF Ended
  <2>2. CASE BroadcastBegin
    <3>1. PICK e : e = [kind |-> "begin", status |-> tStatus]
      OBVIOUS
    <3>2. events' = Append(events, e) /\ e.kind # "end"
      BY <2>2, <3>1 DEF BroadcastBegin, Emit
    <3> QED
      BY <3>2, SameEnd DEF TypeInv, TypeOK
  <2>3. UNCHANGED events \/ BroadcastBegin
    BY DEF ReceiverStep, Create, StartReturns, InsertController, IncRC, ReceiveFragment,
       EndOfData, WaitInput, Push, PostOutput, DecRC, SetZR, ReceiverCheck, RemoveController, SetStop,
       Wake, PostRef, ReceiverTouchesFreed, report
  <2> QED
    BY <2>1, <2>2, <2>3
<1>4. ASSUME NEW p \in 0 .. FSize, ReceiveFragment(p) PROVE T!Next
  <2>1. p \in Pos /\ arrived' = Append(arrived, p)
    BY <1>4 DEF ReceiveFragment
  <2>2. /\ Len(arrived) \in Nat /\ Len(arrived') = Len(arrived) + 1
        /\ arrived'[Len(arrived) + 1] = p /\ \A i \in Fragments : arrived'[i] = arrived[i]
        /\ Fragments' = Fragments \cup {Len(arrived) + 1}
    BY <2>1 DEF TypeInv, TypeOK, Fragments
  <2>3. Sent' = Sent \cup {p}
    BY <2>2 DEF Sent
  <2>4. Ended' = Ended
    BY <1>3 DEF Ended
  <2> QED
    BY <1>1, <1>2, <2>1, <2>3, <2>4 DEF T!Next, T!Arrive
<1>5. CASE ~\E p \in 0 .. FSize : ReceiveFragment(p)
  <2>1. UNCHANGED arrived
    BY <1>5 DEF ReceiverStep, Create, StartReturns, BroadcastBegin, InsertController, IncRC,
       EndOfData, WaitInput, Push, PostOutput, DecRC, SetZR, ReceiverCheck, RemoveController, SetStop,
       Wake, PostRef, ReceiverTouchesFreed, buffer
  <2> QED
    BY <1>1, <1>2, <1>3, <2>1, SameSent, Unseen
<1> QED
  BY <1>4, <1>5

LEMMA WriterRefines ==
  ASSUME TypeInv, SettledInv, DataInv, ArrivedInv, WriterStep
  PROVE  T!Next \/ UNCHANGED T!tvars
<1>1. \A i \in Fragments : arrived[i] \in Pos /\ arrived[i] \in Sent
  BY DEF Sent, DataInv
<1>a. UNCHANGED arrived /\ Sent' = Sent
  <2>1. UNCHANGED arrived
    BY DEF WriterStep, StartThread, Loop, WaitOutput, TestStop, Pop, PostInput, WriteFragment, Drain,
       DiskFails, Settle, WriterStops, BroadcastUpdate, BroadcastEnd, TestRef, WaitRef, WriterCheck,
       SetStopped, ExitThread, AutoDelete, DeleteSelf, WriterTouchesFreed, buffer
  <2> QED
    BY <2>1, SameSent
<1>2. CASE WriteFragment
  <2>1. /\ cur \in Fragments /\ written' = written \cup {cur} /\ UNCHANGED <<arrived, tStatus>>
        /\ wpc = "write"
    BY <1>2 DEF WriteFragment, WriterAt, TypeInv, Shape
  <2>2. tStatus = "IN_PROGRESS" /\ arrived[cur] \in Pos
    BY <2>1 DEF SettledInv, Filling, DataInv
  <2>3. Ended' <=> Ended
    <3>1. PICK e : e = [kind |-> "update", status |-> tStatus]
      OBVIOUS
    <3>2. e.kind # "end" /\ (UNCHANGED events \/ events' = Append(events, e))
      BY <1>2, <3>1 DEF WriteFragment, Emit
    <3>3. CASE UNCHANGED events
      BY <3>3 DEF Ended
    <3> QED
      BY <3>2, <3>3, SameEnd DEF TypeInv, TypeOK
  <2>4. Stored' = Stored \cup {arrived[cur]}
    BY <2>1 DEF Stored
  <2>5. Ended' = Ended
    BY <2>3 DEF Ended
  <2>6. T!Store({arrived[cur]})
    BY <1>a, <2>1, <2>2, <2>4, <2>5 DEF T!Store
  <2>7. {arrived[cur]} \in SUBSET Sent
    BY <1>1, <2>1
  <2> QED
    BY <2>6, <2>7 DEF T!Next
<1>3. CASE Drain
  <2>1. /\ written' = written \cup queue /\ UNCHANGED <<arrived, tStatus, events>> /\ wpc = "drain"
    BY <1>3 DEF Drain, WriterAt
  <2>2. tStatus = "IN_PROGRESS"
    BY <2>1 DEF SettledInv, Filling
  <2>3. Ended' = Ended
    BY <2>1 DEF Ended
  <2>4. PICK S : S = {arrived[i] : i \in queue}
    OBVIOUS
  <2>5. Stored' = Stored \cup S /\ S \in SUBSET Sent
    BY <1>1, <2>1, <2>4 DEF Stored, TypeInv, TypeOK
  <2>6. T!Store(S)
    BY <1>a, <2>1, <2>2, <2>3, <2>5 DEF T!Store
  <2> QED
    BY <2>5, <2>6 DEF T!Next
<1>4. CASE Settle
  <2>1. wpc = "status" /\ tStatus = "IN_PROGRESS" /\ tStatus' = Outcome /\ UNCHANGED <<arrived, written, events>>
    BY <1>4 DEF Settle, WriterAt, SettledInv, Filling, buffer
  <2>2. Stored' = Stored /\ Ended' = Ended
    BY <2>1 DEF Stored, Ended
  <2>3. bytes = FSize <=> Stored = Pos
    BY AllIsStored
  <2>4. bytes # FSize => Sent # Pos
    BY <2>1, NothingIsLost
  <2> QED
    BY <1>a, <2>1, <2>2, <2>3, <2>4 DEF Outcome, T!Next, T!Finish, T!Fail
<1>5. CASE BroadcastEnd
  <2>1. PICK e : e = [kind |-> "end", status |-> tStatus]
    OBVIOUS
  <2>2. e.kind = "end" /\ events' = Append(events, e) /\ wpc = "end" /\ UNCHANGED <<arrived, written, tStatus>>
    BY <1>5, <2>1 DEF BroadcastEnd, Emit, WriterAt, buffer
  <2>3. tStatus \in {"FINISHED", "ERROR"} /\ ~Ended
    BY <2>2 DEF SettledInv, Filling, Announced, TypeInv, TypeOK, Statuses
  <2>4. Ended' = TRUE
    <3>1. Ended'
      BY <2>2, AppendedEnd DEF TypeInv, TypeOK
    <3> QED
      BY <3>1 DEF Ended
  <2>5. Stored' = Stored
    BY <2>2 DEF Stored
  <2> QED
    BY <1>a, <2>2, <2>3, <2>4, <2>5 DEF T!Next, T!Announce, T!Terminal
<1>6. CASE BroadcastUpdate
  <2>1. PICK e : e = [kind |-> "update", status |-> tStatus]
    OBVIOUS
  <2>2. e.kind # "end" /\ events' = Append(events, e) /\ UNCHANGED <<arrived, written, tStatus>>
    BY <1>6, <2>1 DEF BroadcastUpdate, Emit, buffer
  <2>3. Ended' <=> Ended
    BY <2>2, SameEnd DEF TypeInv, TypeOK
  <2>4. Stored' = Stored
    BY <2>2 DEF Stored
  <2> QED
    BY <1>a, <2>2, <2>3, <2>4, Unseen
<1>7. CASE ~WriteFragment /\ ~Drain /\ ~Settle /\ ~BroadcastEnd /\ ~BroadcastUpdate
  <2>1. UNCHANGED <<arrived, written, tStatus, events>>
    BY <1>7 DEF WriterStep, StartThread, Loop, WaitOutput, TestStop, Pop, PostInput, DiskFails,
       WriterStops, TestRef, WaitRef, WriterCheck, SetStopped, ExitThread, AutoDelete, DeleteSelf,
       WriterTouchesFreed, buffer, report
  <2>2. Stored' = Stored /\ (Ended' <=> Ended)
    BY <2>1 DEF Stored, Ended
  <2> QED
    BY <1>a, <2>1, <2>2, Unseen
<1> QED
  BY <1>2, <1>3, <1>4, <1>5, <1>6, <1>7

\* As long as the client sends no fragment twice and none past the end, every step of the two
\* threads is one of Transfer's or none: FINISHED is reported only when every part is on the
\* disk, ERROR only when the client has not delivered them all, and the outcome is announced
\* once.  (RefinesTransfer adds that it is announced.)
THEOREM ImplementsTransfer ==
  ASSUME "extra" \notin Faults
  PROVE  Spec => T!Init /\ [][T!Next]_(T!tvars)
<1> DEFINE I == TypeInv /\ SettledInv /\ DataInv /\ ArrivedInv
<1>1. Init => I
  BY InitTypeInv, InitSettledInv, InitDataInv, InitArrivedInv
<1>2. I /\ [Next]_vars => I'
  <2>1. DataInv /\ UNCHANGED vars => DataInv'
    BY DEF vars, control, buffer, report, DataInv, Fragments
  <2>2. ArrivedInv /\ UNCHANGED vars => ArrivedInv'
    BY DEF vars, control, buffer, report, life, flags, ArrivedInv, Fragments
  <2> QED
    BY <2>1, <2>2, NextTypeInv, NextSettledInv, ReceiverDataInv, WriterDataInv,
       ReceiverArrivedInv, WriterArrivedInv DEF Next, Terminated
<1>3. I /\ [Next]_vars => [T!Next]_(T!tvars)
  <2>1. UNCHANGED vars => UNCHANGED T!tvars
    <3>1. UNCHANGED vars => UNCHANGED <<tStatus, arrived>> /\ Stored' = Stored /\ (Ended' <=> Ended)
      BY DEF vars, buffer, report, Stored, Ended
    <3> QED
      BY <3>1, SameSent, Unseen
  <2> QED
    BY <2>1, ReceiverRefines, WriterRefines DEF Next, Terminated
<1>4. Init => T!Init
  <2>1. Init => tStatus = "IN_PROGRESS" /\ Sent = {} /\ Stored = {} /\ ~Ended
    BY DEF Init, Sent, Fragments, Stored, Ended
  <2>2. Init => Ended = FALSE
    BY <2>1 DEF Ended
  <2> QED
    BY <2>1, <2>2 DEF T!Init
<1> HIDE DEF I
<1> QED
  BY <1>1, <1>2, <1>3, <1>4, PTL DEF Spec

=============================================================================
