------------------------------ MODULE FifoLock ------------------------------
(***************************************************************************)
(* src/fifolock.c: run a program unless one is already running for the    *)
(* directory.  Every process keeps named pipes open to show how far it is *)
(* and creates the file exclusive_lock to enter a section in which it     *)
(* looks whether a program is running; a process that finds the file      *)
(* tries to tell a lock in use from one left behind by a crash.           *)
(*                                                                         *)
(* Pipe k of the model is locks[k], the file fifo<k+1>.  A process has a  *)
(* pipe open for reading and writing or not at all, so the pipes are sets *)
(* of processes; exit and crash close them.  Besides, T() leaves a pipe   *)
(* open for reading whenever it finds somebody; that counts for nobody's  *)
(* test, but takes a descriptor.  The W() steps leave no trace and never  *)
(* block: waitF closes tmpfd before it reads from it.                     *)
(***************************************************************************)
EXTENDS Naturals, FiniteSets

CONSTANTS Procs,        \* the processes that run fifolock
          MaxLeaked,    \* the descriptors a process can lose before it has too few
          MaxAttempts,  \* bound: how often fifolock is started
          MaxCrashes    \* bound: how many processes are killed

ASSUME LockConstantsOK == MaxLeaked \in Nat /\ MaxAttempts \in Nat /\ MaxCrashes \in Nat

VARIABLES place,              \* where each process is
          open,               \* the processes that have pipe k open
          leaked,             \* the descriptors T has left open in each process
          exclusive,          \* does exclusive_lock exist?
          attempts, crashes   \* how often fifolock was started and killed

lockVars == <<place, open, leaked, exclusive, attempts, crashes>>

Pipes == 0 .. 4
Section  == {"section", "test", "claim", "unlock", "leave"}
Recovery == {"recover", "letGo", "reserve", "testOwner", "remove", "retry"}
Busy == {"enter", "show", "create"} \cup Section \cup Recovery

LockInit ==
    /\ place = [p \in Procs |-> "out"]
    /\ open = [k \in Pipes |-> {}]
    /\ leaked = [p \in Procs |-> 0]
    /\ exclusive = FALSE
    /\ attempts = 0 /\ crashes = 0

Moves(p, from, to) == place[p] = from /\ place' = [place EXCEPT ![p] = to]

L(p, k)  == open' = [open EXCEPT ![k] = @ \cup {p}]
U(p, ks) == open' = [k \in Pipes |-> IF k \in ks THEN open[k] \ {p} ELSE open[k]]
\* testF: reading without blocking answers 0 when nobody has the pipe open for
\* writing and EAGAIN otherwise, and then tmpfd is not closed.
T(k) == open[k] # {}
Leaks(p, k) == leaked' = IF T(k) THEN [leaked EXCEPT ![p] = @ + 1] ELSE leaked
LosesNone(p) == leaked' = [leaked EXCEPT ![p] = 0]   \* the process has ended

rest == <<leaked, attempts, crashes>>

-----------------------------------------------------------------------------

Start(p) ==
    /\ attempts < MaxAttempts
    /\ Moves(p, "out", "enter")
    /\ attempts' = attempts + 1
    /\ UNCHANGED <<open, leaked, exclusive, crashes>>

\* W(2); L(1)
Enter(p) ==
    /\ leaked[p] < MaxLeaked
    /\ Moves(p, "enter", "show")
    /\ L(p, 1)
    /\ UNCHANGED <<exclusive, rest>>

\* open fails for want of a descriptor: "return 2".  In which of the steps of the
\* round it fails makes no difference to a process that is killed there.
Fails(p) ==
    /\ leaked[p] >= MaxLeaked
    /\ Moves(p, "enter", "out")
    /\ LosesNone(p)
    /\ UNCHANGED <<open, exclusive, attempts, crashes>>

\* L(0); W(3)
Show(p) ==
    /\ Moves(p, "show", "create")
    /\ L(p, 0)
    /\ UNCHANGED <<exclusive, rest>>

\* lockEx succeeds: open with O_CREAT | O_EXCL.
Create(p) ==
    /\ Moves(p, "create", "section")
    /\ ~exclusive
    /\ exclusive' = TRUE
    /\ UNCHANGED <<open, rest>>

\* lockEx fails.
Occupied(p) ==
    /\ Moves(p, "create", "recover")
    /\ exclusive
    /\ UNCHANGED <<open, exclusive, rest>>

-----------------------------------------------------------------------------
(* The section: is a program running?                                      *)

MarkSection(p) ==
    /\ Moves(p, "section", "test")
    /\ L(p, 2)
    /\ UNCHANGED <<exclusive, rest>>

\* Mutant: the program is started whether or not one is running.
TestNothing(p) ==
    /\ Moves(p, "test", "claim")
    /\ UNCHANGED <<open, exclusive, rest>>

TestProgram(p) ==
    /\ Moves(p, "test", IF T(4) THEN "unlock" ELSE "claim")
    /\ Leaks(p, 4)
    /\ UNCHANGED <<open, exclusive, attempts, crashes>>

Claim(p) ==
    /\ Moves(p, "claim", "unlock")
    /\ L(p, 4)
    /\ UNCHANGED <<exclusive, rest>>

\* unlockEx; unlink does not mind a file that is gone.
UnlockEx(p) ==
    /\ Moves(p, "unlock", "leave")
    /\ exclusive' = FALSE
    /\ UNCHANGED <<open, rest>>

\* Mutant: the mark of the section is kept, by the program too.
LeaveMarked(p) ==
    /\ Moves(p, "leave", IF p \in open[4] THEN "program" ELSE "out")
    /\ U(p, {0, 1})
    /\ IF p \in open[4] THEN UNCHANGED leaked ELSE LosesNone(p)
    /\ UNCHANGED <<exclusive, attempts, crashes>>

\* U(1); U(0); U(2), and then the program, which inherits what T has left, or
\* "return 47".
LeaveSection(p) ==
    /\ Moves(p, "leave", IF p \in open[4] THEN "program" ELSE "out")
    /\ U(p, {0, 1, 2})
    /\ IF p \in open[4] THEN UNCHANGED leaked ELSE LosesNone(p)
    /\ UNCHANGED <<exclusive, attempts, crashes>>

\* The program ends, closes its descriptor, or could not be executed.
ProgramEnds(p) ==
    /\ Moves(p, "program", "out")
    /\ U(p, {4})
    /\ LosesNone(p)
    /\ UNCHANGED <<exclusive, attempts, crashes>>

-----------------------------------------------------------------------------
(* Recovery: is the lock that is there a valid one?                        *)

MarkRecovery(p) ==
    /\ Moves(p, "recover", "letGo")
    /\ L(p, 2)
    /\ UNCHANGED <<exclusive, rest>>

\* U(0); W(0); U(1)
LetGo(p) ==
    /\ Moves(p, "letGo", "reserve")
    /\ U(p, {0, 1})
    /\ UNCHANGED <<exclusive, rest>>

Reserve(p) ==
    /\ Moves(p, "reserve", "testOwner")
    /\ L(p, 3)
    /\ UNCHANGED <<exclusive, rest>>

\* Mutant: a lock nobody stands behind is respected, one in use is removed.
TestOwnerInverted(p) ==
    /\ Moves(p, "testOwner", IF T(1) THEN "remove" ELSE "retry")
    /\ UNCHANGED <<open, exclusive, rest>>

\* The answer of T(1) is used one step later.
TestOwner(p) ==
    /\ Moves(p, "testOwner", IF T(1) THEN "retry" ELSE "remove")
    /\ Leaks(p, 1)
    /\ UNCHANGED <<open, exclusive, attempts, crashes>>

RemoveStale(p) ==
    /\ Moves(p, "remove", "retry")
    /\ exclusive' = FALSE
    /\ UNCHANGED <<open, rest>>

\* U(3); U(2), and the loop starts again.
Retry(p) ==
    /\ Moves(p, "retry", "enter")
    /\ U(p, {2, 3})
    /\ UNCHANGED <<exclusive, rest>>

-----------------------------------------------------------------------------

\* The process or its program is killed at any point.  The file stays.
Crash(p) ==
    /\ crashes < MaxCrashes
    /\ place[p] # "out"
    /\ place' = [place EXCEPT ![p] = "out"]
    /\ U(p, Pipes)
    /\ LosesNone(p)
    /\ crashes' = crashes + 1
    /\ UNCHANGED <<exclusive, attempts>>

Step(p) ==
    \/ Enter(p) \/ Fails(p) \/ Show(p) \/ Create(p) \/ Occupied(p)
    \/ MarkSection(p) \/ TestProgram(p) \/ Claim(p) \/ UnlockEx(p) \/ LeaveSection(p)
    \/ MarkRecovery(p) \/ LetGo(p) \/ Reserve(p) \/ TestOwner(p)
    \/ RemoveStale(p) \/ Retry(p)

LockNext == \E p \in Procs : Start(p) \/ Step(p) \/ ProgramEnds(p) \/ Crash(p)

LockSpec == LockInit /\ [][LockNext]_lockVars

\* A process that is not killed goes on; a program may run for ever.
LockFairSpec == LockSpec /\ \A p \in Procs : WF_lockVars(Step(p))

-----------------------------------------------------------------------------
(* Properties.                                                             *)

\* A pipe is open exactly in the part of the code between its L and its U.
Holds(p) ==
    (IF place[p] \in {"show", "create", "recover", "letGo"} \cup Section THEN {1} ELSE {})
      \cup (IF place[p] \in {"create", "recover", "letGo"} \cup Section THEN {0} ELSE {})
      \cup (IF place[p] \in (Section \ {"section"}) \cup (Recovery \ {"recover"}) THEN {2} ELSE {})
      \cup (IF place[p] \in {"testOwner", "remove", "retry"} THEN {3} ELSE {})

LockTypeOK ==
    /\ place \in [Procs -> {"out", "program"} \cup Busy]
    /\ open \in [Pipes -> SUBSET Procs]
    /\ leaked \in [Procs -> Nat]
    /\ exclusive \in BOOLEAN
    /\ attempts \in 0 .. MaxAttempts /\ crashes \in 0 .. MaxCrashes

\* A pipe is open for writing, which is what the others test, exactly where the
\* position in the code says, and pipe 4 only on the way to the program.  What T
\* leaves open for reading is kept from round to round and by the program: a
\* process that has not entered a round or has ended has none of it.
PipesFollowCode ==
    \A p \in Procs :
        /\ \A k \in 0 .. 3 : p \in open[k] <=> k \in Holds(p)
        /\ p \in open[4] => place[p] \in {"unlock", "leave", "program"}
        /\ place[p] = "out" => leaked[p] = 0

\* printHelp: "At most one program per directory".
AtMostOneProgram == \A p, q \in Procs : place[p] = "program" /\ place[q] = "program" => p = q

\* Of the first two attempts at most one starts its program, whichever process
\* is killed and wherever: the section, T(4) and L(4) exclude one another.
FirstTwoExclude == attempts <= 2 => AtMostOneProgram

\* printHelp: "Lock won't be in unusable state if any process fail at any time".
\* For a process that is alone from some time on: its attempt comes to an end,
\* whatever the processes before it left behind.
Alone(p) == \A q \in Procs \ {p} : place[q] \in {"out", "program"}
LonelyAttemptEnds ==
    \A p \in Procs : <>[]Alone(p) => ((place[p] \in Busy) ~> (place[p] \in {"out", "program"}))

\* The same of processes that run at the same time: "Attemp to run more programs
\* at the same time is safe".  Two of them may retreat from each other as long as
\* they have descriptors: it is the leak of T that ends them, with "return 2".
AttemptEnds == \A p \in Procs : (place[p] \in Busy) ~> (place[p] \in {"out", "program"})
=============================================================================
