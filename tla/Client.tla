------------------------------- MODULE Client -------------------------------
(***************************************************************************)
(* One run of the program isend (src/client.cpp): its main thread, which   *)
(* works through the command line, walks directories and sends files; the  *)
(* StatusReporter thread of the file being sent; and the thread of the     *)
(* server (src/datareceiver.cpp) at the other end of each connection.      *)
(***************************************************************************)
EXTENDS Paths

CONSTANTS Files,        \* regular files: their sizes, by their components
          Cwd,          \* where isend runs
          CommandLines, \* sequences of [opt |-> "-t" or "-f", val |-> what]
          Percents,     \* whether -p is given
          Chunk,        \* bytes of a fragment
          Room,         \* bound: messages in transit to a server
          MaxChanges,   \* bound: times a file changes its size while it is sent
          None

ASSUME ClientOK ==
    /\ \A f \in DOMAIN Files : Files[f] \in Nat
    /\ \A l \in CommandLines :
           Len(l) \in Nat /\ \A k \in 1..Len(l) : l[k].opt \in {"-t", "-f"}
    /\ {Chunk, Room} \subseteq Nat \ {0} /\ MaxChanges \in Nat
    /\ None # "FINISHED"
    /\ None \notin [size : Nat, bytes : Nat, status : {"CONNECTING", "IN_PROGRESS"}]

VARIABLES
    args, percent,          \* argv, outputpercentage
    i, tname, client,       \* position in argv, the target named last, the connection
    failuredetected, exitcode,
    cpc,                    \* where the main thread is
    ignored, entry, dirs,   \* sendEntry: characters cut off the names, the entry, and
                            \* the directories that are open with the names to come
    file, len, changes,     \* the FileReader; what the file has by now
    reporter, running, sem, \* the StatusReporter, mRunning, mSem
    shown,                  \* the last event about the file
    net, server,            \* per connection: the stream, its server,
    hung,                   \* the servers that wait for a lost listmutex
    sent, handled           \* histories: what was asked for and how it ended, at both ends

line == <<args, percent, i, tname, client, failuredetected>>
walk == <<ignored, entry, dirs>>
disk == <<len, changes>>
thread == <<reporter, running, sem>>
remote == <<server, hung, handled>>
vars == <<line, exitcode, cpc, walk, file, disk, thread, shown, sent, net, remote>>

Init ==
    /\ args \in CommandLines /\ percent \in Percents
    /\ i = 1 /\ tname = None /\ client = None /\ failuredetected = FALSE /\ exitcode = None
    /\ cpc = "arg" /\ ignored = 0 /\ entry = <<>> /\ dirs = <<>>
    /\ file = None /\ len = 0 /\ changes = 0
    /\ reporter = "none" /\ running = FALSE /\ sem = 0 /\ shown = "none"
    /\ sent = <<>> /\ net = <<>> /\ server = <<>>
    /\ hung = {} /\ handled = <<>>

-----------------------------------------------------------------------------
(* The command line.                                                       *)

Option(o) == cpc = "arg" /\ i <= Len(args) /\ args[i].opt = o

\* Mutant: once there has been a connection nothing is skipped.
SkipUnconnected(n) ==
    Min({k \in n..Len(args) : client # None \/ args[k].opt = "-t"} \cup {Len(args) + 1})

\* What follows an unusable target is skipped up to the next one.
SkipTarget(n) == Min({k \in n..Len(args) : args[k].opt = "-t"} \cup {Len(args) + 1})

\* The client's end of its connection, when it goes away.
Closed(c) == IF c = None THEN net ELSE [net EXCEPT ![c].up = IF @ = "cut" THEN @ ELSE "closed"]

\* The first way that works; the peer that is replaced is deleted.
FindWay ==
    /\ Option("-t")
    /\ tname' = args[i].val /\ client' = Len(net) + 1 /\ i' = i + 1
    /\ net' = Append(Closed(client),
                     [target |-> args[i].val, up |-> "up", out |-> <<>>, back |-> <<>>])
    /\ server' = Append(server, [pc |-> "run", name |-> <<>>, size |-> 0, got |-> 0])
    /\ handled' = Append(handled, <<>>)
    /\ sent' = Append(sent, <<>>)
    /\ UNCHANGED <<args, percent, failuredetected, exitcode, cpc, walk, file, disk, thread, shown,
                   hung>>

NoWay ==
    /\ Option("-t")
    /\ tname' = args[i].val /\ failuredetected' = TRUE /\ i' = SkipTarget(i + 1)
    /\ UNCHANGED <<args, percent, client, exitcode, cpc, walk, file, disk, thread, shown,
                   sent, net, remote>>

SendArgument ==
    /\ Option("-f") /\ tname # None
    /\ entry' = trimSlashes(args[i].val) /\ ignored' = getFileName(entry')
    /\ cpc' = "entry" /\ i' = i + 1
    /\ UNCHANGED <<args, percent, tname, client, failuredetected, exitcode, dirs, file, disk,
                   thread, shown, sent, net, remote>>

NoTarget ==
    /\ Option("-f") /\ tname = None
    /\ i' = i + 1
    /\ UNCHANGED <<args, percent, tname, client, failuredetected, exitcode, cpc, walk, file,
                   disk, thread, shown, sent, net, remote>>

\* The end of the program closes its descriptors.
Exit(code) == cpc' = "exit" /\ exitcode' = code /\ net' = Closed(client)

EndOfLine ==
    /\ cpc = "arg" /\ i > Len(args)
    /\ Exit(IF failuredetected THEN "failed" ELSE "good")
    /\ UNCHANGED <<line, walk, file, disk, thread, shown, sent, remote>>

\* The FileReader is gone; main returns while the reporter is still running.
Return ==
    /\ cpc = "unwind"
    /\ Exit("failed")
    /\ UNCHANGED <<line, walk, file, disk, thread, shown, sent, remote>>

-----------------------------------------------------------------------------
(* sendEntry.                                                              *)

Here == Resolve(Cwd, entry)
IsDir(at) == \E f \in DOMAIN Files : IsStrictPrefix(at, f)
Dot == <<".">>
DotDot == <<".", ".">>
Names(at) ==
    {f[Len(at) + 1] : f \in {g \in DOMAIN Files : IsStrictPrefix(at, g)}} \cup {Dot, DotDot}

EndsWith(p, name) == Len(p) > Len(name) /\ IsSuffix(<<Slash>> \o name, p)

\* Mutant: a directory contains its parent.
SkippedDot(p) == EndsWith(p, Dot)

Skipped(p) == EndsWith(p, Dot) \/ EndsWith(p, DotDot)

Skip ==
    /\ cpc = "entry" /\ Skipped(entry)
    /\ cpc' = "next"
    /\ UNCHANGED <<line, exitcode, walk, file, disk, thread, shown, sent, net, remote>>

OpenDir ==
    /\ cpc = "entry" /\ ~Skipped(entry) /\ IsDir(Here)
    /\ dirs' = Append(dirs, [path |-> entry, rest |-> Names(Here)])
    /\ cpc' = "next"
    /\ UNCHANGED <<line, exitcode, ignored, entry, file, disk, thread, shown, sent, net, remote>>

\* Names come in any order; the last return is to the loop over the arguments.
NextEntry(name) ==
    /\ cpc = "next" /\ dirs # <<>> /\ name \in Last(dirs).rest
    /\ entry' = combinePath(Last(dirs).path, name) /\ cpc' = "entry"
    /\ dirs' = [dirs EXCEPT ![Len(dirs)].rest = @ \ {name}]
    /\ UNCHANGED <<line, exitcode, ignored, file, disk, thread, shown, sent, net, remote>>

EndOfDir ==
    /\ cpc = "next"
    /\ IF dirs = <<>> THEN cpc' = "arg" /\ UNCHANGED dirs
       ELSE Last(dirs).rest = {} /\ dirs' = Front(dirs) /\ UNCHANGED cpc
    /\ UNCHANGED <<line, exitcode, ignored, entry, file, disk, thread, shown, sent, net, remote>>

\* The constructor of FileReader.  (The reporter of the file before only has to
\* delete itself any more.)
OpenFile ==
    /\ cpc = "entry" /\ Here \in DOMAIN Files
    /\ file' = [size |-> Files[Here], bytes |-> 0, status |-> "CONNECTING"]
    /\ len' = Files[Here] /\ changes' = 0
    /\ shown' = "begin"
    /\ reporter' = "test" /\ running' = TRUE /\ sem' = 0
    /\ cpc' = "send"
    /\ UNCHANGED <<line, exitcode, walk, sent, net, remote>>

\* No such file, or no right to read it.
OpenFails ==
    /\ cpc = "entry" /\ ~Skipped(entry)
    /\ cpc' = "unwind"
    /\ UNCHANGED <<line, exitcode, walk, file, disk, thread, shown, sent, net, remote>>

-----------------------------------------------------------------------------
(* FileReader::send.                                                       *)

Current == net[client]
Asked == Len(sent[client])
Outcome(o) == sent' = [sent EXCEPT ![client][Asked].outcome = o]

\* catch(...) of send, and what destroys the FileReader.
Throw ==
    /\ file' = None /\ shown' = "end" /\ cpc' = "unwind"
    /\ UNCHANGED <<line, exitcode, walk, disk, thread, net, remote>>

\* sendData: into the stream; on a broken connection into nowhere, or not at all.
Sends(msg) ==
    \/ /\ Current.up = "up" /\ Len(Current.out) < Room
       /\ net' = [net EXCEPT ![client].out = Append(@, msg)]
    \/ Current.up \in {"cut", "left"} /\ UNCHANGED net

SendBreaks == Current.up \in {"cut", "left"}

SendUpdate ==
    /\ cpc = "send"
    /\ file' = [file EXCEPT !.status = "IN_PROGRESS"] /\ shown' = "update"
    /\ cpc' = "request"
    /\ UNCHANGED <<line, exitcode, walk, disk, thread, sent, net, remote>>

SendRequest ==
    /\ cpc = "request"
    /\ LET name == SubSeq(entry, ignored + 1, Len(entry))
       IN  /\ Sends([type |-> "request", name |-> name, size |-> file.size])
           /\ sent' = [sent EXCEPT ![client] =
                           Append(@, [arg |-> i - 1, source |-> Here, name |-> name,
                                      changed |-> FALSE, outcome |-> None])]
    /\ cpc' = "reply"
    /\ UNCHANGED <<line, exitcode, walk, file, disk, thread, shown, remote>>

RequestFails == cpc = "request" /\ SendBreaks /\ Throw /\ UNCHANGED sent

Accepted ==
    /\ cpc = "reply" /\ Current.back # <<>> /\ Head(Current.back) = "accept"
    /\ net' = [net EXCEPT ![client].back = Tail(@)]
    /\ cpc' = "data"
    /\ UNCHANGED <<line, exitcode, walk, file, disk, thread, shown, sent, remote>>

\* Rejected; an answer that cannot be read; none, because the connection is over, or
\* broke while the answer was on its way.
NotAccepted ==
    /\ cpc = "reply"
    /\ IF Current.back # <<>> THEN Head(Current.back) # "accept" \/ Current.up = "cut"
       ELSE Current.up # "up"
    /\ Outcome("ERROR") /\ Throw

\* The connection ended in the middle of the answer: recvData of all plugins but ip4tcps
\* takes that for zero bytes, and reads on for ever.
AnswerTorn ==
    /\ cpc = "reply" /\ Current.up = "cut"
    /\ cpc' = "torn"
    /\ UNCHANGED <<line, exitcode, walk, file, disk, thread, shown, sent, net, remote>>

\* A read at the end of the file answers 0; one of a file that has grown goes past
\* the size it had.
ReadSize == Min({Chunk, IF len > file.bytes THEN len - file.bytes ELSE 0})

\* Mutant: the loop ends with the last whole fragment.
DataEndsEarly == file'.bytes + Chunk >= file.size

DataEnds == file'.bytes >= file.size

SendData ==
    /\ cpc = "data"
    /\ Sends([type |-> "data", position |-> file.bytes, bytes |-> ReadSize])
    /\ file' = [file EXCEPT !.bytes = @ + ReadSize]
    /\ cpc' = IF DataEnds THEN "finished" ELSE "data"
    /\ UNCHANGED <<line, exitcode, walk, disk, thread, shown, sent, remote>>

\* Reading fails, or sending.
DataFails == cpc = "data" /\ Outcome("ERROR") /\ Throw

\* The answer of this sendData is not looked at.
SendFinished ==
    /\ cpc = "finished"
    /\ Sends([type |-> "finished"])
    /\ cpc' = "join"
    /\ UNCHANGED <<line, exitcode, walk, file, disk, thread, shown, sent, remote>>

\* StatusReporter::join, in two steps.
JoinAsks ==
    /\ cpc = "join"
    /\ running' = FALSE /\ cpc' = "wait"
    /\ UNCHANGED <<line, exitcode, walk, file, disk, reporter, sem, shown, sent, net, remote>>

\* Mutant: the reporter is not waited for.
JoinNothing ==
    /\ cpc = "wait"
    /\ cpc' = "end"
    /\ UNCHANGED <<line, exitcode, walk, file, disk, thread, shown, sent, net, remote>>

JoinWaits ==
    /\ cpc = "wait" /\ reporter # "deleted" /\ sem > 0
    /\ sem' = sem - 1 /\ cpc' = "end"
    /\ UNCHANGED <<line, exitcode, walk, file, disk, reporter, running, shown, sent, net, remote>>

\* The reporter deletes itself, and mSem with it: the memory may still look like a
\* semaphore that was raised, or like one that never is, or like anything else.
JoinFreed ==
    /\ cpc = "wait" /\ reporter = "deleted"
    /\ \/ cpc' \in {"end", "stuck"} /\ UNCHANGED <<exitcode, net>>
       \/ Exit("killed")
    /\ UNCHANGED <<line, walk, file, disk, thread, shown, sent, remote>>

SendEnds ==
    /\ cpc = "end"
    /\ Outcome("FINISHED")
    /\ shown' = "end" /\ file' = None /\ cpc' = "next"
    /\ UNCHANGED <<line, exitcode, walk, disk, thread, net, remote>>

-----------------------------------------------------------------------------
(* StatusReporter::run.                                                    *)

ReporterTests ==
    /\ reporter = "test"
    /\ reporter' = IF running THEN "update" ELSE "post"
    /\ UNCHANGED <<line, exitcode, cpc, walk, file, disk, running, sem, shown, sent, net, remote>>

\* With -p an empty file divides by zero.
ReporterUpdates ==
    /\ reporter = "update" /\ file # None
    /\ shown' = "update"
    /\ IF percent /\ file.size = 0
       THEN reporter' = "none" /\ Exit("killed")
       ELSE reporter' = "test" /\ UNCHANGED <<cpc, exitcode, net>>
    /\ UNCHANGED <<line, walk, file, disk, running, sem, sent, remote>>

\* An exception has destroyed the object it reports about.
ReporterTouchesFreed ==
    /\ reporter = "update" /\ file = None /\ cpc # "exit"
    /\ \/ reporter' = "test" /\ shown' = "update" /\ UNCHANGED <<cpc, exitcode, net>>
       \/ reporter' = "none" /\ Exit("killed") /\ UNCHANGED shown
    /\ UNCHANGED <<line, walk, file, disk, running, sem, sent, remote>>

ReporterPosts ==
    /\ reporter = "post"
    /\ sem' = sem + 1 /\ reporter' = "posted"
    /\ UNCHANGED <<line, exitcode, cpc, walk, file, disk, running, shown, sent, net, remote>>

ReporterDeletesItself ==
    /\ reporter = "posted"
    /\ reporter' = "deleted"
    /\ UNCHANGED <<line, exitcode, cpc, walk, file, disk, running, sem, shown, sent, net, remote>>

-----------------------------------------------------------------------------
(* The server's thread for connection c, dataReceiver_t::run.              *)

Came(c) == Head(net[c].out)
Takes(c) == net[c].out # <<>>
Got(c, o) == handled' = [handled EXCEPT ![c] = Append(@, [name |-> server[c].name, outcome |-> o])]
Refused(c) == handled' = [handled EXCEPT ![c] = Append(@, [name |-> Came(c).name, outcome |-> "ERROR"])]
Replies(c, r) == net' = [net EXCEPT ![c].out = Tail(@), ![c].back = Append(@, r)]

\* The size of the message is not set: it may come as a rejection or as anything.
Reject(c) ==
    /\ server[c].pc = "run" /\ Takes(c) /\ pathIsUnsafe(Came(c).name)
    /\ Replies(c, "reject") \/ Replies(c, "garbage")
    /\ Refused(c)
    /\ UNCHANGED <<line, exitcode, cpc, walk, file, disk, thread, shown, sent, server,
                   hung>>

\* Mutant: no answer.
AcceptSilently(c) ==
    /\ server[c].pc = "run" /\ Takes(c) /\ ~pathIsUnsafe(Came(c).name)
    /\ net' = [net EXCEPT ![c].out = Tail(@)]
    /\ server' = [server EXCEPT ![c] = [pc |-> "data", name |-> Came(c).name,
                                        size |-> Came(c).size, got |-> 0]]
    /\ UNCHANGED <<line, exitcode, cpc, walk, file, disk, thread, shown, sent, hung, handled>>

Accept(c) ==
    /\ server[c].pc = "run" /\ Takes(c) /\ ~pathIsUnsafe(Came(c).name)
    /\ Replies(c, "accept")
    /\ server' = [server EXCEPT ![c] = [pc |-> "data", name |-> Came(c).name,
                                        size |-> Came(c).size, got |-> 0]]
    /\ UNCHANGED <<line, exitcode, cpc, walk, file, disk, thread, shown, sent, hung, handled>>

\* makePath fails, or the file cannot be opened: what is sent is memory that was
\* never written, and the thread ends.
Refuse(c) ==
    /\ server[c].pc = "run" /\ Takes(c) /\ ~pathIsUnsafe(Came(c).name)
    /\ net' = [net EXCEPT ![c].up = IF @ = "up" THEN "left" ELSE @, ![c].out = <<>>,
                          ![c].back = Append(@, "garbage")]
    /\ Refused(c)
    /\ server' = [server EXCEPT ![c].pc = "gone"]
    /\ UNCHANGED <<line, exitcode, cpc, walk, file, disk, thread, shown, sent, hung>>

\* getController waits for listmutex, which a constructor that threw has kept: the request
\* that was taken stays where it is.
Hang(c) ==
    /\ server[c].pc = "run" /\ Takes(c) /\ ~pathIsUnsafe(Came(c).name)
    /\ hung' = hung \cup {c}
    /\ UNCHANGED <<line, exitcode, cpc, walk, file, disk, thread, shown, sent, net, server, handled>>

\* The writer takes a file for complete when as many bytes have come as were announced.
Complete(c) == IF server[c].got = server[c].size THEN "FINISHED" ELSE "ERROR"

ReceiveData(c) ==
    /\ server[c].pc = "data" /\ Takes(c) /\ Came(c).type = "data"
    /\ server' = [server EXCEPT ![c].got = @ + Came(c).bytes]
    /\ net' = [net EXCEPT ![c].out = Tail(@)]
    /\ UNCHANGED <<line, exitcode, cpc, walk, file, disk, thread, shown, sent, hung, handled>>

ReceiveFinished(c) ==
    /\ server[c].pc = "data" /\ Takes(c) /\ Came(c).type = "finished"
    /\ Got(c, Complete(c))
    /\ server' = [server EXCEPT ![c].pc = "run"]
    /\ net' = [net EXCEPT ![c].out = Tail(@)]
    /\ UNCHANGED <<line, exitcode, cpc, walk, file, disk, thread, shown, sent, hung>>

Disconnected(c) ==
    /\ server[c].pc # "gone" /\ ~Takes(c) /\ net[c].up \in {"closed", "cut"}
    /\ server' = [server EXCEPT ![c].pc = "gone"]
    /\ IF server[c].pc = "data" THEN Got(c, Complete(c)) ELSE UNCHANGED handled
    /\ UNCHANGED <<line, exitcode, cpc, walk, file, disk, thread, shown, sent, hung, net>>

-----------------------------------------------------------------------------
(* The connection breaks; somebody writes to the file that is sent.        *)

Break(c) ==
    /\ net[c].up \in {"up", "closed"}
    /\ \E n \in 0..Len(net[c].out) :
           net' = [net EXCEPT ![c].up = "cut", ![c].out = SubSeq(@, 1, n)]
    /\ UNCHANGED <<line, exitcode, cpc, walk, file, disk, thread, shown, sent, remote>>

FileChanges(n) ==
    /\ cpc \in {"reply", "data"} /\ changes < MaxChanges /\ n \in Nat
    /\ len' = n /\ changes' = changes + 1
    /\ sent' = [sent EXCEPT ![client][Asked].changed = TRUE]
    /\ UNCHANGED <<line, exitcode, cpc, walk, file, thread, shown, net, remote>>

Main ==
    \/ FindWay \/ NoWay \/ SendArgument \/ NoTarget \/ EndOfLine \/ Return
    \/ Skip \/ OpenDir \/ OpenFile \/ OpenFails \/ EndOfDir
    \/ cpc = "next" /\ dirs # <<>> /\ \E name \in Last(dirs).rest : NextEntry(name)
    \/ SendUpdate \/ SendRequest \/ RequestFails \/ Accepted \/ NotAccepted
    \/ AnswerTorn
    \/ SendData \/ DataFails \/ SendFinished \/ JoinAsks \/ JoinWaits \/ JoinFreed \/ SendEnds

Reporter ==
    \/ ReporterTests \/ ReporterUpdates \/ ReporterTouchesFreed \/ ReporterPosts
    \/ ReporterDeletesItself

Server(c) ==
    \/ Reject(c) \/ Accept(c) \/ Refuse(c) \/ Hang(c) \/ ReceiveData(c) \/ ReceiveFinished(c)
    \/ Disconnected(c)

Next ==
    \/ Main
    \/ cpc # "exit" /\ Reporter
    \/ \E c \in DOMAIN net \ hung : Server(c)
    \/ \E c \in DOMAIN net : Break(c)
    \/ \E n \in {len - 1, len + 1} : FileChanges(n)

Spec == Init /\ [][Next]_vars

\* Each thread runs.  No action stands for the file or the network.
FairSpec ==
    /\ Spec
    /\ WF_vars(Main) /\ WF_vars(cpc # "exit" /\ Reporter)
    /\ WF_vars(\E c \in DOMAIN net \ hung : Server(c))

-----------------------------------------------------------------------------
(* Properties.                                                             *)

TypeOK ==
    /\ args \in CommandLines /\ i \in 1..(Len(args) + 1)
    /\ client \in {None} \cup DOMAIN net /\ failuredetected \in BOOLEAN
    /\ exitcode \in {None, "good", "failed", "killed"} /\ (exitcode = None <=> cpc # "exit")
    /\ cpc \in {"arg", "entry", "next", "send", "request", "reply", "data", "finished",
                "join", "wait", "end", "stuck", "torn", "unwind", "exit"}
    /\ reporter \in {"none", "test", "update", "post", "posted", "deleted"}
    /\ sem \in {0, 1} /\ running \in BOOLEAN
    /\ shown \in {"none", "begin", "update", "end"}
    /\ hung \subseteq DOMAIN net /\ DOMAIN net = DOMAIN server /\ DOMAIN net = DOMAIN sent /\ DOMAIN net = DOMAIN handled
    /\ \A c \in DOMAIN net : Len(net[c].out) <= Room /\ Len(net[c].back) <= 1

TypedFor(s) == args[s.arg].val

\* Each file goes to the target named last before it, also when a target between them
\* could not be reached.
ToTargetNamedLast ==
    \A c \in DOMAIN net : \A n \in DOMAIN sent[c] :
        net[c].target = args[Max({k \in 1..sent[c][n].arg : args[k].opt = "-t"})].val

\* What goes out is what the command line names: it is from below the path that was
\* given, and goes under a name that begins with the last part of that path.
\* trimSlashes is the exception: one character, alone or before slashes, becomes "/", and
\* the whole file system is sent.
FollowsCommandLine ==
    \A c \in DOMAIN net : \A n \in DOMAIN sent[c] :
        LET s == sent[c][n]
            given == Resolve(Cwd, TypedFor(s))
        IN  (\E k \in 2..Len(TypedFor(s)) : TypedFor(s)[k] # Slash) /\ given # <<>> =>
                /\ IsPrefix(given, s.source)
                /\ DotDot \notin {SubSeq(TypedFor(s), k, k + 1) : k \in 1..(Len(TypedFor(s)) - 1)}
                       => Resolve(Front(given), s.name) = s.source

\* The server answers and stores the files in the order they were sent, under their
\* names, and a file that isend reports as sent is stored whole, unless the
\* connection broke or the file changed while it was read.
FinishedIsStored ==
    \A c \in DOMAIN net : \A n \in DOMAIN handled[c] :
        LET s == sent[c][n]
        IN  /\ n <= Len(sent[c]) /\ handled[c][n].name = s.name
            /\ s.outcome = "FINISHED" /\ ~s.changed /\ net[c].up # "cut"
                   => handled[c][n].outcome = "FINISHED"
            /\ s.outcome = "FINISHED" => ~pathIsUnsafe(s.name)

\* As long as no exception leaves send, the reporter broadcasts only about a
\* FileReader that exists, and nothing is heard of a file after its end.
ReporterHasFile ==
    cpc \notin {"unwind", "exit"} =>
        /\ reporter = "update" => file # None
        /\ shown = "end" => reporter \in {"posted", "deleted"}

\* isend ends, whatever the command line names and whenever a connection breaks.  It does
\* not in four cases: it reads for ever a file that has become shorter; it reads for ever
\* an answer of which the end was lost; it waits for ever for the answer of a server that
\* has lost its listmutex; and it may wait for ever for a reporter that has deleted itself.
ClientEnds ==
    \/ <>(cpc = "exit")
    \/ <>[](cpc = "data" /\ len < file.size)
    \/ <>[](cpc = "torn" /\ Current.up = "cut")
    \/ <>[](cpc = "reply" /\ client \in hung /\ Current.up = "up")
    \/ <>[](cpc = "stuck" /\ reporter = "deleted")

=============================================================================
