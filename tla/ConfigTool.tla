----------------------------- MODULE ConfigTool -----------------------------
(***************************************************************************)
(* Processes of instsend-config (src/configtool.cpp) that work on the same *)
(* configuration files.  A configuration is a tree, the set of the paths   *)
(* in it; a file is an inode that holds a whole configuration, nothing, or *)
(* part of one ("torn").  A file is replaced by renaming another one, of   *)
(* the same name with "_tmp", which all processes share.                   *)
(***************************************************************************)
EXTENDS Naturals, Sequences, FiniteSets, Functions

CONSTANTS Procs,
          Lines,      \* command lines: sequences of commands, records with op
          CfgFiles,   \* names of configuration files
          OnDisk,     \* [CfgFiles -> configurations]: what they hold at first
          MaxFaults,  \* bound: write errors, and processes killed
          None

IsTree(c) == \A q \in c : Len(q) > 1 => SubSeq(q, 1, Len(q) - 1) \in c

ASSUME ConfigToolOK ==
  /\ \A f \in CfgFiles : IsTree(OnDisk[f])
  /\ \A l \in Lines : l \in Seq(Range(l)) /\ \A cmd \in Range(l) : cmd.op = "config" => cmd.file \in CfgFiles
  /\ IsFiniteSet(CfgFiles) /\ IsFiniteSet(Procs)
  /\ MaxFaults \in Nat /\ None \notin CfgFiles \cup Nat

VARIABLES proc,   \* a process: its place pc, its command line and the command
                  \* i it is at, main's cfg, cfgpath, save and load, the inode
                  \* and whether part of the text left the buffer, and what it
                  \* was asked to add, pairs of a file and a path
          dir,    \* the inode of every name, or None
          data,   \* what the inodes hold
          want,   \* what processes that returned 0 were asked to add to a file
          raced,  \* files that two processes worked on at once
          mixed,  \* files that two processes saved at once
          failed, \* files that were not saved: an error, or no name after -ic
          faults
vars == <<proc, dir, data, want, raced, mixed, failed, faults>>

Inodes == 1..(2 * Cardinality(CfgFiles) + Cardinality(Procs))
Names == CfgFiles \X {"", "_tmp"}
Over == {"done", "failed", "aborted"}
Saving == {"write", "close", "rename"}

Holds(kind, c, p) == [kind |-> kind, cfg |-> c, by |-> p]

(* where the files are at first *)
Place == CHOOSE b \in Bijection(CfgFiles, 1..Cardinality(CfgFiles)) : TRUE

Init ==
  /\ \E ls \in [Procs -> Lines] : proc = [p \in Procs |->
        [pc |-> "main", line |-> ls[p], i |-> 1, cfg |-> None, path |-> None,
         save |-> FALSE, load |-> TRUE, fd |-> None, part |-> FALSE, asked |-> {}]]
  /\ dir = [n \in Names |-> IF n[2] = "" THEN Place[n[1]] ELSE None]
  /\ data = [k \in Inodes |-> IF k \in Range(Place)
               THEN Holds("whole", OnDisk[AntiFunction(Place)[k]], None)
               ELSE Holds("empty", {}, None)]
  /\ want = [f \in CfgFiles |-> {}] /\ raced = {} /\ mixed = {} /\ failed = {}
  /\ faults = 0

History == <<want, raced, mixed, failed, faults>>
Become(p, r) == proc' = [proc EXCEPT ![p] = r]
Go(p, where) == Become(p, [proc[p] EXCEPT !.pc = where])

Cmd(p) == proc[p].line[proc[p].i]
Does(p, ops) == proc[p].i <= Len(proc[p].line) /\ Cmd(p).op \in ops
Inits == {"init-client", "init-server"}
Adds == {"add-targets", "add-way", "import-targets", "add-com-plugin", "add-event-plugin"}

(* fread and loadComponent in one step: nothing but a whole text is parsed *)
Readable(f) == dir[<<f, "">>] # None /\ data[dir[<<f, "">>]].kind = "whole"
Content(f) == data[dir[<<f, "">>]].cfg

-----------------------------------------------------------------------------
(* The commands: what they find by gie, and what they add.                 *)

(* items that insertNew, or the test before it, does not find there yet *)
New(c, items) == {q \in items : SubSeq(q, 1, 2) \notin c}

(* the path that gie has to find, or it throws *)
Needs(cmd) == CASE cmd.op \in {"add-targets", "import-targets", "list-targets"} -> <<"targets">>
                [] cmd.op = "list-groups" -> <<"groups">>
                [] cmd.op = "add-way" -> <<"targets", cmd.target, "ways">>
                [] OTHER -> <<>>

Possible(c, cmd) ==
  /\ c # None
  /\ Needs(cmd) = <<>> \/ Needs(cmd) \in c
  /\ cmd.op # "export-target"  \* targconf[targname] throws: targconf is empty
  /\ cmd.op = "import-targets" => Readable(cmd.file) /\ <<"targets">> \in Content(cmd.file)

Added(c, cmd) ==
  CASE cmd.op = "add-targets" -> New(c, cmd.items)
    [] cmd.op = "import-targets" ->
         New(c, {q \in Content(cmd.file) : Len(q) > 1 /\ q[1] = "targets"})
    [] cmd.op = "add-way" -> {<<"targets", cmd.target, "ways", w>> : w \in cmd.ways}
    [] cmd.op = "add-com-plugin" -> {<<"complugins">>, <<"complugins", cmd.plugin>>}
    [] cmd.op = "add-event-plugin" -> {<<"eventhandlers">>} \cup New(c, cmd.items)

-----------------------------------------------------------------------------
(* main, one action for every kind of argument.                            *)

(* the file to which changes are to go: named later, after -ic *)
Asked(p) == IF proc[p].load THEN proc[p].path ELSE None

(* -At, -Aw, -It, -Acp, -Aep; the first one forgets save = 1 *)
AddUnsaved(p) == LET c == proc[p].cfg new == Added(c, Cmd(p)) IN
  /\ proc[p].pc = "main" /\ Does(p, Adds) /\ Possible(c, Cmd(p))
  /\ Become(p, [proc[p] EXCEPT !.cfg = c \cup new, !.i = @ + 1,
                               !.asked = @ \cup {<<Asked(p), q>> : q \in new}])
  /\ UNCHANGED <<dir, data, History>>

Add(p) == LET c == proc[p].cfg new == Added(c, Cmd(p)) IN
  /\ proc[p].pc = "main" /\ Does(p, Adds) /\ Possible(c, Cmd(p))
  /\ Become(p, [proc[p] EXCEPT !.cfg = c \cup new, !.i = @ + 1, !.save = TRUE,
                               !.asked = @ \cup {<<Asked(p), q>> : q \in new}])
  /\ UNCHANGED <<dir, data, History>>

(* -T, -G *)
List(p) ==
  /\ proc[p].pc = "main" /\ Does(p, {"list-targets", "list-groups"})
  /\ Possible(proc[p].cfg, Cmd(p))
  /\ Become(p, [proc[p] EXCEPT !.i = @ + 1])
  /\ UNCHANGED <<dir, data, History>>

(* nothing is left to save *)
Saved(p) == \/ proc[p].pc = "saved"
            \/ proc[p].pc = "main" /\ ~proc[p].save

(* an exception nobody catches, or a null cfg that is dereferenced *)
Abort(p) ==
  /\ \/ /\ proc[p].pc = "main"
        /\ Does(p, Adds \cup {"list-targets", "list-groups", "export-target"})
        /\ ~Possible(proc[p].cfg, Cmd(p))
     \/ /\ Saved(p) /\ Does(p, {"config"})
        /\ proc[p].load /\ ~Readable(Cmd(p).file)
  /\ Go(p, "aborted")
  /\ UNCHANGED <<dir, data, History>>

(* an argument without its value: nothing is saved *)
TooFew(p) ==
  /\ proc[p].pc = "main" /\ Does(p, {"too-few"})
  /\ Go(p, "failed")
  /\ UNCHANGED <<dir, data, History>>

(* -ic, -is, -c after changes, and the end of main *)
SaveFirst(p) ==
  /\ proc[p].pc = "main" /\ proc[p].save
  /\ \/ Does(p, Inits)
     \/ proc[p].load /\ Does(p, {"config"})
     \/ proc[p].i > Len(proc[p].line)
  /\ Go(p, "open")
  /\ UNCHANGED <<dir, data, History>>

InitCfg(p) ==
  /\ Saved(p) /\ Does(p, Inits)
  /\ Become(p, [proc[p] EXCEPT !.pc = "main", !.i = @ + 1, !.save = TRUE, !.load = FALSE,
                  !.asked = {a \in @ : a[1] # None},
                  !.cfg = IF Cmd(p).op = "init-client" THEN {<<"targets">>} ELSE {}])
  /\ UNCHANGED <<dir, data, History>>

Others(p, f) == \E q \in Procs \ {p} : proc[q].pc \notin Over /\ proc[q].path = f
Race(p, f) == raced' = IF Others(p, f) THEN raced \cup {f} ELSE raced

(* -c, -C and -S: the file is read *)
ReadCfg(p) == LET f == Cmd(p).file IN
  /\ Saved(p) /\ Does(p, {"config"}) /\ proc[p].load /\ Readable(f)
  /\ Become(p, [proc[p] EXCEPT !.pc = "main", !.i = @ + 1, !.save = FALSE,
                               !.cfg = Content(f), !.path = f])
  /\ Race(p, f)
  /\ UNCHANGED <<dir, data, want, mixed, failed, faults>>

(* ... or, after -ic or -is, it is to be replaced: what was asked for in it *)
(* before is void                                                           *)
NameCfg(p) == LET f == Cmd(p).file IN
  /\ proc[p].pc = "main" /\ Does(p, {"config"}) /\ ~proc[p].load
  /\ proc' = [q \in Procs |-> LET kept == {a \in proc[q].asked : a[1] # f} IN
                IF q # p THEN [proc[q] EXCEPT !.asked = kept]
                ELSE [proc[p] EXCEPT !.i = @ + 1, !.load = TRUE, !.path = f,
                        !.asked = {IF a[1] = None THEN <<f, a[2]>> ELSE a : a \in kept}]]
  /\ want' = [want EXCEPT ![f] = {}]
  /\ Race(p, f)
  /\ UNCHANGED <<dir, data, mixed, failed, faults>>

Return0(p) ==
  /\ proc[p].i > Len(proc[p].line) /\ Saved(p)
  /\ Go(p, "done")
  /\ want' = [f \in CfgFiles |-> want[f] \cup {a[2] : a \in {b \in proc[p].asked : b[1] = f}}]
  /\ UNCHANGED <<dir, data, raced, mixed, failed, faults>>

-----------------------------------------------------------------------------
(* saveCfg                                                                 *)

(* the text goes to the file itself *)
TmpInPlace(p) == <<proc[p].path, "">>

Tmp(p) == <<proc[p].path, "_tmp">>
Free == CHOOSE k \in Inodes : k \notin Range(dir) \cup {proc[p].fd : p \in Procs}

(* saveCfg comes back to main, whatever happened in it *)
Returned(p) == [proc[p] EXCEPT !.pc = "saved", !.fd = None, !.part = FALSE]

(* fopen truncates what is there *)
Open(p) == LET k == IF dir[Tmp(p)] = None THEN Free ELSE dir[Tmp(p)] IN
  /\ proc[p].pc = "open" /\ proc[p].path # None
  /\ dir' = [dir EXCEPT ![Tmp(p)] = k]
  /\ data' = [data EXCEPT ![k] = Holds("empty", {}, None)]
  /\ Become(p, [proc[p] EXCEPT !.pc = "write", !.fd = k])
  /\ mixed' = mixed \cup {f \in {proc[p].path} :
                 \E q \in Procs \ {p} : proc[q].pc \in Saving /\ proc[q].path = f}
  /\ failed' = failed \cup {f \in {proc[p].path} : ~proc[p].load}
  /\ UNCHANGED <<want, raced, faults>>

(* "_tmp" is renamed to "", which is no name *)
SaveNowhere(p) ==
  /\ proc[p].pc = "open" /\ proc[p].path = None
  /\ Become(p, Returned(p))
  /\ UNCHANGED <<dir, data, History>>

(* fwrite: a text longer than the buffer is partly written *)
Tear(p) == data' = [data EXCEPT ![proc[p].fd] = Holds("torn", {}, p)]

Write(p) ==
  /\ proc[p].pc = "write"
  /\ \/ Become(p, [proc[p] EXCEPT !.pc = "close"]) /\ UNCHANGED data
     \/ Become(p, [proc[p] EXCEPT !.pc = "close", !.part = TRUE]) /\ Tear(p)
  /\ UNCHANGED <<dir, History>>

(* fclose writes the rest; the tail of a longer text after it is not parsed.  *)
(* When the first part was truncated or overwritten, the whole may be lost.   *)
CloseCfg(p) == LET k == proc[p].fd IN
  /\ proc[p].pc = "close"
  /\ \/ data' = [data EXCEPT ![k] = Holds("whole", proc[p].cfg, None)]
     \/ proc[p].part /\ data[k] # Holds("torn", {}, p) /\ Tear(p)
  /\ Go(p, "rename")
  /\ UNCHANGED <<dir, History>>

(* fopen, fwrite or fclose fails: a message, and main goes on *)
Fault(p) == faults < MaxFaults /\ faults' = faults + 1

(* as if the answers were not looked at *)
SaveFailsOn(p) ==
  /\ Fault(p) /\ proc[p].pc \in {"write", "close"}
  /\ Tear(p)
  /\ Go(p, IF proc[p].pc = "close" THEN "rename" ELSE "close")
  /\ failed' = failed \cup {proc[p].path}
  /\ UNCHANGED <<dir, want, raced, mixed>>

SaveFails(p) ==
  /\ Fault(p) /\ proc[p].path # None
  /\ \/ proc[p].pc \in {"open", "rename"} /\ UNCHANGED data
     \/ proc[p].pc \in {"write", "close"} /\ (Tear(p) \/ UNCHANGED data)
  /\ Become(p, Returned(p))
  /\ failed' = failed \cup {proc[p].path}
  /\ UNCHANGED <<dir, want, raced, mixed>>

(* rename, whose answer is not looked at: another process may have done it *)
Rename(p) == LET f == proc[p].path IN
  /\ proc[p].pc = "rename"
  /\ dir' = IF dir[Tmp(p)] = None THEN dir
            ELSE [dir EXCEPT ![<<f, "">>] = dir[Tmp(p)], ![Tmp(p)] = None]
  /\ Become(p, Returned(p))
  /\ UNCHANGED <<data, History>>

(* the process is killed: what is in its buffer is lost *)
Kill(p) ==
  /\ Fault(p) /\ proc[p].pc \notin Over
  /\ Become(p, [proc[p] EXCEPT !.pc = "aborted", !.fd = None])
  /\ UNCHANGED <<dir, data, want, raced, mixed, failed>>

SaveCfg(p) == Open(p) \/ SaveNowhere(p) \/ Write(p) \/ CloseCfg(p) \/ SaveFails(p) \/ Rename(p)
Main(p) == Add(p) \/ List(p) \/ Abort(p) \/ TooFew(p) \/ SaveFirst(p) \/ InitCfg(p)
             \/ ReadCfg(p) \/ NameCfg(p) \/ Return0(p)

Next == \E p \in Procs : Main(p) \/ SaveCfg(p) \/ Kill(p)

Spec == Init /\ [][Next]_vars

-----------------------------------------------------------------------------
(* Types, and every configuration in memory or in a file is a tree: nothing *)
(* is added below what does not exist (the add functions of configtool).   *)
TypeOK ==
  /\ \A p \in Procs : LET r == proc[p] IN
       /\ r.pc \in {"main", "open", "saved"} \cup Saving \cup Over
       /\ r.line \in Lines /\ r.i \in 1..(Len(r.line) + 1)
       /\ r.cfg # None => IsTree(r.cfg)
       /\ r.path \in CfgFiles \cup {None} /\ {r.save, r.load, r.part} \subseteq BOOLEAN
       /\ r.fd \in IF r.pc \in Saving THEN Inodes ELSE {None}
  /\ dir \in [Names -> Inodes \cup {None}]
  /\ \A k \in Inodes : data[k].kind \in {"whole", "empty", "torn"} /\ IsTree(data[k].cfg)
  /\ raced \cup mixed \cup failed \subseteq CfgFiles /\ faults \in 0..MaxFaults

(* A configuration file is a whole configuration at every moment, whoever is *)
(* killed in saveCfg and whichever write fails in it, unless two processes   *)
(* were in saveCfg for it at once and shared the "_tmp" file.                *)
FileIsWhole == \A f \in CfgFiles \ mixed : Readable(f)

(* A file changes in one step, by the rename of one process, to what that     *)
(* process has in memory: opening, writing and failing change no file but    *)
(* "_tmp", of which nothing is ever taken over but one process's own text,   *)
(* unless two processes were in saveCfg for it at once.                      *)
ChangedByRename ==
  \A f \in CfgFiles \ mixed' : Content(f)' # Content(f) =>
    \E p \in Procs : proc[p].pc = "rename" /\ proc[p].path = f /\ Content(f)' = proc[p].cfg
ReplacedWhole == [][ChangedByRename]_vars

(* What a process that returned 0 was asked to add is in the file and stays  *)
(* there through the runs of later processes and through those that are      *)
(* killed, as long as main's save and load flags are right: except when two  *)
(* processes worked on the file at once, the save failed (which main does    *)
(* not report), or -ic or -is was not followed by a name.                    *)
ChangesArrive == \A f \in CfgFiles \ (raced \cup failed) : Readable(f) /\ want[f] \subseteq Content(f)
=============================================================================
