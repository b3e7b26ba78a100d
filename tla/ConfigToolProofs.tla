---------------------------- MODULE ConfigToolProofs ----------------------------
(***************************************************************************)
(* What holds of the configuration files for any number of processes, any  *)
(* command lines, and any number of faults.                                *)
(***************************************************************************)
EXTENDS ConfigTool, FiniteSetTheorems, FunctionTheorems, TLAPS

Live == {p \in Procs : proc[p].pc \notin Over}
Savers(f) == {p \in Procs : proc[p].pc \in Saving /\ proc[p].path = f}

Places == {"main", "open", "saved"} \cup Saving \cup Over

IsProc(r) ==
    /\ r = [pc |-> r.pc, line |-> r.line, i |-> r.i, cfg |-> r.cfg, path |-> r.path, save |-> r.save,
            load |-> r.load, fd |-> r.fd, part |-> r.part, asked |-> r.asked]
    /\ r.pc \in Places
    /\ r.line \in Lines /\ r.i \in Nat \ {0}
    /\ r.path \in CfgFiles \cup {None} /\ r.load \in BOOLEAN /\ r.save \in BOOLEAN /\ r.part \in BOOLEAN
    /\ IF r.pc \in Saving THEN r.path # None /\ r.fd \in Inodes ELSE r.fd = None
    /\ r.pc \in {"main", "open", "saved", "write"} => r.part = FALSE

ProcsInv == proc = [p \in Procs |-> proc[p]] /\ \A p \in Procs : IsProc(proc[p])

\* No two names share an inode, and a process writes to none of the files of another name.
NamesInv ==
    /\ dir \in [Names -> Inodes \cup {None}] /\ data = [k \in Inodes |-> data[k]]
    /\ \A m, n \in Names : dir[m] = dir[n] /\ dir[m] # None => m = n
    /\ \A f \in CfgFiles : dir[<<f, "">>] # None
    /\ \A p \in Procs, f \in CfgFiles, x \in {"", "_tmp"} :
           proc[p].pc \in Saving /\ proc[p].path # f => dir[<<f, x>>] # proc[p].fd

\* How far the one process is that saves f.
Progress(p, f) ==
    LET r == proc[p]
    IN  /\ r.fd = dir[<<f, "_tmp">>]
        /\ r.pc = "close" /\ r.part => data[r.fd] = Holds("torn", {}, p)
        /\ r.pc = "rename" => data[r.fd] = Holds("whole", r.cfg, None)

WholeInv ==
    \A f \in CfgFiles \ mixed :
        /\ data[dir[<<f, "">>]].kind = "whole"
        /\ \A p \in Savers(f) : Savers(f) = {p} /\ Progress(p, f)

RaceInv ==
    /\ \A p, q \in Live : p # q /\ proc[p].path = proc[q].path => proc[p].path \in raced \cup {None}
    /\ mixed \subseteq raced

FlagsInv ==
    \A p \in Live : LET r == proc[p] IN
        /\ ~r.load => r.save
        /\ r.path = None /\ r.load => r.cfg = None
        /\ \A a \in r.asked : a[1] = None => ~r.load /\ a[2] \in r.cfg

\* The changes of p to f are in its configuration, and are going to be saved.
Unsaved(p, f) == proc[p].path = f /\ proc[p].load /\ proc[p].save /\ proc[p].pc # "saved"

\* Nothing asked for is lost: not what is promised, not what live processes have added,
\* and neither from what a process will save in its place.
Arrives(f) ==
    /\ want[f] \subseteq Content(f)
    /\ \A p \in Savers(f) : proc[p].load
    /\ \A p \in Live : \A a \in proc[p].asked : a[1] = f => a[2] \in Content(f) \/ Unsaved(p, f)
    /\ \A p \in Live : proc[p].path = f /\ proc[p].load =>
           /\ want[f] \subseteq proc[p].cfg
           /\ \A q \in Live : \A a \in proc[q].asked : a[1] = f => a[2] \in proc[p].cfg

ArriveInv ==
    /\ want = [f \in CfgFiles |-> want[f]]
    /\ \A f \in CfgFiles \ (raced \cup failed) : Arrives(f)

FileInv == ProcsInv /\ NamesInv /\ WholeInv
Inv == FileInv /\ RaceInv /\ FlagsInv /\ ArriveInv

-----------------------------------------------------------------------------
(* What the steps do to a process.                                         *)

LEMMA Becomes ==
    ASSUME ProcsInv, NEW p \in Procs, NEW r, IsProc(r), Become(p, r)
    PROVE  ProcsInv' /\ proc'[p] = r /\ \A q \in Procs \ {p} : proc'[q] = proc[q]
<1>1. proc' = [proc EXCEPT ![p] = r]
  BY DEF Become
<1>2. proc' = [q \in Procs |-> IF q = p THEN r ELSE proc[q]]
  BY <1>1 DEF ProcsInv
<1>3. proc' = [q \in Procs |-> proc'[q]] /\ proc'[p] = r /\ \A q \in Procs \ {p} : proc'[q] = proc[q]
  BY <1>2
<1>4. \A q \in Procs : IsProc(proc'[q])
  BY <1>3 DEF ProcsInv
<1> QED
  BY <1>3, <1>4 DEF ProcsInv, IsProc

\* The command that names a file names one of the configuration files.
LEMMA NamesFile ==
    ASSUME ProcsInv, NEW p \in Procs, Does(p, {"config"})
    PROVE  Cmd(p).file \in CfgFiles
<1>1. IsProc(proc[p])
  BY DEF ProcsInv
<1>2. proc[p].line \in Lines /\ proc[p].i \in Nat \ {0}
  BY <1>1 DEF IsProc
<1>3. proc[p].line \in Seq(Range(proc[p].line)) /\ proc[p].i <= Len(proc[p].line)
  BY <1>2, ConfigToolOK DEF Does
<1>4. proc[p].i \in DOMAIN proc[p].line
  BY <1>2, <1>3
<1>5. Cmd(p) \in Range(proc[p].line) /\ Cmd(p).op = "config"
  BY <1>4 DEF Cmd, Range, Does
<1> QED
  BY <1>2, <1>5, ConfigToolOK

\* p elsewhere, with the same configuration.
At(p, pc, i, fd, part) ==
    [pc |-> pc, line |-> proc[p].line, i |-> i, cfg |-> proc[p].cfg, path |-> proc[p].path,
     save |-> proc[p].save, load |-> proc[p].load, fd |-> fd, part |-> part, asked |-> proc[p].asked]

LEMMA Elsewhere ==
    ASSUME ProcsInv, NEW p \in Procs
    PROVE  LET r == proc[p]
           IN  /\ r = At(p, r.pc, r.i, r.fd, r.part)
               /\ \A x : [r EXCEPT !.pc = x] = At(p, x, r.i, r.fd, r.part)
               /\ \A x : [r EXCEPT !.i = x] = At(p, r.pc, x, r.fd, r.part)
               /\ \A x, y : [r EXCEPT !.pc = x, !.fd = y] = At(p, x, r.i, y, r.part)
               /\ \A x : [r EXCEPT !.pc = x, !.part = TRUE] = At(p, x, r.i, r.fd, TRUE)
               /\ \A x, y : [r EXCEPT !.pc = x, !.fd = y, !.part = FALSE] = At(p, x, r.i, y, FALSE)
<1> DEFINE r == proc[p]
<1>1. IsProc(r)
  BY DEF ProcsInv
<1>2. r = At(p, r.pc, r.i, r.fd, r.part)
  BY <1>1 DEF IsProc, At
<1>3. \A x : [r EXCEPT !.pc = x] = At(p, x, r.i, r.fd, r.part)
  BY <1>2 DEF At
<1>4. \A x : [r EXCEPT !.i = x] = At(p, r.pc, x, r.fd, r.part)
  BY <1>2 DEF At
<1>5. ASSUME NEW x, NEW y
      PROVE  [r EXCEPT !.pc = x, !.fd = y] = At(p, x, r.i, y, r.part)
  <2>1. PICK s : s = [r EXCEPT !.pc = x, !.fd = y]
    OBVIOUS
  <2>2. s = At(p, x, r.i, y, r.part)
    BY <1>2, <2>1 DEF At
  <2> QED
    BY <2>1, <2>2
<1>6. ASSUME NEW x
      PROVE  [r EXCEPT !.pc = x, !.part = TRUE] = At(p, x, r.i, r.fd, TRUE)
  <2>1. PICK s : s = [r EXCEPT !.pc = x, !.part = TRUE]
    OBVIOUS
  <2>2. s = At(p, x, r.i, r.fd, TRUE)
    BY <1>2, <2>1 DEF At
  <2> QED
    BY <2>1, <2>2
<1>7. ASSUME NEW x, NEW y
      PROVE  [r EXCEPT !.pc = x, !.fd = y, !.part = FALSE] = At(p, x, r.i, y, FALSE)
  <2>1. PICK s : s = [r EXCEPT !.pc = x, !.fd = y, !.part = FALSE]
    OBVIOUS
  <2>2. s = At(p, x, r.i, y, FALSE)
    BY <1>2, <2>1 DEF At
  <2> QED
    BY <2>1, <2>2
<1> QED
  BY <1>2, <1>3, <1>4, <1>5, <1>6, <1>7

\* What p works on, and all of the others, are as they were.
Kept(p) ==
    /\ \A q \in Procs \ {p} : proc'[q] = proc[q]
    /\ proc'[p].path = proc[p].path /\ proc'[p].cfg = proc[p].cfg /\ proc'[p].asked = proc[p].asked
    /\ proc'[p].save = proc[p].save /\ proc'[p].load = proc[p].load

LEMMA Moves ==
    ASSUME ProcsInv, NEW p \in Procs, NEW pc \in Places, NEW i \in Nat \ {0}, NEW fd, NEW part \in BOOLEAN,
           Become(p, At(p, pc, i, fd, part)),
           IF pc \in Saving THEN proc[p].path # None /\ fd \in Inodes ELSE fd = None,
           pc \in {"main", "open", "saved", "write"} => part = FALSE
    PROVE  ProcsInv' /\ Kept(p) /\ proc'[p].pc = pc /\ proc'[p].fd = fd /\ proc'[p].part = part
<1> DEFINE r == At(p, pc, i, fd, part)
<1>1. IsProc(proc[p])
  BY DEF ProcsInv
<1>2. IsProc(r)
  BY <1>1 DEF IsProc, At
<1>3. ProcsInv' /\ proc'[p] = r /\ \A q \in Procs \ {p} : proc'[q] = proc[q]
  <2> HIDE DEF r
  <2> QED
    BY <1>2, Becomes DEF r
<1> QED
  BY <1>3 DEF Kept, At

\* The steps of main that change no configuration, and the end of a process.
LEMMA MainMoves ==
    ASSUME ProcsInv, NEW p \in Procs,
           \/ List(p) \/ Abort(p) \/ TooFew(p) \/ SaveFirst(p) \/ Return0(p) \/ SaveNowhere(p) \/ Kill(p)
    PROVE  /\ ProcsInv' /\ Kept(p) /\ UNCHANGED <<dir, data, raced, mixed, failed>>
           /\ UNCHANGED want \/ (Return0(p) /\ proc'[p].pc \in Over)
           /\ \/ proc'[p].pc \in Over
              \/ proc[p].pc = "main" /\ proc'[p].pc \in {"main", "open"}
              \/ proc[p].pc = "open" /\ proc[p].path = None /\ proc'[p].pc = "saved"
<1> DEFINE r == proc[p]
<1>1. IsProc(r)
  BY DEF ProcsInv
<1>2. r.i \in Nat \ {0} /\ r.i + 1 \in Nat \ {0} /\ r.part \in BOOLEAN /\ r.pc \in Places
  BY <1>1 DEF IsProc
<1>3. r.pc \in {"main", "saved", "open"} => r.fd = None /\ r.part = FALSE
  BY <1>1 DEF IsProc, Saving
<1>4. Over \subseteq Places /\ Over \cap (Saving \cup {"main", "open", "saved", "write"}) = {}
  BY DEF Places, Over, Saving
<1>5. CASE List(p)
  <2>1. Become(p, At(p, "main", r.i + 1, r.fd, r.part)) /\ r.pc = "main"
    BY <1>5, Elsewhere DEF List
  <2> QED
    BY <1>2, <1>3, <1>5, <2>1, Moves DEF List, History, Saving, Places, Over
<1>6. CASE Abort(p) \/ TooFew(p) \/ Return0(p)
  <2>1. PICK x \in Over : Become(p, At(p, x, r.i, r.fd, r.part))
    BY <1>6, Elsewhere DEF Abort, TooFew, Return0, Go, Over
  <2>2. r.pc \in {"main", "saved"}
    BY <1>6 DEF Abort, TooFew, Return0, Saved
  <2>3. ProcsInv' /\ Kept(p) /\ proc'[p].pc = x
    BY <1>2, <1>3, <1>4, <2>1, <2>2, Moves
  <2> QED
    BY <1>6, <2>3 DEF Abort, TooFew, Return0, History
<1>7. CASE SaveFirst(p)
  <2>1. Become(p, At(p, "open", r.i, r.fd, r.part)) /\ r.pc = "main"
    BY <1>7, Elsewhere DEF SaveFirst, Go
  <2> QED
    BY <1>2, <1>3, <1>7, <2>1, Moves DEF SaveFirst, History, Saving, Places
<1>8. CASE SaveNowhere(p)
  <2>1. Become(p, At(p, "saved", r.i, None, FALSE)) /\ r.pc = "open" /\ r.path = None
    BY <1>8, Elsewhere DEF SaveNowhere, Returned
  <2> QED
    BY <1>2, <1>3, <1>8, <2>1, Moves DEF SaveNowhere, History, Saving, Places
<1>9. CASE Kill(p)
  <2>1. Become(p, At(p, "aborted", r.i, None, r.part))
    BY <1>9, Elsewhere DEF Kill
  <2>2. ProcsInv' /\ Kept(p) /\ proc'[p].pc = "aborted"
    BY <1>2, <2>1, Moves DEF Saving, Places, Over
  <2> QED
    BY <1>9, <2>2 DEF Kill, Over
<1> QED
  BY <1>5, <1>6, <1>7, <1>8, <1>9

\* Some inode has no name, and nobody writes to it.
LEMMA FreeIsFree ==
    ASSUME ProcsInv, NamesInv, NEW p \in Procs, proc[p].pc = "open", proc[p].path # None, dir[Tmp(p)] = None
    PROVE  Free \in Inodes /\ \A n \in Names : dir[n] # Free /\ \A q \in Procs : proc[q].fd # Free
<1> DEFINE Used == {dir[n] : n \in Names \ {Tmp(p)}}
           Written == {proc[q].fd : q \in Procs \ {p}}
           d == [n \in Names \ {Tmp(p)} |-> dir[n]]
           w == [q \in Procs \ {p} |-> proc[q].fd]
           c == Cardinality(CfgFiles)
<1>1. IsProc(proc[p]) /\ proc[p].fd = None
  BY DEF ProcsInv, IsProc, Saving
<1>2. Tmp(p) \in Names
  BY <1>1 DEF IsProc, Tmp, Names
<1>3. IsFiniteSet({"", "_tmp"}) /\ Cardinality({"", "_tmp"}) = 2
  <2>1. ASSUME NEW S, NEW x, IsFiniteSet(S), Cardinality(S) = 1, x \notin S
        PROVE  IsFiniteSet(S \cup {x}) /\ Cardinality(S \cup {x}) = 2
    BY <2>1, FS_AddElement
  <2>2. IsFiniteSet({""}) /\ Cardinality({""}) = 1
    BY FS_Singleton
  <2>3. {"", "_tmp"} = {""} \cup {"_tmp"} /\ "_tmp" \notin {""}
    OBVIOUS
  <2>4. IsFiniteSet({""} \cup {"_tmp"}) /\ Cardinality({""} \cup {"_tmp"}) = 2
    BY <2>1, <2>2, <2>3, Zenon
  <2> QED
    BY <2>3, <2>4, Zenon
<1>4. IsFiniteSet(Names) /\ Cardinality(Names) = c * 2 /\ c \in Nat
  BY <1>3, ConfigToolOK, FS_Product, FS_CardinalityType DEF Names
<1>5. IsFiniteSet(Names \ {Tmp(p)}) /\ Cardinality(Names \ {Tmp(p)}) = c * 2 - 1
  BY <1>2, <1>4, FS_RemoveElement
<1>6. IsFiniteSet(Procs \ {p}) /\ Cardinality(Procs \ {p}) = Cardinality(Procs) - 1 /\ Cardinality(Procs) \in Nat
  BY ConfigToolOK, FS_RemoveElement, FS_CardinalityType
<1>7. IsFiniteSet(Used) /\ Cardinality(Used) <= c * 2 - 1
  <2>1. d \in Surjection(Names \ {Tmp(p)}, Used)
    BY DEF Surjection
  <2> QED
    BY <1>5, <2>1, FS_Surjection
<1>8. IsFiniteSet(Written) /\ Cardinality(Written) <= Cardinality(Procs) - 1
  <2>1. w \in Surjection(Procs \ {p}, Written)
    BY DEF Surjection
  <2> QED
    BY <1>6, <2>1, FS_Surjection
<1>9. IsFiniteSet(Used \cup Written) /\ Cardinality(Used \cup Written) <= c * 2 + Cardinality(Procs) - 2
  <2>1. /\ Cardinality(Used) \in Nat /\ Cardinality(Written) \in Nat /\ Cardinality(Used \cap Written) \in Nat
        /\ IsFiniteSet(Used \cup Written)
        /\ Cardinality(Used \cup Written) = Cardinality(Used) + Cardinality(Written) - Cardinality(Used \cap Written)
    BY <1>7, <1>8, FS_Union, FS_Intersection, FS_CardinalityType
  <2> QED
    BY <1>4, <1>6, <1>7, <1>8, <2>1
<1>10. IsFiniteSet(Inodes) /\ Cardinality(Inodes) = c * 2 + Cardinality(Procs)
  <2>1. 2 * c + Cardinality(Procs) \in Nat
    BY <1>4, <1>6
  <2>2. Cardinality(Inodes) = 2 * c + Cardinality(Procs) /\ IsFiniteSet(Inodes)
    BY <2>1, FS_Interval DEF Inodes
  <2> QED
    BY <1>4, <2>2
<1>11. ~(Inodes \subseteq Used \cup Written)
  <2>1. Cardinality(Used \cup Written) \in Nat
    BY <1>9, FS_CardinalityType
  <2> HIDE DEF Used, Written, c
  <2>2. ASSUME Inodes \subseteq Used \cup Written PROVE FALSE
    <3>1. Cardinality(Inodes) <= Cardinality(Used \cup Written)
      BY <1>9, <2>2, FS_Subset
    <3> QED
      BY <1>4, <1>6, <1>9, <1>10, <2>1, <3>1
  <2> QED
    BY <2>2
<1>12. Inodes \cap {None} = {}
  BY <1>4, <1>6, ConfigToolOK DEF Inodes
<1>13. \E k \in Inodes : k \notin Range(dir) \cup {proc[q].fd : q \in Procs}
  <2>1. PICK k \in Inodes : k \notin Used \cup Written
    BY <1>11
  <2>2. k # None
    BY <1>12, <2>1
  <2>3. \A n \in Names : dir[n] # k
    BY <2>1, <2>2
  <2>4. \A q \in Procs : proc[q].fd # k
    BY <1>1, <2>1, <2>2
  <2>5. k \notin Range(dir)
    BY <2>3 DEF Range, NamesInv
  <2> QED
    BY <2>4, <2>5
<1>14. Free \in Inodes /\ Free \notin Range(dir) \cup {proc[q].fd : q \in Procs}
  BY <1>13 DEF Free
<1> QED
  BY <1>14 DEF Range, NamesInv

LEMMA OpenMoves ==
    ASSUME ProcsInv, NamesInv, NEW p \in Procs, Open(p)
    PROVE  /\ ProcsInv' /\ Kept(p) /\ UNCHANGED <<raced, want>>
           /\ proc[p].pc = "open" /\ proc'[p].pc = "write" /\ proc[p].path \in CfgFiles
           /\ proc'[p].fd \in Inodes /\ proc'[p].fd \in {dir[Tmp(p)], Free}
           /\ proc'[p].fd = IF dir[Tmp(p)] = None THEN Free ELSE dir[Tmp(p)]
           /\ dir' = [dir EXCEPT ![Tmp(p)] = proc'[p].fd]
           /\ data' = [data EXCEPT ![proc'[p].fd] = Holds("empty", {}, None)]
<1> DEFINE k == IF dir[Tmp(p)] = None THEN Free ELSE dir[Tmp(p)]
<1>1. IsProc(proc[p]) /\ proc[p].pc = "open" /\ proc[p].path # None
  BY DEF ProcsInv, Open
<1>2. /\ proc[p].i \in Nat \ {0} /\ proc[p].part = FALSE /\ proc[p].path \in CfgFiles
      /\ Tmp(p) \in Names
  BY <1>1 DEF IsProc, Tmp, Names
<1>3. k \in Inodes
  BY <1>1, <1>2, FreeIsFree DEF NamesInv
<1> HIDE DEF k
<1>4. Become(p, At(p, "write", proc[p].i, k, proc[p].part))
  <2>1. Become(p, [proc[p] EXCEPT !.pc = "write", !.fd = k])
    BY DEF Open, k
  <2> QED
    BY <2>1, Elsewhere
<1>5. ProcsInv' /\ Kept(p) /\ proc'[p].pc = "write" /\ proc'[p].fd = k
  BY <1>1, <1>2, <1>3, <1>4, Moves DEF Places, Saving
<1> QED
  BY <1>1, <1>2, <1>3, <1>5 DEF Open, k

\* fwrite, fclose, and what fails in them, change one inode at most.
LEMMA WriteMoves ==
    ASSUME ProcsInv, NEW p \in Procs, Write(p) \/ CloseCfg(p)
    PROVE  /\ ProcsInv' /\ Kept(p) /\ UNCHANGED <<dir, want, raced, mixed, failed>>
           /\ proc[p].pc \in Saving /\ proc'[p].fd = proc[p].fd
           /\ \/ /\ proc[p].pc = "write" /\ proc'[p].pc = "close"
                 /\ \/ UNCHANGED data /\ proc'[p].part = FALSE
                    \/ Tear(p)
              \/ /\ proc[p].pc = "close" /\ proc'[p].pc = "rename"
                 /\ \/ data' = [data EXCEPT ![proc[p].fd] = Holds("whole", proc[p].cfg, None)]
                    \/ proc[p].part /\ data[proc[p].fd] # Holds("torn", {}, p) /\ Tear(p)
<1> DEFINE r == proc[p]
<1>1. IsProc(r) /\ r.pc \in {"write", "close"}
  BY DEF ProcsInv, Write, CloseCfg
<1>2. /\ r.i \in Nat \ {0} /\ r.path # None /\ r.fd \in Inodes /\ r.part \in BOOLEAN
      /\ r.pc = "write" => r.part = FALSE
      /\ "close" \in Places /\ "close" \in Saving /\ "rename" \in Places /\ "rename" \in Saving
  BY <1>1 DEF IsProc, Saving, Places
<1>3. CASE Write(p)
  <2>1. CASE Become(p, [r EXCEPT !.pc = "close"]) /\ UNCHANGED data
    <3>1. Become(p, At(p, "close", r.i, r.fd, r.part))
      BY <2>1, Elsewhere
    <3>2. ProcsInv' /\ Kept(p) /\ proc'[p].pc = "close" /\ proc'[p].fd = r.fd /\ proc'[p].part = r.part
      BY <1>2, <3>1, Moves
    <3> QED
      BY <1>2, <1>3, <2>1, <3>2 DEF Write, History, Saving
  <2>2. CASE Become(p, [r EXCEPT !.pc = "close", !.part = TRUE]) /\ Tear(p)
    <3>1. Become(p, At(p, "close", r.i, r.fd, TRUE))
      BY <2>2, Elsewhere
    <3>2. ProcsInv' /\ Kept(p) /\ proc'[p].pc = "close" /\ proc'[p].fd = r.fd
      BY <1>2, <3>1, Moves
    <3> QED
      BY <1>2, <1>3, <2>2, <3>2 DEF Write, History, Saving
  <2> QED
    BY <1>3, <2>1, <2>2 DEF Write
<1>4. CASE CloseCfg(p)
  <2>1. Become(p, At(p, "rename", r.i, r.fd, r.part)) /\ r.pc = "close"
    BY <1>4, Elsewhere DEF CloseCfg, Go
  <2>2. ProcsInv' /\ Kept(p) /\ proc'[p].pc = "rename" /\ proc'[p].fd = r.fd
    <3>1. PICK pc, i, fd, part : pc = "rename" /\ i = r.i /\ fd = r.fd /\ part = r.part
      OBVIOUS
    <3>2. /\ pc \in Places /\ pc \in Saving /\ pc \notin {"main", "open", "saved", "write"}
          /\ i \in Nat \ {0} /\ fd \in Inodes /\ part \in BOOLEAN /\ proc[p].path # None
      BY <1>2, <3>1
    <3>3. Become(p, At(p, pc, i, fd, part))
      BY <2>1, <3>1
    <3>4. ProcsInv' /\ Kept(p) /\ proc'[p].pc = pc /\ proc'[p].fd = fd
      BY <3>2, <3>3, Moves
    <3> QED
      BY <3>1, <3>4
  <2>3. UNCHANGED <<dir, want, raced, mixed, failed>>
    BY <1>4 DEF CloseCfg, History
  <2> QED
    BY <1>4, <2>1, <2>2, <2>3 DEF CloseCfg, Saving
<1> QED
  BY <1>3, <1>4

LEMMA ReturnMoves ==
    ASSUME ProcsInv, NEW p \in Procs, SaveFails(p) \/ Rename(p)
    PROVE  /\ ProcsInv' /\ Kept(p) /\ UNCHANGED <<want, raced, mixed>> /\ proc'[p].pc = "saved"
           /\ proc[p].path \in CfgFiles
           /\ \/ /\ UNCHANGED dir /\ failed' = failed \cup {proc[p].path}
                 /\ UNCHANGED data \/ (proc[p].pc \in Saving /\ Tear(p))
              \/ /\ proc[p].pc = "rename" /\ Rename(p) /\ UNCHANGED <<data, failed>>
<1> DEFINE r == proc[p]
<1>1. IsProc(r) /\ r.path # None
  BY DEF ProcsInv, SaveFails, Rename, IsProc, Saving
<1>2. r.i \in Nat \ {0} /\ r.path \in CfgFiles
  BY <1>1 DEF IsProc
<1>3. Become(p, At(p, "saved", r.i, None, FALSE))
  <2>1. Become(p, [r EXCEPT !.pc = "saved", !.fd = None, !.part = FALSE])
    BY DEF SaveFails, Rename, Returned
  <2> QED
    BY <2>1, Elsewhere
<1>4. ProcsInv' /\ Kept(p) /\ proc'[p].pc = "saved"
  BY <1>2, <1>3, Moves DEF Places, Saving
<1> QED
  BY <1>2, <1>4 DEF SaveFails, Rename, History, Saving

-----------------------------------------------------------------------------
(* The steps of main that change what p works on.                          *)

LEMMA ItsRecord ==
    ASSUME ProcsInv, NEW p \in Procs, proc[p].pc \in {"main", "saved"}
    PROVE  \E o, pc, line, i, cfg, path, save, load, asked :
               /\ o = proc[p] /\ pc = o.pc /\ line = o.line /\ i = o.i /\ cfg = o.cfg /\ path = o.path
               /\ save = o.save /\ load = o.load /\ asked = o.asked
               /\ line \in Lines /\ i \in Nat \ {0} /\ path \in CfgFiles \cup {None}
               /\ save \in BOOLEAN /\ load \in BOOLEAN
               /\ o = [pc |-> pc, line |-> line, i |-> i, cfg |-> cfg, path |-> path,
                     save |-> save, load |-> load, fd |-> None, part |-> FALSE, asked |-> asked]
<1>1. PICK o, pc, line, i, cfg, path, save, load, asked :
          /\ o = proc[p] /\ pc = o.pc /\ line = o.line /\ i = o.i /\ cfg = o.cfg /\ path = o.path
          /\ save = o.save /\ load = o.load /\ asked = o.asked
  OBVIOUS
<1>2. IsProc(o)
  BY <1>1 DEF ProcsInv
<1>3. o.fd = None /\ o.part = FALSE
  BY <1>1, <1>2 DEF IsProc, Saving
<1>4. /\ line \in Lines /\ i \in Nat \ {0} /\ path \in CfgFiles \cup {None}
      /\ save \in BOOLEAN /\ load \in BOOLEAN
  BY <1>1, <1>2 DEF IsProc
<1>5. o = [pc |-> o.pc, line |-> o.line, i |-> o.i, cfg |-> o.cfg, path |-> o.path, save |-> o.save,
           load |-> o.load, fd |-> o.fd, part |-> o.part, asked |-> o.asked]
  BY <1>2 DEF IsProc
<1>6. o = [pc |-> pc, line |-> line, i |-> i, cfg |-> cfg, path |-> path,
           save |-> save, load |-> load, fd |-> None, part |-> FALSE, asked |-> asked]
  BY <1>1, <1>3, <1>5
<1> QED
  BY <1>1, <1>4, <1>6

LEMMA InMain ==
    ASSUME NEW pc \in {"main", "saved"}, NEW line \in Lines, NEW i \in Nat \ {0}, NEW cfg,
           NEW path \in CfgFiles \cup {None}, NEW save \in BOOLEAN, NEW load \in BOOLEAN, NEW asked,
           NEW r, r = [pc |-> pc, line |-> line, i |-> i, cfg |-> cfg, path |-> path,
                     save |-> save, load |-> load, fd |-> None, part |-> FALSE, asked |-> asked]
    PROVE  /\ IsProc(r) /\ r.pc = pc /\ r.cfg = cfg /\ r.path = path
           /\ r.save = save /\ r.load = load /\ r.asked = asked
<1>1. /\ r.pc = pc /\ r.line = line /\ r.i = i /\ r.cfg = cfg /\ r.path = path /\ r.save = save
      /\ r.load = load /\ r.fd = None /\ r.part = FALSE /\ r.asked = asked
  OBVIOUS
<1>2. r = [pc |-> r.pc, line |-> r.line, i |-> r.i, cfg |-> r.cfg, path |-> r.path, save |-> r.save,
           load |-> r.load, fd |-> r.fd, part |-> r.part, asked |-> r.asked]
  BY <1>1
<1> QED
  BY <1>1, <1>2 DEF IsProc, Places, Saving, Over

LEMMA AddMoves ==
    ASSUME ProcsInv, NEW p \in Procs, Add(p)
    PROVE  /\ ProcsInv' /\ UNCHANGED <<dir, data, want, raced, mixed, failed>>
           /\ \A q \in Procs \ {p} : proc'[q] = proc[q]
           /\ proc[p].pc = "main" /\ proc'[p].pc = "main" /\ proc[p].cfg # None
           /\ proc'[p].path = proc[p].path /\ proc'[p].load = proc[p].load /\ proc'[p].save = TRUE
           /\ LET new == Added(proc[p].cfg, Cmd(p))
              IN  /\ proc'[p].cfg = proc[p].cfg \cup new
                  /\ proc'[p].asked = proc[p].asked \cup {<<Asked(p), q>> : q \in new}
<1> DEFINE new == Added(proc[p].cfg, Cmd(p))
           J == proc[p].i + 1
           C == proc[p].cfg \cup new
           A == proc[p].asked \cup {<<Asked(p), q>> : q \in new}
<1>1. proc[p].pc = "main" /\ proc[p].pc \in {"main", "saved"} /\ proc[p].cfg # None
  BY DEF Add, Possible
<1>2. PICK o, pc, line, i, cfg, path, save, load, asked :
          /\ o = proc[p] /\ pc = o.pc /\ line = o.line /\ i = o.i /\ cfg = o.cfg /\ path = o.path
          /\ save = o.save /\ load = o.load /\ asked = o.asked
          /\ line \in Lines /\ i \in Nat \ {0} /\ path \in CfgFiles \cup {None}
          /\ save \in BOOLEAN /\ load \in BOOLEAN
          /\ o = [pc |-> pc, line |-> line, i |-> i, cfg |-> cfg, path |-> path,
                save |-> save, load |-> load, fd |-> None, part |-> FALSE, asked |-> asked]
  BY <1>1, ItsRecord
<1> HIDE DEF J, C, A
<1>a. PICK yes, no : yes = TRUE /\ no = FALSE
  BY Zenon
<1>3. PICK r, j, c, a : r = [o EXCEPT !.cfg = c, !.i = j, !.save = yes, !.asked = a] /\ j = J /\ c = C /\ a = A
  OBVIOUS
<1>4. Become(p, r)
  BY <1>2, <1>3, <1>a DEF Add, J, C, A
<1>5. r = [pc |-> pc, line |-> line, i |-> j, cfg |-> c, path |-> path,
         save |-> yes, load |-> load, fd |-> None, part |-> FALSE, asked |-> a]
  <2>1. o = [pc |-> pc, line |-> line, i |-> i, cfg |-> cfg, path |-> path,
             save |-> save, load |-> load, fd |-> None, part |-> FALSE, asked |-> asked]
    BY <1>2
  <2>2. r = [o EXCEPT !.cfg = c, !.i = j, !.save = yes, !.asked = a]
    BY <1>3
  <2> QED
    BY <2>1, <2>2, Zenon
<1>b. yes \in BOOLEAN /\ no \in BOOLEAN
  BY <1>a, Zenon
<1>c. line \in Lines /\ path \in CfgFiles \cup {None} /\ save \in BOOLEAN /\ load \in BOOLEAN
  BY <1>2
<1>6. j \in Nat \ {0} /\ pc \in {"main", "saved"}
  BY <1>1, <1>2, <1>3 DEF J, C, A
<1>7. /\ IsProc(r) /\ r.pc = pc /\ r.cfg = c /\ r.path = path
      /\ r.save = yes /\ r.load = load /\ r.asked = a
  BY <1>5, <1>6, <1>b, <1>c, InMain, SMTT(30)
<1>8. ProcsInv' /\ proc'[p] = r /\ \A q \in Procs \ {p} : proc'[q] = proc[q]
  BY <1>4, <1>7, Becomes
<1> QED
  BY <1>1, <1>2, <1>3, <1>7, <1>8, <1>a DEF Add, History, J, C, A

LEMMA InitMoves ==
    ASSUME ProcsInv, NEW p \in Procs, InitCfg(p)
    PROVE  /\ ProcsInv' /\ UNCHANGED <<dir, data, want, raced, mixed, failed>>
           /\ \A q \in Procs \ {p} : proc'[q] = proc[q]
           /\ Saved(p) /\ proc[p].pc \in {"main", "saved"} /\ proc'[p].pc = "main"
           /\ proc'[p].path = proc[p].path /\ proc'[p].load = FALSE /\ proc'[p].save = TRUE
           /\ proc'[p].asked = {x \in proc[p].asked : x[1] # None}
<1> DEFINE J == proc[p].i + 1
           C == IF Cmd(p).op = "init-client" THEN {<<"targets">>} ELSE {}
           A == {x \in proc[p].asked : x[1] # None}
<1>1. proc[p].pc \in {"main", "saved"}
  BY DEF InitCfg, Saved
<1>2. PICK o, pc, line, i, cfg, path, save, load, asked :
          /\ o = proc[p] /\ pc = o.pc /\ line = o.line /\ i = o.i /\ cfg = o.cfg /\ path = o.path
          /\ save = o.save /\ load = o.load /\ asked = o.asked
          /\ line \in Lines /\ i \in Nat \ {0} /\ path \in CfgFiles \cup {None}
          /\ save \in BOOLEAN /\ load \in BOOLEAN
          /\ o = [pc |-> pc, line |-> line, i |-> i, cfg |-> cfg, path |-> path,
                save |-> save, load |-> load, fd |-> None, part |-> FALSE, asked |-> asked]
  BY <1>1, ItsRecord
<1> HIDE DEF J, C, A
<1>a. PICK yes, no : yes = TRUE /\ no = FALSE
  BY Zenon
<1>3. PICK r, j, c, a : r = [o EXCEPT !.pc = "main", !.i = j, !.save = yes, !.load = no, !.asked = a, !.cfg = c] /\ j = J /\ c = C /\ a = A
  OBVIOUS
<1>4. Become(p, r)
  BY <1>2, <1>3, <1>a DEF InitCfg, J, C, A
<1>5. r = [pc |-> "main", line |-> line, i |-> j, cfg |-> c, path |-> path,
         save |-> yes, load |-> no, fd |-> None, part |-> FALSE, asked |-> a]
  <2>1. o = [pc |-> pc, line |-> line, i |-> i, cfg |-> cfg, path |-> path,
             save |-> save, load |-> load, fd |-> None, part |-> FALSE, asked |-> asked]
    BY <1>2
  <2>2. r = [o EXCEPT !.pc = "main", !.i = j, !.save = yes, !.load = no, !.asked = a, !.cfg = c]
    BY <1>3
  <2> QED
    BY <2>1, <2>2, Zenon
<1>b. yes \in BOOLEAN /\ no \in BOOLEAN
  BY <1>a, Zenon
<1>c. line \in Lines /\ path \in CfgFiles \cup {None} /\ save \in BOOLEAN /\ load \in BOOLEAN
  BY <1>2
<1>6. j \in Nat \ {0} /\ pc \in {"main", "saved"}
  BY <1>1, <1>2, <1>3 DEF J, C, A
<1>7. /\ IsProc(r) /\ r.pc = "main" /\ r.cfg = c /\ r.path = path
      /\ r.save = yes /\ r.load = no /\ r.asked = a
  BY <1>5, <1>6, <1>b, <1>c, InMain, SMTT(30)
<1>8. ProcsInv' /\ proc'[p] = r /\ \A q \in Procs \ {p} : proc'[q] = proc[q]
  BY <1>4, <1>7, Becomes
<1> QED
  BY <1>1, <1>2, <1>3, <1>7, <1>8, <1>a DEF InitCfg, History, J, C, A

LEMMA ReadMoves ==
    ASSUME ProcsInv, NEW p \in Procs, ReadCfg(p)
    PROVE  LET f == Cmd(p).file
           IN  /\ ProcsInv' /\ UNCHANGED <<dir, data, want, mixed, failed>> /\ f \in CfgFiles
               /\ \A q \in Procs \ {p} : proc'[q] = proc[q]
               /\ Race(p, f) /\ Saved(p) /\ proc[p].pc \in {"main", "saved"} /\ proc'[p].pc = "main"
               /\ proc[p].load /\ proc'[p].load = proc[p].load /\ proc'[p].path = f /\ proc'[p].cfg = Content(f)
               /\ proc'[p].asked = proc[p].asked
<1> DEFINE J == proc[p].i + 1
           C == Content(Cmd(p).file)
           F == Cmd(p).file
<1>1. proc[p].pc \in {"main", "saved"} /\ Cmd(p).file \in CfgFiles /\ proc[p].load
  BY NamesFile DEF ReadCfg, Saved
<1>2. PICK o, pc, line, i, cfg, path, save, load, asked :
          /\ o = proc[p] /\ pc = o.pc /\ line = o.line /\ i = o.i /\ cfg = o.cfg /\ path = o.path
          /\ save = o.save /\ load = o.load /\ asked = o.asked
          /\ line \in Lines /\ i \in Nat \ {0} /\ path \in CfgFiles \cup {None}
          /\ save \in BOOLEAN /\ load \in BOOLEAN
          /\ o = [pc |-> pc, line |-> line, i |-> i, cfg |-> cfg, path |-> path,
                save |-> save, load |-> load, fd |-> None, part |-> FALSE, asked |-> asked]
  BY <1>1, ItsRecord
<1> HIDE DEF J, C, F
<1>a. PICK yes, no : yes = TRUE /\ no = FALSE
  BY Zenon
<1>3. PICK r, j, c, f : r = [o EXCEPT !.pc = "main", !.i = j, !.save = no, !.cfg = c, !.path = f] /\ j = J /\ c = C /\ f = F
  OBVIOUS
<1>4. Become(p, r)
  BY <1>2, <1>3, <1>a DEF ReadCfg, J, C, F
<1>5. r = [pc |-> "main", line |-> line, i |-> j, cfg |-> c, path |-> f,
         save |-> no, load |-> load, fd |-> None, part |-> FALSE, asked |-> asked]
  <2>1. o = [pc |-> pc, line |-> line, i |-> i, cfg |-> cfg, path |-> path,
             save |-> save, load |-> load, fd |-> None, part |-> FALSE, asked |-> asked]
    BY <1>2
  <2>2. r = [o EXCEPT !.pc = "main", !.i = j, !.save = no, !.cfg = c, !.path = f]
    BY <1>3
  <2> QED
    BY <2>1, <2>2, Zenon
<1>b. yes \in BOOLEAN /\ no \in BOOLEAN
  BY <1>a, Zenon
<1>c. line \in Lines /\ path \in CfgFiles \cup {None} /\ save \in BOOLEAN /\ load \in BOOLEAN
  BY <1>2
<1>6. j \in Nat \ {0} /\ pc \in {"main", "saved"} /\ f \in CfgFiles
  BY <1>1, <1>2, <1>3 DEF J, C, F
<1>7. /\ IsProc(r) /\ r.pc = "main" /\ r.cfg = c /\ r.path = f
      /\ r.save = no /\ r.load = load /\ r.asked = asked
  BY <1>5, <1>6, <1>b, <1>c, InMain, SMTT(30)
<1>8. ProcsInv' /\ proc'[p] = r /\ \A q \in Procs \ {p} : proc'[q] = proc[q]
  BY <1>4, <1>7, Becomes
<1> QED
  BY <1>1, <1>2, <1>3, <1>7, <1>8, <1>a DEF ReadCfg, Saved, J, C, F

LEMMA NameMoves ==
    ASSUME ProcsInv, NEW p \in Procs, NameCfg(p)
    PROVE  LET f == Cmd(p).file
           IN  /\ ProcsInv' /\ UNCHANGED <<dir, data, mixed, failed>> /\ f \in CfgFiles
               /\ Race(p, f) /\ want' = [want EXCEPT ![f] = {}]
               /\ \A q \in Procs \ {p} :
                      /\ proc'[q].pc = proc[q].pc /\ proc'[q].cfg = proc[q].cfg /\ proc'[q].path = proc[q].path
                      /\ proc'[q].save = proc[q].save /\ proc'[q].load = proc[q].load
                      /\ proc'[q].fd = proc[q].fd /\ proc'[q].part = proc[q].part
                      /\ proc'[q].asked = {x \in proc[q].asked : x[1] # f}
               /\ proc[p].pc = "main" /\ proc'[p].pc = "main" /\ ~proc[p].load
               /\ proc'[p].load = TRUE /\ proc'[p].path = f /\ proc'[p].cfg = proc[p].cfg
               /\ proc'[p].save = proc[p].save
               /\ proc'[p].asked = {IF x[1] = None THEN <<f, x[2]>> ELSE x :
                                      x \in {y \in proc[p].asked : y[1] # f}}
<1> DEFINE J == proc[p].i + 1
           F == Cmd(p).file
           A == {IF x[1] = None THEN <<F, x[2]>> ELSE x : x \in {y \in proc[p].asked : y[1] # F}}
<1>1. proc[p].pc = "main" /\ proc[p].pc \in {"main", "saved"} /\ Cmd(p).file \in CfgFiles /\ ~proc[p].load
  BY NamesFile DEF NameCfg
<1>2. PICK o, pc, line, i, cfg, path, save, load, asked :
          /\ o = proc[p] /\ pc = o.pc /\ line = o.line /\ i = o.i /\ cfg = o.cfg /\ path = o.path
          /\ save = o.save /\ load = o.load /\ asked = o.asked
          /\ line \in Lines /\ i \in Nat \ {0} /\ path \in CfgFiles \cup {None}
          /\ save \in BOOLEAN /\ load \in BOOLEAN
          /\ o = [pc |-> pc, line |-> line, i |-> i, cfg |-> cfg, path |-> path,
                save |-> save, load |-> load, fd |-> None, part |-> FALSE, asked |-> asked]
  BY <1>1, ItsRecord
<1> HIDE DEF J, F, A
<1>a. PICK yes, no : yes = TRUE /\ no = FALSE
  BY Zenon
<1>3. PICK r, j, f, a : r = [o EXCEPT !.i = j, !.load = yes, !.path = f, !.asked = a] /\ j = J /\ f = F /\ a = A
  OBVIOUS
<1>4. proc' = [q \in Procs |-> IF q # p THEN [proc[q] EXCEPT !.asked = {x \in @ : x[1] # f}] ELSE r]
  BY <1>2, <1>3, <1>a DEF NameCfg, J, F, A
<1>5. r = [pc |-> pc, line |-> line, i |-> j, cfg |-> cfg, path |-> f,
         save |-> save, load |-> yes, fd |-> None, part |-> FALSE, asked |-> a]
  <2>1. o = [pc |-> pc, line |-> line, i |-> i, cfg |-> cfg, path |-> path,
             save |-> save, load |-> load, fd |-> None, part |-> FALSE, asked |-> asked]
    BY <1>2
  <2>2. r = [o EXCEPT !.i = j, !.load = yes, !.path = f, !.asked = a]
    BY <1>3
  <2> QED
    BY <2>1, <2>2, Zenon
<1>b. yes \in BOOLEAN /\ no \in BOOLEAN
  BY <1>a, Zenon
<1>c. line \in Lines /\ path \in CfgFiles \cup {None} /\ save \in BOOLEAN /\ load \in BOOLEAN
  BY <1>2
<1>6. j \in Nat \ {0} /\ pc \in {"main", "saved"} /\ f \in CfgFiles
  BY <1>1, <1>2, <1>3 DEF J, F, A
<1>7. /\ IsProc(r) /\ r.pc = pc /\ r.cfg = cfg /\ r.path = f
      /\ r.save = save /\ r.load = yes /\ r.asked = a
  BY <1>5, <1>6, <1>b, <1>c, InMain, SMTT(30)
<1>8. proc' = [q \in Procs |-> proc'[q]] /\ proc'[p] = r
  BY <1>4
<1>9. ASSUME NEW q \in Procs \ {p}
      PROVE  /\ IsProc(proc'[q])
             /\ proc'[q].pc = proc[q].pc /\ proc'[q].cfg = proc[q].cfg /\ proc'[q].path = proc[q].path
             /\ proc'[q].save = proc[q].save /\ proc'[q].load = proc[q].load
             /\ proc'[q].fd = proc[q].fd /\ proc'[q].part = proc[q].part
             /\ proc'[q].asked = {x \in proc[q].asked : x[1] # f}
  <2>1. PICK b, o2 : b = {x \in proc[q].asked : x[1] # f} /\ o2 = proc[q]
    OBVIOUS
  <2>2. PICK r2 : r2 = [o2 EXCEPT !.asked = b]
    OBVIOUS
  <2>3. proc'[q] = r2 /\ IsProc(o2)
    BY <1>4, <2>1, <2>2 DEF ProcsInv
  <2>4. o2 = [pc |-> o2.pc, line |-> o2.line, i |-> o2.i, cfg |-> o2.cfg, path |-> o2.path,
              save |-> o2.save, load |-> o2.load, fd |-> o2.fd, part |-> o2.part, asked |-> o2.asked]
    BY <2>3 DEF IsProc
  <2>5. /\ r2.pc = o2.pc /\ r2.line = o2.line /\ r2.i = o2.i /\ r2.cfg = o2.cfg /\ r2.path = o2.path
        /\ r2.save = o2.save /\ r2.load = o2.load /\ r2.fd = o2.fd /\ r2.part = o2.part /\ r2.asked = b
        /\ r2 = [pc |-> r2.pc, line |-> r2.line, i |-> r2.i, cfg |-> r2.cfg, path |-> r2.path,
                 save |-> r2.save, load |-> r2.load, fd |-> r2.fd, part |-> r2.part, asked |-> r2.asked]
    BY <2>2, <2>4
  <2>6. IsProc(r2)
    BY <2>3, <2>5 DEF IsProc
  <2> QED
    BY <2>1, <2>3, <2>5, <2>6
<1>10. ProcsInv'
  BY <1>7, <1>8, <1>9 DEF ProcsInv
<1>11. f = F /\ a = A /\ pc = "main" /\ cfg = proc[p].cfg /\ save = proc[p].save /\ yes = TRUE
  BY <1>1, <1>2, <1>3, <1>a
<1>12. /\ UNCHANGED <<dir, data, mixed, failed>> /\ Race(p, f)
       /\ want' = [want EXCEPT ![f] = {}]
  BY <1>11 DEF NameCfg, F
<1>13. /\ proc'[p].pc = "main" /\ proc'[p].load = TRUE /\ proc'[p].path = f
       /\ proc'[p].cfg = proc[p].cfg /\ proc'[p].save = proc[p].save /\ proc'[p].asked = A
  BY <1>7, <1>8, <1>11
<1>14. f = Cmd(p).file
  BY <1>11 DEF F
<1> QED
  BY <1>1, <1>9, <1>10, <1>12, <1>13, <1>14 DEF A, F

\* What p was asked to add after -ic or -is is for the file that it names.
LEMMA NameAsks ==
    ASSUME ProcsInv, NEW p \in Procs, NameCfg(p), NEW f, f = Cmd(p).file
    PROVE  /\ f # None
           /\ \A q \in Procs \ {p} : \A a \in proc'[q].asked : a \in proc[q].asked /\ a[1] # f
           /\ \A a \in proc'[p].asked :
                  \/ a \in proc[p].asked /\ a[1] # f /\ a[1] # None
                  \/ a[1] = f /\ \E x \in proc[p].asked : x[1] = None /\ x[2] = a[2]
<1>1. f # None
  BY NameMoves, ConfigToolOK
<1>2. \A q \in Procs \ {p} : proc'[q].asked = {x \in proc[q].asked : x[1] # Cmd(p).file}
  BY NameMoves, Zenon
<1>3. PICK A : A = proc'[p].asked
  OBVIOUS
<1>4. A = {IF x[1] = None THEN <<Cmd(p).file, x[2]>> ELSE x : x \in {y \in proc[p].asked : y[1] # Cmd(p).file}}
  BY <1>3, NameMoves
<1>5. ASSUME NEW a \in A
      PROVE  \/ a \in proc[p].asked /\ a[1] # f /\ a[1] # None
             \/ a[1] = f /\ \E x \in proc[p].asked : x[1] = None /\ x[2] = a[2]
  <2>1. PICK x \in proc[p].asked : x[1] # f /\ a = IF x[1] = None THEN <<f, x[2]>> ELSE x
    BY <1>4
  <2> QED
    BY <2>1
<1> QED
  BY <1>1, <1>2, <1>3, <1>5

-----------------------------------------------------------------------------
(* The files are whole.                                                    *)

\* Steps that leave the files alone, and after which p is not saving.
Apart(p) ==
    /\ UNCHANGED <<dir, data, mixed>> /\ proc'[p].pc \notin Saving
    /\ \A q \in Procs \ {p} : /\ proc'[q].pc = proc[q].pc /\ proc'[q].path = proc[q].path
                              /\ proc'[q].fd = proc[q].fd /\ proc'[q].part = proc[q].part
                              /\ proc'[q].cfg = proc[q].cfg

LEMMA MainIsApart ==
    ASSUME ProcsInv, NEW p \in Procs, Main(p) \/ SaveNowhere(p) \/ Kill(p)
    PROVE  ProcsInv' /\ Apart(p)
<1>1. CASE Add(p)
  BY <1>1, AddMoves DEF Apart, Saving
<1>2. CASE InitCfg(p)
  BY <1>2, InitMoves DEF Apart, Saving
<1>3. CASE ReadCfg(p)
  BY <1>3, ReadMoves DEF Apart, Saving
<1>4. CASE NameCfg(p)
  BY <1>4, NameMoves DEF Apart, Saving
<1>5. CASE \/ List(p) \/ Abort(p) \/ TooFew(p) \/ SaveFirst(p) \/ Return0(p) \/ SaveNowhere(p) \/ Kill(p)
  BY <1>5, MainMoves DEF Apart, Kept, Saving, Over
<1> QED
  BY <1>1, <1>2, <1>3, <1>4, <1>5 DEF Main

LEMMA ApartFiles ==
    ASSUME NamesInv, WholeInv, NEW p \in Procs, Apart(p)
    PROVE  NamesInv' /\ WholeInv'
<1>1. NamesInv'
  <2>1. \A q \in Procs : proc'[q].pc \in Saving =>
            proc[q].pc \in Saving /\ proc'[q].path = proc[q].path /\ proc'[q].fd = proc[q].fd
    BY DEF Apart
  <2>2. UNCHANGED <<dir, data>>
    BY DEF Apart
  <2> QED
    BY <2>1, <2>2 DEF NamesInv
<1>2. \A f : Savers(f)' = Savers(f) \ {p}
  BY DEF Savers, Apart
<1>3. \A q \in Procs \ {p}, f \in CfgFiles : Progress(q, f)' <=> Progress(q, f)
  BY DEF Progress, Apart
<1>4. ASSUME NEW f \in CfgFiles \ mixed, NEW q \in Savers(f)'
      PROVE  Savers(f)' = {q} /\ Progress(q, f)'
  <2>1. q \in Savers(f) /\ q \in Procs \ {p}
    BY <1>2, <1>4 DEF Savers
  <2>2. Savers(f) = {q} /\ Progress(q, f)
    BY <2>1 DEF WholeInv
  <2> QED
    BY <1>2, <1>3, <2>1, <2>2
<1>5. WholeInv'
  BY <1>4 DEF WholeInv, Apart
<1> QED
  BY <1>1, <1>5

\* Where a process with a file is, and what the names are.
LEMMA ItsNames ==
    ASSUME ProcsInv, NamesInv, NEW p \in Procs, proc[p].path \in CfgFiles
    PROVE  LET f == proc[p].path
           IN  /\ Tmp(p) = <<f, "_tmp">> /\ Tmp(p) \in Names /\ <<f, "">> \in Names /\ <<f, "">> # Tmp(p)
               /\ \A g \in CfgFiles, x \in {"", "_tmp"} : <<g, x>> \in Names
               /\ dir[<<f, "">>] \in Inodes
<1> DEFINE f == proc[p].path
<1>1. Tmp(p) = <<f, "_tmp">> /\ <<f, "">> # Tmp(p)
  BY DEF Tmp
<1>2. \A g \in CfgFiles, x \in {"", "_tmp"} : <<g, x>> \in Names
  BY DEF Names
<1>3. dir[<<f, "">>] \in Inodes
  BY <1>2 DEF NamesInv
<1> QED
  BY <1>1, <1>2, <1>3

LEMMA NoInode == None \notin Inodes
<1>1. Cardinality(CfgFiles) \in Nat /\ Cardinality(Procs) \in Nat
  BY ConfigToolOK, FS_CardinalityType
<1> QED
  BY <1>1, ConfigToolOK DEF Inodes

LEMMA OpenNames ==
    ASSUME ProcsInv, NamesInv, NEW p \in Procs, Open(p)
    PROVE  NamesInv'
<1> DEFINE k == proc'[p].fd
           f == proc[p].path
<1>1. /\ Kept(p) /\ proc[p].pc = "open" /\ proc'[p].pc = "write" /\ f \in CfgFiles /\ k \in Inodes
      /\ dir' = [dir EXCEPT ![Tmp(p)] = k]
      /\ data' = [data EXCEPT ![k] = Holds("empty", {}, None)]
  BY OpenMoves
<1>2. /\ Tmp(p) = <<f, "_tmp">> /\ Tmp(p) \in Names
      /\ \A g \in CfgFiles, x \in {"", "_tmp"} : <<g, x>> \in Names
  BY <1>1, ItsNames
<1>3. \/ dir[Tmp(p)] = k
      \/ \A n \in Names : dir[n] # k /\ \A q \in Procs : proc[q].fd # k
  <2>1. CASE dir[Tmp(p)] = None
    <3>1. f # None
      BY <1>1, ConfigToolOK
    <3> QED
      BY <1>1, <2>1, <3>1, FreeIsFree, OpenMoves
  <2>2. CASE dir[Tmp(p)] # None
    BY <2>2, OpenMoves
  <2> QED
    BY <2>1, <2>2
<1>4. k # None
  BY <1>1, NoInode
<1> HIDE DEF k, f
<1>5. dir' \in [Names -> Inodes \cup {None}] /\ data' = [j \in Inodes |-> data'[j]]
  BY <1>1 DEF NamesInv
<1>6. \A n \in Names : dir'[n] = IF n = Tmp(p) THEN k ELSE dir[n]
  BY <1>1 DEF NamesInv
<1>7. \A m, n \in Names : dir'[m] = dir'[n] /\ dir'[m] # None => m = n
  BY <1>2, <1>3, <1>6 DEF NamesInv
<1>8. \A g \in CfgFiles : dir'[<<g, "">>] # None
  BY <1>2, <1>4, <1>6 DEF NamesInv
<1>9. ASSUME NEW q \in Procs, NEW g \in CfgFiles, NEW x \in {"", "_tmp"},
             proc'[q].pc \in Saving, proc'[q].path # g
      PROVE  dir'[<<g, x>>] # proc'[q].fd
  <2>1. CASE q = p
    <3>1. proc'[p].path = f /\ g # f
      BY <1>1, <1>9, <2>1 DEF Kept, f
    <3>2. <<g, x>> # Tmp(p) /\ <<g, x>> \in Names
      <4>1. <<g, x>>[1] # <<f, "_tmp">>[1]
        BY <3>1
      <4> QED
        BY <1>2, <4>1
    <3>3. dir'[<<g, x>>] = dir[<<g, x>>] /\ proc'[q].fd = k
      BY <1>6, <2>1, <3>2 DEF k
    <3>4. dir[<<g, x>>] # k
      BY <1>2, <1>3, <1>4, <3>2 DEF NamesInv
    <3> QED
      BY <3>3, <3>4
  <2>2. CASE q # p
    <3>1. proc'[q] = proc[q] /\ <<g, x>> \in Names
      BY <1>1, <1>2, <2>2 DEF Kept
    <3>2. dir[<<g, x>>] # proc[q].fd
      BY <1>9, <3>1 DEF NamesInv
    <3>3. CASE <<g, x>> = Tmp(p)
      BY <1>3, <1>6, <3>1, <3>2, <3>3
    <3>4. CASE <<g, x>> # Tmp(p)
      BY <1>6, <3>1, <3>2, <3>4
    <3> QED
      BY <3>3, <3>4
  <2> QED
    BY <2>1, <2>2
<1> QED
  BY <1>5, <1>7, <1>8, <1>9 DEF NamesInv

LEMMA WriteNames ==
    ASSUME ProcsInv, NamesInv, NEW p \in Procs, Write(p) \/ CloseCfg(p)
    PROVE  NamesInv'
<1>1. /\ UNCHANGED dir /\ Kept(p) /\ proc[p].pc \in Saving /\ proc'[p].fd = proc[p].fd
      /\ data' = [j \in Inodes |-> data'[j]]
  BY WriteMoves DEF Tear, NamesInv
<1>2. \A q \in Procs : proc'[q].pc \in Saving =>
          proc[q].pc \in Saving /\ proc'[q].path = proc[q].path /\ proc'[q].fd = proc[q].fd
  BY <1>1 DEF Kept
<1> QED
  BY <1>1, <1>2 DEF NamesInv

LEMMA ReturnNames ==
    ASSUME ProcsInv, NamesInv, NEW p \in Procs, SaveFails(p) \/ Rename(p)
    PROVE  NamesInv'
<1> DEFINE f == proc[p].path
<1>1. /\ Kept(p) /\ proc'[p].pc \notin Saving /\ f \in CfgFiles /\ data' = [j \in Inodes |-> data'[j]]
  BY ReturnMoves DEF Tear, NamesInv, Saving
<1>2. /\ Tmp(p) = <<f, "_tmp">> /\ Tmp(p) \in Names /\ <<f, "">> \in Names /\ <<f, "">> # Tmp(p)
      /\ \A g \in CfgFiles, x \in {"", "_tmp"} : <<g, x>> \in Names
  BY <1>1, ItsNames
<1>3. CASE UNCHANGED dir
  <2>1. \A q \in Procs : proc'[q].pc \in Saving => proc'[q] = proc[q]
    BY <1>1 DEF Kept
  <2> QED
    BY <1>1, <1>3, <2>1 DEF NamesInv
<1>4. CASE dir[Tmp(p)] # None /\ dir' = [dir EXCEPT ![<<f, "">>] = dir[Tmp(p)], ![Tmp(p)] = None]
  <2>1. /\ \A n \in Names : dir'[n] = IF n = Tmp(p) THEN None ELSE IF n = <<f, "">> THEN dir[Tmp(p)] ELSE dir[n]
        /\ dir' \in [Names -> Inodes \cup {None}]
    BY <1>2, <1>4 DEF NamesInv
  <2>2. ASSUME NEW m \in Names, NEW n \in Names, dir'[m] = dir'[n], dir'[m] # None
        PROVE  m = n
    <3> DEFINE From(j) == IF j = <<f, "">> THEN Tmp(p) ELSE j
    <3>1. ASSUME NEW j \in {m, n}
          PROVE  j # Tmp(p) /\ From(j) \in Names /\ dir'[j] = dir[From(j)]
      BY <1>2, <2>1, <2>2, <3>1
    <3>2. From(m) = From(n)
      BY <2>2, <3>1 DEF NamesInv
    <3> QED
      BY <3>1, <3>2
  <2>3. ASSUME NEW g \in CfgFiles PROVE dir'[<<g, "">>] # None
    <3>1. <<g, "">> \in Names /\ dir[<<g, "">>] # None
      BY <1>2 DEF NamesInv
    <3>2. <<g, "">> # <<f, "_tmp">>
      <4>1. <<g, "">>[2] # <<f, "_tmp">>[2]
        OBVIOUS
      <4> QED
        BY <4>1
    <3> QED
      BY <1>2, <1>4, <2>1, <3>1, <3>2
  <2>4. ASSUME NEW q \in Procs, NEW g \in CfgFiles, NEW x \in {"", "_tmp"},
               proc'[q].pc \in Saving, proc'[q].path # g
        PROVE  dir'[<<g, x>>] # proc'[q].fd
    <3>1. proc'[q] = proc[q] /\ IsProc(proc[q])
      BY <1>1, <2>4 DEF Kept, ProcsInv
    <3>2. proc[q].fd # None
      BY <2>4, <3>1, NoInode DEF IsProc
    <3>3. <<g, x>> \in Names /\ (<<g, x>> = <<f, "">> => g = f)
      BY <1>2
    <3>4. dir[<<g, x>>] # proc[q].fd
      BY <2>4, <3>1 DEF NamesInv
    <3>5. CASE <<g, x>> = <<f, "">>
      <4>1. dir[<<f, "_tmp">>] # proc[q].fd
        BY <1>1, <2>4, <3>1, <3>3, <3>5 DEF NamesInv
      <4> QED
        BY <1>2, <2>1, <3>1, <3>5, <4>1
    <3> QED
      BY <2>1, <3>1, <3>2, <3>3, <3>4, <3>5
  <2> QED
    BY <1>1, <2>1, <2>2, <2>3, <2>4 DEF NamesInv
<1> QED
  BY <1>3, <1>4, ReturnMoves DEF Rename

LEMMA OpenWhole ==
    ASSUME ProcsInv, NamesInv, WholeInv, NEW p \in Procs, Open(p)
    PROVE  WholeInv'
<1> DEFINE k == proc'[p].fd
<1>0. PICK f : f = proc[p].path
  OBVIOUS
<1>1. /\ Kept(p) /\ proc[p].pc = "open" /\ proc'[p].pc = "write" /\ f \in CfgFiles /\ k \in Inodes
      /\ k = (IF dir[Tmp(p)] = None THEN Free ELSE dir[Tmp(p)])
      /\ dir' = [dir EXCEPT ![Tmp(p)] = k]
      /\ data' = [data EXCEPT ![k] = Holds("empty", {}, None)]
  BY <1>0, OpenMoves
<1>2. /\ Tmp(p) = <<f, "_tmp">> /\ Tmp(p) \in Names /\ f # None
      /\ \A g \in CfgFiles, x \in {"", "_tmp"} : <<g, x>> \in Names
  BY <1>0, <1>1, ItsNames, ConfigToolOK
<1>3. \A n \in Names : n # Tmp(p) => dir'[n] = dir[n] /\ dir[n] # k
  <2>1. CASE dir[Tmp(p)] = None
    BY <1>0, <1>1, <1>2, <2>1, FreeIsFree DEF NamesInv
  <2>2. CASE dir[Tmp(p)] # None
    BY <1>1, <1>2, <2>2 DEF NamesInv
  <2> QED
    BY <2>1, <2>2
<1>4. mixed' = mixed \cup {g \in {f} : \E q \in Procs \ {p} : proc[q].pc \in Saving /\ proc[q].path = g}
  BY <1>0 DEF Open
<1>5. \A j \in Inodes : j # k => data'[j] = data[j]
  BY <1>1 DEF NamesInv
<1>6. dir'[Tmp(p)] = k
  BY <1>1, <1>2 DEF NamesInv
<1> HIDE DEF k
<1>7. ASSUME NEW g \in CfgFiles \ mixed'
      PROVE  data'[dir'[<<g, "">>]].kind = "whole"
  <2>1. <<g, "">> \in Names /\ <<g, "">> # Tmp(p) /\ dir[<<g, "">>] \in Inodes
    <3>1. <<g, "">>[2] # <<f, "_tmp">>[2]
      OBVIOUS
    <3>2. <<g, "">> \in Names /\ <<g, "">> # Tmp(p)
      BY <1>2, <3>1
    <3> QED
      BY <3>2 DEF NamesInv
  <2>2. data[dir[<<g, "">>]].kind = "whole"
    BY <1>4 DEF WholeInv
  <2> QED
    BY <1>3, <1>5, <2>1, <2>2
<1>8. ASSUME NEW g \in CfgFiles \ mixed', NEW q \in Savers(g)'
      PROVE  Savers(g)' = {q} /\ Progress(q, g)'
  <2>1. CASE g = f
    <3>1. \A r \in Procs \ {p} : ~(proc[r].pc \in Saving /\ proc[r].path = f)
      BY <1>4, <2>1
    <3>2. Savers(f)' = {p}
      BY <1>0, <1>1, <3>1 DEF Savers, Kept, Saving
    <3>3. q = p
      BY <1>8, <2>1, <3>2
    <3>4. Progress(p, f)'
      BY <1>1, <1>2, <1>6 DEF Progress, k
    <3> QED
      BY <2>1, <3>2, <3>3, <3>4
  <2>2. CASE g # f
    <3>1. Savers(g)' = Savers(g) /\ q # p /\ proc'[q] = proc[q]
      BY <1>0, <1>1, <1>8, <2>2 DEF Savers, Kept, Saving
    <3>2. Savers(g) = {q} /\ Progress(q, g)
      BY <1>4, <1>8, <3>1 DEF WholeInv
    <3>3. <<g, "_tmp">> \in Names /\ <<g, "_tmp">> # Tmp(p)
      <4>1. <<g, "_tmp">>[1] # <<f, "_tmp">>[1]
        BY <2>2
      <4> QED
        BY <1>2, <4>1
    <3>4. dir'[<<g, "_tmp">>] = dir[<<g, "_tmp">>] /\ proc[q].fd # k /\ proc[q].fd \in Inodes
      <4>1. proc[q].pc \in Saving /\ IsProc(proc[q])
        BY <1>8, <3>1 DEF Savers, ProcsInv
      <4> QED
        BY <1>3, <3>2, <3>3, <4>1 DEF Progress, IsProc
    <3> QED
      BY <1>5, <3>1, <3>2, <3>4 DEF Progress
  <2> QED
    BY <2>1, <2>2
<1> QED
  BY <1>7, <1>8 DEF WholeInv

\* A write changes the file of the only process that saves it.
LEMMA WritesOwn ==
    ASSUME ProcsInv, NamesInv, WholeInv, NEW p \in Procs, proc[p].pc \in Saving,
           NEW g \in CfgFiles \ mixed
    PROVE  /\ proc[p].fd \in Inodes /\ proc[p].path \in CfgFiles
           /\ dir[<<g, "">>] \in Inodes /\ dir[<<g, "">>] # proc[p].fd
           /\ \A q \in Savers(g) : q # p => proc[q].fd # proc[p].fd /\ proc[q].fd \in Inodes /\ proc[p].path # g
<1>1. IsProc(proc[p])
  BY DEF ProcsInv
<1>2. proc[p].fd \in Inodes /\ proc[p].path \in CfgFiles
  BY <1>1 DEF IsProc
<1>3. <<g, "">> \in Names /\ <<g, "_tmp">> \in Names /\ <<g, "">> # <<g, "_tmp">>
  BY DEF Names
<1>4. dir[<<g, "">>] \in Inodes
  <2>1. dir \in [Names -> Inodes \cup {None}] /\ dir[<<g, "">>] # None
    BY DEF NamesInv
  <2> QED
    BY <1>3, <2>1
<1>5. CASE proc[p].path = g
  <2>1. p \in Savers(g)
    BY <1>5 DEF Savers
  <2>2. Savers(g) = {p} /\ proc[p].fd = dir[<<g, "_tmp">>]
    BY <2>1 DEF WholeInv, Progress
  <2>3. dir[<<g, "">>] # proc[p].fd
    BY <1>2, <1>3, <2>2, NoInode DEF NamesInv
  <2> QED
    BY <1>2, <1>4, <2>2, <2>3
<1>6. CASE proc[p].path # g
  <2>1. \A x \in {"", "_tmp"} : dir[<<g, x>>] # proc[p].fd
    BY <1>6 DEF NamesInv
  <2>2. ASSUME NEW q \in Savers(g), q # p PROVE proc[q].fd # proc[p].fd /\ proc[q].fd \in Inodes
    <3>1. proc[q].fd = dir[<<g, "_tmp">>] /\ q \in Procs /\ proc[q].pc \in Saving
      BY DEF WholeInv, Progress, Savers
    <3>2. IsProc(proc[q])
      BY <3>1 DEF ProcsInv
    <3> QED
      BY <2>1, <3>1, <3>2 DEF IsProc
  <2> QED
    BY <1>2, <1>4, <1>6, <2>1, <2>2
<1> QED
  BY <1>5, <1>6

LEMMA WriteWhole ==
    ASSUME ProcsInv, NamesInv, WholeInv, NEW p \in Procs, Write(p) \/ CloseCfg(p)
    PROVE  WholeInv'
<1> DEFINE k == proc[p].fd
<1>1. /\ Kept(p) /\ UNCHANGED <<dir, mixed>> /\ proc[p].pc \in Saving /\ proc'[p].pc \in Saving /\ proc'[p].fd = k
      /\ \A j \in Inodes : j # k => data'[j] = data[j]
  BY WriteMoves DEF Tear, NamesInv, Saving
<1>2. \A g : Savers(g)' = Savers(g)
  BY <1>1 DEF Savers, Kept
<1>3. ASSUME NEW g \in CfgFiles \ mixed
      PROVE  data'[dir'[<<g, "">>]].kind = "whole"
  BY <1>1, WritesOwn DEF WholeInv
<1>4. ASSUME NEW g \in CfgFiles \ mixed, NEW q \in Savers(g)
      PROVE  Savers(g) = {q} /\ Progress(q, g)'
  <2>1. Savers(g) = {q} /\ Progress(q, g)
    BY <1>4 DEF WholeInv
  <2>2. CASE q # p
    <3>1. proc'[q] = proc[q]
      BY <1>1, <2>2 DEF Kept, Savers
    <3>2. proc[q].fd \in Inodes /\ proc[q].fd # k
      BY <1>1, <2>2, WritesOwn
    <3> QED
      BY <1>1, <2>1, <3>1, <3>2 DEF Progress
  <2>3. CASE q = p
    <3>1. k \in Inodes /\ proc'[p].cfg = proc[p].cfg
      BY <1>1, WritesOwn DEF Kept
    <3>2. CASE proc[p].pc = "write" /\ proc'[p].pc = "close"
      <4>1. proc'[p].part = FALSE \/ Tear(p)
        BY <3>2, WriteMoves
      <4>2. proc'[p].part = FALSE \/ data'[proc[p].fd] = Holds("torn", {}, p)
        BY <1>1, <3>1, <4>1 DEF Tear, NamesInv
      <4> QED
        BY <1>1, <2>1, <2>3, <3>2, <4>2 DEF Progress
    <3>3. CASE proc[p].pc = "close" /\ proc'[p].pc = "rename"
      <4>1. \/ data' = [data EXCEPT ![proc[p].fd] = Holds("whole", proc[p].cfg, None)]
            \/ proc[p].part /\ data[proc[p].fd] # Holds("torn", {}, p)
        BY <3>3, WriteMoves
      <4>2. data' = [data EXCEPT ![k] = Holds("whole", proc[p].cfg, None)]
        BY <2>1, <2>3, <3>3, <4>1 DEF Progress
      <4>3. data'[k] = Holds("whole", proc[p].cfg, None)
        BY <3>1, <4>2 DEF NamesInv
      <4> QED
        BY <1>1, <2>1, <2>3, <3>1, <3>3, <4>3 DEF Progress
    <3> QED
      BY <3>2, <3>3, WriteMoves
  <2> QED
    BY <2>1, <2>2, <2>3
<1> QED
  BY <1>1, <1>2, <1>3, <1>4 DEF WholeInv

LEMMA ReturnWhole ==
    ASSUME ProcsInv, NamesInv, WholeInv, NEW p \in Procs, SaveFails(p) \/ Rename(p)
    PROVE  WholeInv'
<1>0. PICK f : f = proc[p].path
  OBVIOUS
<1>1. /\ Kept(p) /\ UNCHANGED mixed /\ proc'[p].pc = "saved" /\ f \in CfgFiles
  BY <1>0, ReturnMoves
<1>2. /\ Tmp(p) = <<f, "_tmp">> /\ Tmp(p) \in Names /\ <<f, "">> \in Names /\ <<f, "">> # Tmp(p)
      /\ \A g \in CfgFiles, x \in {"", "_tmp"} : <<g, x>> \in Names
  BY <1>0, <1>1, ItsNames
<1>3. \A g : Savers(g)' = Savers(g) \ {p}
  BY <1>1 DEF Savers, Kept, Saving
<1>4. ASSUME NEW g \in CfgFiles \ mixed, NEW q \in Savers(g) \ {p}
      PROVE  /\ Savers(g) = {q} /\ Progress(q, g) /\ proc'[q] = proc[q]
             /\ p \notin Savers(g)
  BY <1>1, <1>4 DEF WholeInv, Kept, Savers
<1>5. CASE UNCHANGED dir /\ (UNCHANGED data \/ (proc[p].pc \in Saving /\ Tear(p)))
  <2>1. ASSUME NEW j \in Inodes, proc[p].pc \in Saving => j # proc[p].fd PROVE data'[j] = data[j]
    BY <1>5, <2>1 DEF Tear, NamesInv
  <2>2. ASSUME NEW g \in CfgFiles \ mixed
        PROVE  data'[dir'[<<g, "">>]].kind = "whole"
    <3>1. dir[<<g, "">>] \in Inodes
      BY <1>2 DEF NamesInv
    <3>2. proc[p].pc \in Saving => dir[<<g, "">>] # proc[p].fd
      BY WritesOwn
    <3> QED
      BY <1>5, <2>1, <3>1, <3>2 DEF WholeInv
  <2>3. ASSUME NEW g \in CfgFiles \ mixed, NEW q \in Savers(g) \ {p}
        PROVE  Savers(g) \ {p} = {q} /\ Progress(q, g)'
    <3>1. Savers(g) = {q} /\ Progress(q, g) /\ proc'[q] = proc[q]
      BY <1>4
    <3>2. proc[q].fd \in Inodes
      <4>1. IsProc(proc[q]) /\ proc[q].pc \in Saving
        BY DEF Savers, ProcsInv
      <4> QED
        BY <4>1 DEF IsProc
    <3>3. proc[p].pc \in Saving => proc[q].fd # proc[p].fd
      BY WritesOwn
    <3>4. data'[proc[q].fd] = data[proc[q].fd]
      BY <2>1, <3>2, <3>3
    <3> QED
      BY <1>5, <3>1, <3>4 DEF Progress
  <2> QED
    BY <1>1, <1>3, <2>2, <2>3 DEF WholeInv
<1>6. CASE Rename(p) /\ UNCHANGED data
  <2>1. ASSUME NEW g \in CfgFiles \ mixed, g # f
        PROVE  dir'[<<g, "">>] = dir[<<g, "">>] /\ dir'[<<g, "_tmp">>] = dir[<<g, "_tmp">>]
    <3>1. \A x, y \in {"", "_tmp"} : <<g, x>>[1] # <<f, y>>[1]
      BY <2>1
    <3>2. \A x, y \in {"", "_tmp"} : <<g, x>> # <<f, y>>
      BY <3>1
    <3>3. <<g, "">> \in Names /\ <<g, "_tmp">> \in Names
      BY <1>2
    <3> QED
      BY <1>0, <1>2, <1>6, <3>2, <3>3 DEF Rename, NamesInv
  <2>2. ASSUME f \notin mixed
        PROVE  data'[dir'[<<f, "">>]].kind = "whole"
    <3>1. p \in Savers(f) /\ proc[p].pc = "rename"
      BY <1>0, <1>6 DEF Savers, Rename, Saving
    <3>2. Progress(p, f)
      BY <1>1, <2>2, <3>1 DEF WholeInv
    <3>3. IsProc(proc[p]) /\ proc[p].fd \in Inodes
      BY <3>1 DEF ProcsInv, IsProc, Saving
    <3>4. dir[Tmp(p)] = proc[p].fd /\ dir[Tmp(p)] # None
      BY <1>2, <3>2, <3>3, NoInode DEF Progress
    <3>5. dir'[<<f, "">>] = proc[p].fd
      BY <1>0, <1>2, <1>6, <3>4 DEF Rename, NamesInv
    <3>6. data[proc[p].fd] = Holds("whole", proc[p].cfg, None)
      BY <3>1, <3>2 DEF Progress
    <3>7. data[proc[p].fd].kind = "whole"
      BY <3>6 DEF Holds
    <3> QED
      BY <1>6, <3>5, <3>7
  <2>3. ASSUME NEW g \in CfgFiles \ mixed
        PROVE  data'[dir'[<<g, "">>]].kind = "whole"
    BY <1>6, <2>1, <2>2 DEF WholeInv
  <2>4. ASSUME NEW g \in CfgFiles \ mixed, NEW q \in Savers(g) \ {p}
        PROVE  Savers(g) \ {p} = {q} /\ Progress(q, g)'
    <3>1. Savers(g) = {q} /\ Progress(q, g) /\ proc'[q] = proc[q] /\ p \notin Savers(g)
      BY <1>4
    <3>2. g # f
      BY <1>0, <1>6, <3>1 DEF Savers, Rename, Saving
    <3> QED
      BY <1>6, <2>1, <3>1, <3>2 DEF Progress
  <2> QED
    BY <1>1, <1>3, <2>3, <2>4 DEF WholeInv
<1> QED
  BY <1>5, <1>6, ReturnMoves

LEMMA FileStep == FileInv /\ [Next]_vars => FileInv'
<1> SUFFICES ASSUME ProcsInv, NamesInv, WholeInv, [Next]_vars
             PROVE  ProcsInv' /\ NamesInv' /\ WholeInv'
  BY DEF FileInv
<1>1. CASE UNCHANGED vars
  <2>1. UNCHANGED <<proc, dir, data, mixed>>
    BY <1>1 DEF vars
  <2>2. ProcsInv' /\ NamesInv'
    BY <2>1 DEF ProcsInv, NamesInv
  <2>3. \A f : Savers(f)' = Savers(f) /\ \A p : Progress(p, f)' <=> Progress(p, f)
    BY <2>1 DEF Savers, Progress
  <2> QED
    BY <2>1, <2>2, <2>3 DEF WholeInv
<1>2. ASSUME NEW p \in Procs, Main(p) \/ SaveNowhere(p) \/ Kill(p)
      PROVE  ProcsInv' /\ NamesInv' /\ WholeInv'
  BY <1>2, MainIsApart, ApartFiles
<1>3. ASSUME NEW p \in Procs, Open(p) PROVE ProcsInv' /\ NamesInv' /\ WholeInv'
  BY <1>3, OpenMoves, OpenNames, OpenWhole
<1>4. ASSUME NEW p \in Procs, Write(p) \/ CloseCfg(p) PROVE ProcsInv' /\ NamesInv' /\ WholeInv'
  BY <1>4, WriteMoves, WriteNames, WriteWhole
<1>5. ASSUME NEW p \in Procs, SaveFails(p) \/ Rename(p) PROVE ProcsInv' /\ NamesInv' /\ WholeInv'
  BY <1>5, ReturnMoves, ReturnNames, ReturnWhole
<1> QED
  BY <1>1, <1>2, <1>3, <1>4, <1>5 DEF Next, SaveCfg

LEMMA FileInit == Init => FileInv
<1> SUFFICES ASSUME Init PROVE FileInv
  OBVIOUS
<1> DEFINE c == Cardinality(CfgFiles)
<1>1. c \in Nat /\ Cardinality(Procs) \in Nat
  BY ConfigToolOK, FS_CardinalityType
<1>2. Place \in Bijection(CfgFiles, 1..c)
  <2>1. ExistsBijection(1..c, CfgFiles)
    BY ConfigToolOK, FS_CardinalityType
  <2>2. ExistsBijection(CfgFiles, 1..c)
    BY <2>1, Fun_ExistsBijSymmetric
  <2> QED
    BY <2>2 DEF Place, ExistsBijection
<1>3. /\ Place \in [CfgFiles -> 1..c] /\ \A f, g \in CfgFiles : Place[f] = Place[g] => f = g
  BY <1>2 DEF Bijection, Injection, IsInjective
<1>4. 1..c \subseteq Inodes
  BY <1>1 DEF Inodes
<1>5. ProcsInv
  <2>1. PICK ls \in [Procs -> Lines] : proc = [p \in Procs |->
            [pc |-> "main", line |-> ls[p], i |-> 1, cfg |-> None, path |-> None,
             save |-> FALSE, load |-> TRUE, fd |-> None, part |-> FALSE, asked |-> {}]]
    BY DEF Init
  <2>2. ASSUME NEW p \in Procs PROVE IsProc(proc[p])
    <3>1. PICK r, l, i, yes, no : r = proc[p] /\ l = ls[p] /\ i = 1 /\ yes = TRUE /\ no = FALSE
      BY Zenon
    <3>2. l \in Lines /\ i \in Nat \ {0} /\ None \in CfgFiles \cup {None}
      BY <3>1
    <3>3. yes \in BOOLEAN /\ no \in BOOLEAN
      BY <3>1, Zenon
    <3>4. r = [pc |-> "main", line |-> l, i |-> i, cfg |-> None, path |-> None,
               save |-> no, load |-> yes, fd |-> None, part |-> FALSE, asked |-> {}]
      BY <2>1, <3>1
    <3>5. IsProc(r)
      BY <3>2, <3>3, <3>4, InMain
    <3> QED
      BY <3>1, <3>5, Zenon
  <2> QED
    BY <2>1, <2>2 DEF ProcsInv
<1>6. \A p \in Procs : proc[p].pc \notin Saving
  <2>1. PICK ls : proc = [p \in Procs |->
            [pc |-> "main", line |-> ls[p], i |-> 1, cfg |-> None, path |-> None,
             save |-> FALSE, load |-> TRUE, fd |-> None, part |-> FALSE, asked |-> {}]]
    BY DEF Init
  <2> QED
    BY <2>1 DEF Saving
<1>7. dir = [n \in Names |-> IF n[2] = "" THEN Place[n[1]] ELSE None]
  BY DEF Init
<1>8. ASSUME NEW n \in Names
      PROVE  n[1] \in CfgFiles /\ n[2] \in {"", "_tmp"} /\ n = <<n[1], n[2]>>
  <2>1. ASSUME NEW S, NEW T, NEW m \in S \X T
        PROVE  m[1] \in S /\ m[2] \in T /\ m = <<m[1], m[2]>>
    OBVIOUS
  <2> QED
    BY <2>1, Zenon DEF Names
<1>9. NamesInv
  <2>1. dir \in [Names -> Inodes \cup {None}]
    BY <1>3, <1>4, <1>7, <1>8
  <2>2. \A m, n \in Names : dir[m] = dir[n] /\ dir[m] # None => m = n
    <3>1. ASSUME NEW m \in Names, NEW n \in Names, dir[m] = dir[n], dir[m] # None
          PROVE  m[1] = n[1] /\ m[2] = n[2]
      <4>1. m[2] = "" /\ n[2] = "" /\ Place[m[1]] = Place[n[1]]
        BY <1>7, <1>8, <3>1
      <4> QED
        BY <1>3, <1>8, <4>1
    <3>2. SUFFICES ASSUME NEW m \in Names, NEW n \in Names, dir[m] = dir[n], dir[m] # None
                   PROVE  m = n
      OBVIOUS
    <3>3. m[1] = n[1] /\ m[2] = n[2]
      BY <3>1, <3>2
    <3>4. m = <<m[1], m[2]>> /\ n = <<n[1], n[2]>>
      BY <1>8
    <3> QED
      BY <3>3, <3>4, Zenon
  <2>3. ASSUME NEW f \in CfgFiles PROVE dir[<<f, "">>] = Place[f]
    BY <1>7 DEF Names
  <2>4. data = [k \in Inodes |-> data[k]]
    BY DEF Init
  <2> QED
    BY <1>3, <1>4, <1>6, <2>1, <2>2, <2>3, <2>4, NoInode DEF NamesInv
<1>10. WholeInv
  <2>1. ASSUME NEW f \in CfgFiles PROVE data[dir[<<f, "">>]].kind = "whole"
    <3>1. dir[<<f, "">>] = Place[f]
      BY <1>7 DEF Names
    <3>2. Place[f] \in Range(Place) /\ Place[f] \in Inodes
      BY <1>3, <1>4 DEF Range
    <3> QED
      BY <3>1, <3>2 DEF Init, Holds
  <2>2. \A f : Savers(f) = {}
    BY <1>6 DEF Savers
  <2> QED
    BY <2>1, <2>2 DEF WholeInv
<1> QED
  BY <1>5, <1>9, <1>10 DEF FileInv

LEMMA FileAlways == Spec => []FileInv
BY FileInit, FileStep, PTL DEF Spec

\* Whichever process is killed, and whichever write fails, what a reader finds under the
\* name of a configuration file is a whole configuration, unless two processes were in
\* saveCfg for it at once (saveCfg of configtool.cpp writes another file and renames it).
THEOREM FilesStayWhole == Spec => []FileIsWhole
<1>1. FileInv => FileIsWhole
  BY DEF FileInv, NamesInv, WholeInv, FileIsWhole, Readable
<1> QED
  BY FileAlways, <1>1, PTL

-----------------------------------------------------------------------------
(* What is asked for arrives.                                              *)

\* The steps that leave what a process works on as it is.
LEMMA KeptMoves ==
    ASSUME FileInv, NEW p \in Procs,
           \/ List(p) \/ Abort(p) \/ TooFew(p) \/ SaveFirst(p) \/ Return0(p) \/ Kill(p) \/ SaveCfg(p)
    PROVE  /\ Kept(p) /\ raced' = raced
           /\ proc'[p].pc \notin Over => proc[p].pc \notin Over
<1>1. CASE List(p) \/ Abort(p) \/ TooFew(p) \/ SaveFirst(p) \/ Return0(p) \/ SaveNowhere(p) \/ Kill(p)
  BY <1>1, MainMoves DEF FileInv, Over
<1>2. CASE Open(p)
  BY <1>2, OpenMoves DEF FileInv, Over
<1>3. CASE Write(p) \/ CloseCfg(p)
  BY <1>3, WriteMoves DEF FileInv, Over
<1>4. CASE SaveFails(p) \/ Rename(p)
  <2>1. proc[p].pc \in {"open", "write", "close", "rename"}
    BY <1>4 DEF SaveFails, Rename
  <2> QED
    BY <1>4, <2>1, ReturnMoves DEF FileInv, Over
<1> QED
  BY <1>1, <1>2, <1>3, <1>4 DEF SaveCfg

LEMMA RaceStep == FileInv /\ RaceInv /\ [Next]_vars => RaceInv'
<1> SUFFICES ASSUME FileInv, RaceInv, [Next]_vars PROVE RaceInv'
  OBVIOUS
<1>1. CASE UNCHANGED vars
  BY <1>1 DEF vars, RaceInv, Live
<1>2. ASSUME NEW p \in Procs, Add(p) \/ InitCfg(p) PROVE RaceInv'
  <2>1. /\ UNCHANGED <<raced, mixed>> /\ \A q \in Procs \ {p} : proc'[q] = proc[q]
        /\ proc[p].pc \in {"main", "saved"} /\ proc'[p].path = proc[p].path
    BY <1>2, AddMoves, InitMoves DEF FileInv
  <2>2. \A q \in Live' : q \in Live /\ proc'[q].path = proc[q].path
    BY <2>1 DEF Live, Over
  <2> QED
    BY <2>1, <2>2 DEF RaceInv
<1>3. ASSUME NEW p \in Procs, ReadCfg(p) \/ NameCfg(p) PROVE RaceInv'
  <2>1. PICK f : f = Cmd(p).file
    OBVIOUS
  <2>2. /\ \A q \in Procs \ {p} : proc'[q].pc = proc[q].pc /\ proc'[q].path = proc[q].path
        /\ proc'[p].path = f /\ Race(p, f) /\ UNCHANGED mixed /\ f \in CfgFiles
    BY <1>3, <2>1, ReadMoves, NameMoves DEF FileInv
  <2>3. raced \subseteq raced' /\ (Others(p, f) => f \in raced')
    BY <2>2 DEF Race
  <2>4. ASSUME NEW q \in Live', NEW r \in Live', q # r, proc'[q].path = proc'[r].path
        PROVE  proc'[q].path \in raced' \cup {None}
    <3>1. CASE q # p /\ r # p
      BY <2>2, <2>3, <2>4, <3>1 DEF RaceInv, Live
    <3>2. CASE q = p \/ r = p
      BY <2>2, <2>3, <2>4, <3>2 DEF Others, Live
    <3> QED
      BY <3>1, <3>2
  <2> QED
    BY <2>2, <2>3, <2>4 DEF RaceInv
<1>4. ASSUME NEW p \in Procs,
             \/ List(p) \/ Abort(p) \/ TooFew(p) \/ SaveFirst(p) \/ Return0(p) \/ Kill(p) \/ SaveCfg(p)
      PROVE  RaceInv'
  <2>1. Kept(p) /\ raced' = raced /\ (proc'[p].pc \notin Over => proc[p].pc \notin Over)
    BY <1>4, KeptMoves
  <2>2. \A q \in Live' : q \in Live /\ proc'[q].path = proc[q].path
    BY <2>1 DEF Live, Kept
  <2>3. CASE Open(p)
    <3>1. p \in Live /\ proc[p].path \in CfgFiles /\ proc[p].path # None
      BY <2>3, OpenMoves, ConfigToolOK DEF FileInv, Live, Over
    <3>2. ASSUME NEW q \in Procs \ {p}, proc[q].pc \in Saving, proc[q].path = proc[p].path
          PROVE  proc[p].path \in raced
      BY <3>1, <3>2 DEF RaceInv, Live, Saving, Over
    <3>3. mixed' \subseteq raced
      BY <2>3, <3>2 DEF Open, RaceInv
    <3> QED
      BY <2>1, <2>2, <3>3 DEF RaceInv
  <2>4. CASE ~Open(p)
    <3>1. UNCHANGED mixed
      BY <1>4, <2>4, MainMoves, WriteMoves, ReturnMoves DEF SaveCfg, FileInv
    <3> QED
      BY <2>1, <2>2, <3>1 DEF RaceInv
  <2> QED
    BY <2>3, <2>4
<1> QED
  BY <1>1, <1>2, <1>3, <1>4 DEF Next, Main

LEMMA FlagsStep == FileInv /\ FlagsInv /\ [Next]_vars => FlagsInv'
<1> SUFFICES ASSUME FileInv, FlagsInv, [Next]_vars PROVE FlagsInv'
  OBVIOUS
<1>1. CASE UNCHANGED vars
  BY <1>1 DEF vars, FlagsInv, Live
<1>2. ASSUME NEW p \in Procs, Add(p) PROVE FlagsInv'
  <2> DEFINE new == Added(proc[p].cfg, Cmd(p))
  <2>1. /\ \A q \in Procs \ {p} : proc'[q] = proc[q]
        /\ proc[p].pc = "main" /\ proc'[p].pc = "main" /\ proc[p].cfg # None
        /\ proc'[p].path = proc[p].path /\ proc'[p].load = proc[p].load /\ proc'[p].save = TRUE
        /\ proc'[p].cfg = proc[p].cfg \cup new
        /\ proc'[p].asked = proc[p].asked \cup {<<Asked(p), x>> : x \in new}
    BY <1>2, AddMoves DEF FileInv
  <2>2. p \in Live
    BY <2>1 DEF Live, Over
  <2>3. proc[p].load => proc[p].path # None
    BY <2>1, <2>2 DEF FlagsInv
  <2> HIDE DEF new
  <2>4. ASSUME NEW a \in proc'[p].asked, a[1] = None
        PROVE  ~proc[p].load /\ a[2] \in proc'[p].cfg
    <3>1. CASE a \in proc[p].asked
      BY <2>1, <2>2, <2>4, <3>1 DEF FlagsInv
    <3>2. CASE a \in {<<Asked(p), x>> : x \in new}
      BY <2>1, <2>3, <2>4, <3>2 DEF Asked
    <3> QED
      BY <2>1, <3>1, <3>2
  <2>5. \A q \in Live' : q # p => q \in Live /\ proc'[q] = proc[q]
    BY <2>1 DEF Live
  <2> QED
    BY <2>1, <2>3, <2>4, <2>5 DEF FlagsInv
<1>3. ASSUME NEW p \in Procs, InitCfg(p) PROVE FlagsInv'
  <2>1. /\ \A q \in Procs \ {p} : proc'[q] = proc[q]
        /\ proc'[p].load = FALSE /\ proc'[p].save = TRUE
        /\ proc'[p].asked = {x \in proc[p].asked : x[1] # None}
    BY <1>3, InitMoves DEF FileInv
  <2>2. \A q \in Live' : q # p => q \in Live /\ proc'[q] = proc[q]
    BY <2>1 DEF Live
  <2> QED
    BY <2>1, <2>2 DEF FlagsInv
<1>4. ASSUME NEW p \in Procs, ReadCfg(p) PROVE FlagsInv'
  <2>1. /\ \A q \in Procs \ {p} : proc'[q] = proc[q]
        /\ proc[p].load /\ proc'[p].load = proc[p].load /\ proc'[p].path \in CfgFiles /\ proc'[p].path # None
        /\ proc'[p].asked = proc[p].asked /\ proc[p].pc \in {"main", "saved"}
    BY <1>4, ReadMoves, ConfigToolOK DEF FileInv
  <2>2. p \in Live /\ \A q \in Live' : q # p => q \in Live /\ proc'[q] = proc[q]
    BY <2>1 DEF Live, Over
  <2> QED
    BY <2>1, <2>2 DEF FlagsInv
<1>5. ASSUME NEW p \in Procs, NameCfg(p) PROVE FlagsInv'
  <2>1. PICK f : f = Cmd(p).file
    OBVIOUS
  <2>2. ProcsInv
    BY DEF FileInv
  <2>3. /\ \A q \in Procs \ {p} :
              /\ proc'[q].pc = proc[q].pc /\ proc'[q].cfg = proc[q].cfg /\ proc'[q].path = proc[q].path
              /\ proc'[q].save = proc[q].save /\ proc'[q].load = proc[q].load
        /\ proc'[p].load /\ proc'[p].path = f
    BY <1>5, <2>1, <2>2, NameMoves
  <2>4. /\ f # None
        /\ \A q \in Procs \ {p} : \A a \in proc'[q].asked : a \in proc[q].asked
        /\ \A a \in proc'[p].asked : a[1] # None
    BY <1>5, <2>1, <2>2, NameAsks
  <2>5. \A q \in Live' : q # p => q \in Live \ {p}
    BY <2>3 DEF Live
  <2> QED
    BY <2>3, <2>4, <2>5 DEF FlagsInv, Live
<1>6. ASSUME NEW p \in Procs,
             \/ List(p) \/ Abort(p) \/ TooFew(p) \/ SaveFirst(p) \/ Return0(p) \/ Kill(p) \/ SaveCfg(p)
      PROVE  FlagsInv'
  <2>1. Kept(p) /\ (proc'[p].pc \notin Over => proc[p].pc \notin Over)
    BY <1>6, KeptMoves
  <2> QED
    BY <2>1 DEF FlagsInv, Kept, Live
<1> QED
  BY <1>1, <1>2, <1>3, <1>4, <1>5, <1>6 DEF Next, Main

\* Saving changes what is in the file that is saved, when it is renamed, and in no other.
LEMMA ContentKept ==
    ASSUME FileInv, NEW p \in Procs, NEW g \in CfgFiles \ mixed,
           \/ Open(p) \/ Write(p) \/ CloseCfg(p) \/ SaveFails(p)
           \/ Rename(p) /\ proc[p].path # g
    PROVE  Content(g)' = Content(g)
<1>1. ProcsInv /\ NamesInv /\ WholeInv
  BY DEF FileInv
<1>2. <<g, "">> \in Names /\ dir[<<g, "">>] \in Inodes
  BY <1>1 DEF NamesInv, Names
<1>3. CASE Open(p)
  <2>1. PICK k, f : k = proc'[p].fd /\ f = proc[p].path
    OBVIOUS
  <2>2. /\ k \in Inodes /\ f \in CfgFiles /\ proc[p].pc = "open"
        /\ k = (IF dir[Tmp(p)] = None THEN Free ELSE dir[Tmp(p)])
        /\ dir' = [dir EXCEPT ![Tmp(p)] = k]
        /\ data' = [data EXCEPT ![k] = Holds("empty", {}, None)]
    BY <1>1, <1>3, <2>1, OpenMoves
  <2>3. Tmp(p) \in Names /\ <<g, "">> # Tmp(p) /\ f # None
    <3>1. <<g, "">>[2] # <<f, "_tmp">>[2]
      OBVIOUS
    <3> QED
      BY <1>1, <2>1, <2>2, <3>1, ItsNames, ConfigToolOK
  <2>4. dir'[<<g, "">>] = dir[<<g, "">>]
    BY <1>1, <1>2, <2>2, <2>3 DEF NamesInv
  <2>5. dir[<<g, "">>] # k
    <3>1. CASE dir[Tmp(p)] = None
      BY <1>1, <1>2, <2>1, <2>2, <2>3, <3>1, FreeIsFree
    <3>2. CASE dir[Tmp(p)] # None
      BY <1>1, <1>2, <2>2, <2>3, <3>2 DEF NamesInv
    <3> QED
      BY <3>1, <3>2
  <2>6. data'[dir[<<g, "">>]] = data[dir[<<g, "">>]]
    BY <1>1, <1>2, <2>2, <2>5 DEF NamesInv
  <2> QED
    BY <2>4, <2>6 DEF Content
<1>4. CASE Write(p) \/ CloseCfg(p) \/ SaveFails(p)
  <2>1. UNCHANGED dir
    BY <1>4 DEF Write, CloseCfg, SaveFails
  <2>2. \/ UNCHANGED data
        \/ proc[p].pc \in Saving /\ \A j \in Inodes : j # proc[p].fd => data'[j] = data[j]
    BY <1>1, <1>4, WriteMoves, ReturnMoves DEF Tear, NamesInv
  <2>3. proc[p].pc \in Saving => dir[<<g, "">>] # proc[p].fd
    BY <1>1, WritesOwn
  <2> QED
    BY <1>2, <2>1, <2>2, <2>3 DEF Content
<1>5. CASE Rename(p) /\ proc[p].path # g
  <2>1. PICK f : f = proc[p].path
    OBVIOUS
  <2>2. Tmp(p) = <<f, "_tmp">> /\ <<g, "">> # <<f, "">> /\ <<g, "">> # Tmp(p)
    <3>1. <<g, "">>[2] # <<f, "_tmp">>[2] /\ <<g, "">>[1] # <<f, "">>[1]
      BY <1>5, <2>1
    <3> QED
      BY <2>1, <3>1 DEF Tmp
  <2>3. dir'[<<g, "">>] = dir[<<g, "">>] /\ UNCHANGED data
    BY <1>1, <1>2, <1>5, <2>1, <2>2 DEF Rename, NamesInv
  <2> QED
    BY <2>3 DEF Content
<1> QED
  BY <1>3, <1>4, <1>5

LEMMA RenamePuts ==
    ASSUME FileInv, NEW p \in Procs, Rename(p), NEW f \in CfgFiles \ mixed, proc[p].path = f
    PROVE  Content(f)' = proc[p].cfg /\ p \in Savers(f)
<1>1. ProcsInv /\ NamesInv /\ WholeInv /\ IsProc(proc[p])
  BY DEF FileInv, ProcsInv
<1>2. p \in Savers(f) /\ proc[p].pc = "rename"
  BY DEF Savers, Rename, Saving
<1>3. Progress(p, f) /\ proc[p].fd \in Inodes
  BY <1>1, <1>2 DEF WholeInv, IsProc, Saving
<1>4. /\ Tmp(p) = <<f, "_tmp">> /\ Tmp(p) \in Names /\ <<f, "">> \in Names /\ <<f, "">> # Tmp(p)
  BY <1>1, ItsNames
<1>5. dir[Tmp(p)] = proc[p].fd /\ dir[Tmp(p)] # None
  BY <1>3, <1>4, NoInode DEF Progress
<1>6. dir'[<<f, "">>] = proc[p].fd /\ UNCHANGED data
  BY <1>1, <1>4, <1>5 DEF Rename, NamesInv
<1>7. data[proc[p].fd] = Holds("whole", proc[p].cfg, None)
  BY <1>2, <1>3 DEF Progress
<1>8. PICK c, d : c = proc[p].cfg /\ d = data[proc[p].fd]
  OBVIOUS
<1>9. d.cfg = c
  <2>1. d = [kind |-> "whole", cfg |-> c, by |-> None]
    BY <1>7, <1>8 DEF Holds
  <2> QED
    BY <2>1
<1> QED
  BY <1>2, <1>6, <1>8, <1>9 DEF Content

\* Only a rename changes what is in a file.
LEMMA ReplaceStep == FileInv /\ [Next]_vars => ChangedByRename
<1> SUFFICES ASSUME FileInv, [Next]_vars, NEW f \in CfgFiles \ mixed', Content(f)' # Content(f)
             PROVE  \E p \in Procs : /\ proc[p].pc = "rename" /\ proc[p].path = f
                                     /\ Content(f)' = proc[p].cfg
  BY DEF ChangedByRename
<1>1. ~UNCHANGED <<dir, data>>
  BY DEF Content
<1>2. PICK p \in Procs : Main(p) \/ SaveCfg(p) \/ Kill(p)
  BY <1>1 DEF Next, vars
<1>3. ~(Main(p) \/ SaveNowhere(p) \/ Kill(p))
  BY <1>1, MainIsApart DEF FileInv, Apart
<1>4. Open(p) \/ Write(p) \/ CloseCfg(p) \/ SaveFails(p) \/ Rename(p)
  BY <1>2, <1>3 DEF SaveCfg
<1>5. mixed \subseteq mixed'
  BY <1>4 DEF Open, Write, CloseCfg, SaveFails, Rename, History
<1>6. f \in CfgFiles \ mixed
  BY <1>5
<1>7. Rename(p) /\ proc[p].path = f
  BY <1>4, <1>6, ContentKept
<1>8. Content(f)' = proc[p].cfg
  BY <1>6, <1>7, RenamePuts
<1> QED
  BY <1>7, <1>8 DEF Rename

\* Whatever is in the way of a save, a file keeps what it holds until one process renames
\* its own text, whole, over it: the property ReplacedWhole of the run "config".
THEOREM ReplacedByRename == Spec => ReplacedWhole
BY FileAlways, ReplaceStep, PTL DEF Spec, ReplacedWhole

\* A step after which f, and what processes do about f, are as before.
LEMMA KeptArrives ==
    ASSUME NEW p \in Procs, NEW f \in CfgFiles, Arrives(f), Kept(p), UNCHANGED want,
           Content(f)' = Content(f),
           proc'[p].pc \notin Over => proc[p].pc \notin Over,
           proc'[p].pc \in Saving /\ proc[p].path = f => proc[p].load,
           proc'[p].pc = "saved" => proc[p].path # f
    PROVE  Arrives(f)'
<1>1. \A q \in Procs : /\ proc'[q].path = proc[q].path /\ proc'[q].cfg = proc[q].cfg
                       /\ proc'[q].asked = proc[q].asked
                       /\ proc'[q].save = proc[q].save /\ proc'[q].load = proc[q].load
                       /\ q # p => proc'[q].pc = proc[q].pc
  BY DEF Kept
<1>2. \A q \in Live' : q \in Live /\ q \in Procs
  BY <1>1 DEF Live
<1>3. \A q \in Savers(f)' : q \in Procs /\ proc[q].load
  BY <1>1 DEF Savers, Arrives
<1>4. \A q \in Live' : Unsaved(q, f) => Unsaved(q, f)'
  BY <1>1, <1>2 DEF Unsaved
<1>5. want'[f] \subseteq Content(f)'
  BY DEF Arrives
<1>6. ASSUME NEW q \in Live', NEW a \in proc'[q].asked, a[1] = f
      PROVE  a[2] \in Content(f)' \/ Unsaved(q, f)'
  BY <1>1, <1>2, <1>4, <1>6 DEF Arrives
<1>7. ASSUME NEW q \in Live', proc'[q].path = f, proc'[q].load
      PROVE  /\ want'[f] \subseteq proc'[q].cfg
             /\ \A r \in Live' : \A a \in proc'[r].asked : a[1] = f => a[2] \in proc'[q].cfg
  BY <1>1, <1>2, <1>7 DEF Arrives
<1> QED
  BY <1>1, <1>3, <1>5, <1>6, <1>7 DEF Arrives, Savers

\* What p has put into f it finds there again; what others have not yet, p has.
LEMMA RenameArrives ==
    ASSUME FileInv, NEW p \in Procs, Rename(p), NEW f \in CfgFiles \ mixed, proc[p].path = f, Arrives(f)
    PROVE  Arrives(f)'
<1>1. Content(f)' = proc[p].cfg /\ p \in Savers(f)
  BY RenamePuts
<1>2. Kept(p) /\ UNCHANGED want /\ proc'[p].pc = "saved" /\ proc[p].pc = "rename" /\ p \in Live
  BY ReturnMoves DEF FileInv, Rename, Live, Over
<1>3. proc[p].load
  BY <1>1 DEF Arrives
<1>4. \A q \in Procs : /\ proc'[q].path = proc[q].path /\ proc'[q].cfg = proc[q].cfg
                       /\ proc'[q].asked = proc[q].asked /\ proc'[q].load = proc[q].load
                       /\ q # p => proc'[q].pc = proc[q].pc
  BY <1>2 DEF Kept
<1>5. \A q \in Live' : q \in Live /\ q \in Procs
  BY <1>2, <1>4 DEF Live
<1>6. \A q \in Savers(f)' : q \in Procs /\ proc[q].load
  BY <1>2, <1>4 DEF Savers, Arrives, Saving
<1>7. /\ want[f] \subseteq proc[p].cfg
      /\ \A q \in Live : \A a \in proc[q].asked : a[1] = f => a[2] \in proc[p].cfg
  BY <1>2, <1>3 DEF Arrives
<1>8. ASSUME NEW q \in Live', proc'[q].path = f, proc'[q].load
      PROVE  /\ want'[f] \subseteq proc'[q].cfg
             /\ \A r \in Live' : \A a \in proc'[r].asked : a[1] = f => a[2] \in proc'[q].cfg
  BY <1>2, <1>4, <1>5, <1>8 DEF Arrives
<1>9. want'[f] \subseteq Content(f)'
  BY <1>1, <1>2, <1>7
<1>10. ASSUME NEW q \in Live', NEW a \in proc'[q].asked, a[1] = f PROVE a[2] \in Content(f)'
  BY <1>1, <1>4, <1>5, <1>7, <1>10
<1> QED
  BY <1>4, <1>6, <1>8, <1>9, <1>10 DEF Arrives, Savers

\* What p was asked to add is in the files already when it returns 0.
LEMMA ReturnArrives ==
    ASSUME FileInv, NEW p \in Procs, Return0(p), NEW f \in CfgFiles, Arrives(f)
    PROVE  Arrives(f)'
<1>1. Kept(p) /\ UNCHANGED <<dir, data>> /\ proc'[p].pc \in Over /\ proc[p].pc \in {"main", "saved"}
  <2>1. Kept(p) /\ UNCHANGED <<dir, data>>
    BY MainMoves DEF FileInv
  <2>2. proc'[p].pc \in Over
    <3>1. ProcsInv /\ proc' = [proc EXCEPT ![p] = [proc[p] EXCEPT !.pc = "done"]]
      BY DEF FileInv, Return0, Go, Become
    <3> QED
      BY <3>1 DEF ProcsInv, IsProc, Over
  <2> QED
    BY <2>1, <2>2 DEF Return0, Saved
<1>2. p \in Live /\ Content(f)' = Content(f)
  BY <1>1 DEF Live, Over, Content
<1>3. ~Unsaved(p, f)
  BY DEF Return0, Saved, Unsaved
<1>4. \A a \in proc[p].asked : a[1] = f => a[2] \in Content(f)
  BY <1>2, <1>3 DEF Arrives
<1>5. want'[f] = want[f] \cup {a[2] : a \in {b \in proc[p].asked : b[1] = f}}
  BY DEF Return0
<1>6. want'[f] \subseteq Content(f)'
  BY <1>2, <1>4, <1>5 DEF Arrives
<1>7. \A q \in Live' : q \in Live /\ q \in Procs /\ q # p /\ proc'[q] = proc[q]
  BY <1>1 DEF Live, Kept
<1>8. \A q \in Savers(f)' : q \in Procs /\ proc'[q].load
  BY <1>1, <1>7 DEF Savers, Arrives, Kept, Saving, Over
<1>9. ASSUME NEW q \in Live', NEW a \in proc'[q].asked, a[1] = f
      PROVE  a[2] \in Content(f)' \/ Unsaved(q, f)'
  BY <1>2, <1>7, <1>9 DEF Arrives, Unsaved
<1>10. ASSUME NEW q \in Live', proc'[q].path = f, proc'[q].load
       PROVE  /\ want'[f] \subseteq proc'[q].cfg
              /\ \A r \in Live' : \A a \in proc'[r].asked : a[1] = f => a[2] \in proc'[q].cfg
  BY <1>2, <1>5, <1>7, <1>10 DEF Arrives
<1> QED
  BY <1>6, <1>8, <1>9, <1>10 DEF Arrives

\* What is added goes to a file that no other process works on.
LEMMA AddArrives ==
    ASSUME FileInv, RaceInv, NEW p \in Procs, Add(p), NEW f \in CfgFiles \ raced, Arrives(f)
    PROVE  Arrives(f)'
<1>1. PICK new : new = Added(proc[p].cfg, Cmd(p))
  OBVIOUS
<1>2. /\ UNCHANGED <<dir, data, want>> /\ \A q \in Procs \ {p} : proc'[q] = proc[q]
      /\ proc[p].pc = "main" /\ proc'[p].pc = "main"
      /\ proc'[p].path = proc[p].path /\ proc'[p].load = proc[p].load /\ proc'[p].save = TRUE
      /\ proc'[p].cfg = proc[p].cfg \cup new
      /\ proc'[p].asked = proc[p].asked \cup {<<Asked(p), q>> : q \in new}
  BY <1>1, AddMoves DEF FileInv
<1>3. p \in Live /\ Live' = Live /\ Savers(f)' = Savers(f) \ {p} /\ Content(f)' = Content(f)
  BY <1>2 DEF Live, Over, Savers, Saving, Content
<1>4. ASSUME NEW a \in proc'[p].asked, a[1] = f
      PROVE  \/ a \in proc[p].asked
             \/ a[2] \in new /\ proc[p].path = f /\ proc[p].load
  <2>1. CASE a \in {<<Asked(p), q>> : q \in new}
    <3>1. a[2] \in new /\ Asked(p) = f /\ f # None
      BY <1>4, <2>1, ConfigToolOK
    <3> QED
      BY <3>1 DEF Asked
  <2> QED
    BY <1>2, <2>1
<1>5. want'[f] \subseteq Content(f)'
  BY <1>2, <1>3 DEF Arrives
<1>6. \A q \in Savers(f)' : proc'[q].load
  BY <1>2, <1>3 DEF Arrives, Savers
<1>7. ASSUME NEW q \in Live', NEW a \in proc'[q].asked, a[1] = f
      PROVE  a[2] \in Content(f)' \/ Unsaved(q, f)'
  <2>1. CASE q # p
    BY <1>2, <1>3, <1>7, <2>1 DEF Arrives, Unsaved, Live
  <2>2. CASE q = p
    <3>1. a \in proc[p].asked \/ Unsaved(p, f)'
      BY <1>2, <1>4, <1>7, <2>2 DEF Unsaved
    <3>2. a \in proc[p].asked => a[2] \in Content(f) \/ Unsaved(p, f)
      BY <1>3, <1>7, <2>2 DEF Arrives
    <3> QED
      BY <1>2, <1>3, <2>2, <3>1, <3>2 DEF Unsaved
  <2> QED
    BY <2>1, <2>2
<1>8. ASSUME NEW q \in Live', proc'[q].path = f, proc'[q].load
      PROVE  want'[f] \subseteq proc'[q].cfg
  BY <1>2, <1>3, <1>8 DEF Arrives, Live
<1>9. ASSUME NEW q \in Live', proc'[q].path = f, proc'[q].load,
             NEW r \in Live', NEW a \in proc'[r].asked, a[1] = f
      PROVE  a[2] \in proc'[q].cfg
  <2>1. proc[q].path = f /\ proc[q].load /\ q \in Live /\ r \in Live /\ proc[q].cfg \subseteq proc'[q].cfg
    BY <1>2, <1>3, <1>9 DEF Live
  <2>2. CASE a \in proc[r].asked
    BY <1>9, <2>1, <2>2 DEF Arrives
  <2>3. CASE a \notin proc[r].asked
    <3>1. r = p /\ a[2] \in new /\ proc[p].path = f
      BY <1>2, <1>4, <1>9, <2>1, <2>3 DEF Live
    <3>2. q = p
      BY <1>3, <2>1, <3>1, ConfigToolOK DEF RaceInv
    <3> QED
      BY <1>2, <3>1, <3>2
  <2> QED
    BY <2>2, <2>3
<1> QED
  BY <1>5, <1>6, <1>7, <1>8, <1>9 DEF Arrives

LEMMA InitArrives ==
    ASSUME FileInv, NEW p \in Procs, InitCfg(p), NEW f \in CfgFiles, Arrives(f)
    PROVE  Arrives(f)'
<1>1. /\ UNCHANGED <<dir, data, want>> /\ \A q \in Procs \ {p} : proc'[q] = proc[q]
      /\ Saved(p) /\ proc[p].pc \in {"main", "saved"} /\ proc'[p].pc = "main"
      /\ ~proc'[p].load /\ \A a \in proc'[p].asked : a \in proc[p].asked
  BY InitMoves DEF FileInv
<1>2. p \in Live /\ Live' = Live /\ Savers(f)' = Savers(f) \ {p} /\ Content(f)' = Content(f)
  BY <1>1 DEF Live, Over, Savers, Saving, Content
<1>3. ~Unsaved(p, f)
  BY <1>1 DEF Saved, Unsaved
<1>4. want'[f] \subseteq Content(f)'
  BY <1>1, <1>2 DEF Arrives
<1>5. \A q \in Savers(f)' : proc'[q].load
  BY <1>1, <1>2 DEF Arrives, Savers
<1>6. ASSUME NEW q \in Live', NEW a \in proc'[q].asked, a[1] = f
      PROVE  a[2] \in Content(f)' \/ Unsaved(q, f)'
  BY <1>1, <1>2, <1>3, <1>6 DEF Arrives, Unsaved, Live
<1>7. ASSUME NEW q \in Live', proc'[q].path = f, proc'[q].load
      PROVE  /\ want'[f] \subseteq proc'[q].cfg
             /\ \A r \in Live' : \A a \in proc'[r].asked : a[1] = f => a[2] \in proc'[q].cfg
  BY <1>1, <1>2, <1>7 DEF Arrives, Live
<1> QED
  BY <1>4, <1>5, <1>6, <1>7 DEF Arrives

\* What p reads is all that is promised: those who have more to add would race with it.
LEMMA ReadArrives ==
    ASSUME FileInv, NEW p \in Procs, ReadCfg(p), NEW f \in CfgFiles \ raced', Arrives(f)
    PROVE  Arrives(f)'
<1>1. PICK g : g = Cmd(p).file
  OBVIOUS
<1>2. /\ UNCHANGED <<dir, data, want>> /\ \A q \in Procs \ {p} : proc'[q] = proc[q]
      /\ Race(p, g) /\ Saved(p) /\ proc[p].pc \in {"main", "saved"} /\ proc'[p].pc = "main"
      /\ proc'[p].path = g /\ proc'[p].cfg = Content(g) /\ proc'[p].asked = proc[p].asked
  BY <1>1, ReadMoves DEF FileInv
<1>3. p \in Live /\ Live' = Live /\ Savers(f)' = Savers(f) \ {p} /\ Content(f)' = Content(f)
  BY <1>2 DEF Live, Over, Savers, Saving, Content
<1>4. ~Unsaved(p, f)
  BY <1>2 DEF Saved, Unsaved
<1>5. want'[f] \subseteq Content(f)'
  BY <1>2, <1>3 DEF Arrives
<1>6. \A q \in Savers(f)' : proc'[q].load
  BY <1>2, <1>3 DEF Arrives, Savers
<1>7. ASSUME NEW q \in Live, NEW a \in proc'[q].asked, a[1] = f
      PROVE  a[2] \in Content(f)' \/ (Unsaved(q, f)' /\ q # p /\ proc[q].path = f)
  BY <1>2, <1>3, <1>4, <1>7 DEF Arrives, Unsaved, Live
<1>8. ASSUME NEW q \in Live', proc'[q].path = f, proc'[q].load, q # p
      PROVE  /\ want'[f] \subseteq proc'[q].cfg
             /\ \A r \in Live' : \A a \in proc'[r].asked : a[1] = f => a[2] \in proc'[q].cfg
  BY <1>2, <1>3, <1>8 DEF Arrives, Live
<1>9. ASSUME g = f
      PROVE  /\ want'[f] \subseteq proc'[p].cfg
             /\ \A r \in Live' : \A a \in proc'[r].asked : a[1] = f => a[2] \in proc'[p].cfg
  <2>1. ~Others(p, f)
    BY <1>2, <1>9 DEF Race
  <2>2. \A q \in Live : q # p => proc[q].path # f
    BY <2>1 DEF Others, Live
  <2> QED
    BY <1>2, <1>3, <1>5, <1>7, <1>9, <2>2
<1> QED
  BY <1>2, <1>3, <1>5, <1>6, <1>7, <1>8, <1>9 DEF Arrives

\* What p replaces is void; what it will put there is what it was asked to add.
LEMMA NameArrives ==
    ASSUME FileInv, FlagsInv, ArriveInv, NEW p \in Procs, NameCfg(p),
           NEW f \in CfgFiles \ raced', Arrives(f)
    PROVE  Arrives(f)'
<1>1. PICK g : g = Cmd(p).file
  OBVIOUS
<1>2. ProcsInv
  BY DEF FileInv
<1>3. /\ UNCHANGED <<dir, data>> /\ want' = [want EXCEPT ![g] = {}] /\ Race(p, g) /\ g \in CfgFiles
      /\ \A q \in Procs \ {p} :
             /\ proc'[q].pc = proc[q].pc /\ proc'[q].cfg = proc[q].cfg /\ proc'[q].path = proc[q].path
             /\ proc'[q].save = proc[q].save /\ proc'[q].load = proc[q].load
      /\ proc[p].pc = "main" /\ proc'[p].pc = "main" /\ ~proc[p].load
      /\ proc'[p].load /\ proc'[p].path = g /\ proc'[p].cfg = proc[p].cfg /\ proc'[p].save = proc[p].save
  BY <1>1, <1>2, NameMoves
<1>4. /\ \A q \in Procs \ {p} : \A a \in proc'[q].asked : a \in proc[q].asked /\ a[1] # g
      /\ \A a \in proc'[p].asked :
             \/ a \in proc[p].asked /\ a[1] # g
             \/ a[1] = g /\ \E x \in proc[p].asked : x[1] = None /\ x[2] = a[2]
  BY <1>1, <1>2, NameAsks
<1>5. p \in Live /\ Live' = Live /\ Savers(f)' = Savers(f) \ {p} /\ Content(f)' = Content(f)
  BY <1>3 DEF Live, Over, Savers, Saving, Content
<1>6. want'[f] = IF f = g THEN {} ELSE want[f]
  BY <1>3 DEF ArriveInv
<1>7. proc[p].save /\ \A x \in proc[p].asked : x[1] = None => x[2] \in proc[p].cfg
  BY <1>3, <1>5 DEF FlagsInv
<1>8. \A q \in Savers(f)' : proc'[q].load
  BY <1>3, <1>5 DEF Arrives, Savers
<1>9. CASE f = g
  <2>1. \A q \in Live : q # p => proc[q].path # f
    BY <1>3, <1>9 DEF Race, Others, Live
  <2>2. \A q \in Live' : \A a \in proc'[q].asked : a[1] = f => q = p /\ a[2] \in proc[p].cfg
    BY <1>4, <1>5, <1>7, <1>9 DEF Live
  <2>3. Unsaved(p, f)'
    BY <1>3, <1>7, <1>9 DEF Unsaved
  <2>4. \A q \in Live' : proc'[q].path = f => q = p
    BY <1>3, <1>5, <2>1 DEF Live
  <2> QED
    BY <1>3, <1>6, <1>8, <1>9, <2>2, <2>3, <2>4 DEF Arrives
<1>10. CASE f # g
  <2>1. \A q \in Live' : \A a \in proc'[q].asked : a[1] = f => a \in proc[q].asked
    BY <1>4, <1>5, <1>10 DEF Live
  <2>2. \A q \in Live' : q # p => (Unsaved(q, f)' <=> Unsaved(q, f))
    BY <1>3 DEF Unsaved, Live
  <2>3. ~Unsaved(p, f)
    BY <1>3 DEF Unsaved
  <2>4. ASSUME NEW q \in Live', NEW a \in proc'[q].asked, a[1] = f
        PROVE  a[2] \in Content(f)' \/ Unsaved(q, f)'
    BY <1>5, <2>1, <2>2, <2>3, <2>4 DEF Arrives
  <2>5. ASSUME NEW q \in Live', proc'[q].path = f, proc'[q].load
        PROVE  /\ want'[f] \subseteq proc'[q].cfg
               /\ \A r \in Live' : \A a \in proc'[r].asked : a[1] = f => a[2] \in proc'[q].cfg
    <3>1. q \in Live /\ q # p /\ proc[q].path = f /\ proc[q].load /\ proc'[q].cfg = proc[q].cfg
      BY <1>3, <1>5, <1>10, <2>5 DEF Live
    <3> QED
      BY <1>5, <1>6, <1>10, <2>1, <3>1 DEF Arrives
  <2>6. want'[f] \subseteq Content(f)'
    BY <1>5, <1>6, <1>10 DEF Arrives
  <2> QED
    BY <1>8, <2>4, <2>5, <2>6 DEF Arrives
<1> QED
  BY <1>9, <1>10

\* The steps of saveCfg but the one that renames f.
LEMMA SaveArrives ==
    ASSUME FileInv, RaceInv, NEW p \in Procs, SaveCfg(p) \/ Kill(p), ~Return0(p),
           NEW f \in CfgFiles \ (raced' \cup failed'), Rename(p) => proc[p].path # f, Arrives(f)
    PROVE  Arrives(f)'
<1>1. /\ Kept(p) /\ raced' = raced /\ f \notin mixed /\ UNCHANGED want
      /\ proc'[p].pc \notin Over => proc[p].pc \notin Over
  <2>1. UNCHANGED want
    BY DEF SaveCfg, Kill, Open, SaveNowhere, Write, CloseCfg, SaveFails, Rename, History
  <2> QED
    BY <2>1, KeptMoves DEF RaceInv
<1>2. ProcsInv /\ IsProc(proc[p]) /\ None \notin CfgFiles
  BY ConfigToolOK DEF FileInv, ProcsInv
<1>3. CASE SaveNowhere(p) \/ Kill(p)
  <2>1. Content(f)' = Content(f)
    BY <1>3 DEF SaveNowhere, Kill, Content
  <2>2. proc'[p].pc \in Over \/ (proc[p].path = None /\ proc'[p].pc = "saved")
    <3>1. Kill(p) => proc' = [proc EXCEPT ![p] = [proc[p] EXCEPT !.pc = "aborted", !.fd = None]]
      BY DEF Kill, Become
    <3>2. Kill(p) => proc'[p].pc = "aborted"
      BY <1>2, <3>1 DEF ProcsInv, IsProc
    <3>3. SaveNowhere(p) => proc[p].pc = "open" /\ proc[p].path = None
      BY DEF SaveNowhere
    <3>4. proc'[p].pc \in Over \/ proc[p].pc = "main" \/ proc'[p].pc = "saved"
      BY <1>2, <1>3, MainMoves
    <3> QED
      BY <1>3, <3>2, <3>3, <3>4 DEF Over
  <2> QED
    BY <1>1, <1>2, <2>1, <2>2, KeptArrives DEF Over, Saving
<1>4. CASE Open(p)
  <2>1. proc'[p].pc = "write" /\ (proc[p].path = f => proc[p].load)
    BY <1>2, <1>4, OpenMoves DEF FileInv, Open
  <2> QED
    BY <1>1, <1>4, <2>1, ContentKept, KeptArrives
<1>5. CASE Write(p) \/ CloseCfg(p)
  <2>1. proc[p].pc \in Saving /\ proc'[p].pc \in {"close", "rename"}
    BY <1>2, <1>5, WriteMoves
  <2>2. proc[p].path = f => proc[p].load
    BY <2>1 DEF Arrives, Savers
  <2> QED
    BY <1>1, <1>5, <2>1, <2>2, ContentKept, KeptArrives
<1>6. CASE SaveFails(p) \/ Rename(p)
  <2>1. proc'[p].pc = "saved" /\ proc[p].path # f
    BY <1>2, <1>6, ReturnMoves DEF SaveFails
  <2> QED
    BY <1>1, <1>6, <2>1, ContentKept, KeptArrives DEF Saving
<1> QED
  BY <1>3, <1>4, <1>5, <1>6 DEF SaveCfg

LEMMA ArriveStep == FileInv /\ RaceInv /\ FlagsInv /\ ArriveInv /\ [Next]_vars => ArriveInv'
<1> SUFFICES ASSUME FileInv, RaceInv, FlagsInv, ArriveInv, [Next]_vars PROVE ArriveInv'
  OBVIOUS
<1>1. CASE UNCHANGED vars
  <2>1. UNCHANGED <<proc, dir, data, want, raced, failed>>
    BY <1>1 DEF vars
  <2>2. /\ Live' = Live
        /\ \A f : /\ Content(f)' = Content(f) /\ Savers(f)' = Savers(f)
                 /\ \A p : Unsaved(p, f)' <=> Unsaved(p, f)
    BY <2>1 DEF Content, Unsaved, Live, Savers
  <2>3. \A f : Arrives(f) => Arrives(f)'
    BY <2>1, <2>2 DEF Arrives
  <2> QED
    BY <2>1, <2>3 DEF ArriveInv
<1>2. ASSUME NEW p \in Procs, Main(p) \/ SaveCfg(p) \/ Kill(p) PROVE ArriveInv'
  <2>1. want' = [f \in CfgFiles |-> want'[f]]
    <3>1. UNCHANGED want \/ Return0(p) \/ want' = [want EXCEPT ![Cmd(p).file] = {}]
      BY <1>2 DEF Main, SaveCfg, Add, List, Abort, TooFew, SaveFirst, InitCfg, ReadCfg, NameCfg,
                  Kill, Open, SaveNowhere, Write, CloseCfg, SaveFails, Rename, History
    <3> QED
      BY <3>1 DEF Return0, ArriveInv
  <2>2. raced \subseteq raced' /\ failed \subseteq failed'
    <3>1. CASE Add(p) \/ InitCfg(p) \/ ReadCfg(p) \/ NameCfg(p)
      BY <3>1 DEF Add, InitCfg, ReadCfg, NameCfg, History, Race
    <3>2. CASE ~(Add(p) \/ InitCfg(p) \/ ReadCfg(p) \/ NameCfg(p))
      <4>1. raced' = raced
        BY <1>2, <3>2, KeptMoves DEF Main
      <4>2. failed \subseteq failed'
        BY <1>2, <3>2 DEF Main, SaveCfg, List, Abort, TooFew, SaveFirst, Return0,
                          Kill, Open, SaveNowhere, Write, CloseCfg, SaveFails, Rename, History
      <4> QED
        BY <4>1, <4>2
    <3> QED
      BY <3>1, <3>2
  <2>3. ASSUME NEW f \in CfgFiles \ (raced' \cup failed')
        PROVE  Arrives(f)'
    <3>1. Arrives(f) /\ f \notin raced /\ f \notin mixed
      BY <2>2, <2>3 DEF ArriveInv, RaceInv
    <3>2. CASE Return0(p)
      BY <3>1, <3>2, ReturnArrives
    <3>3. CASE Add(p)
      BY <3>1, <3>3, AddArrives
    <3>4. CASE InitCfg(p)
      BY <3>1, <3>4, InitArrives
    <3>5. CASE ReadCfg(p)
      BY <2>3, <3>1, <3>5, ReadArrives
    <3>6. CASE NameCfg(p)
      BY <2>3, <3>1, <3>6, NameArrives
    <3>7. CASE Rename(p) /\ proc[p].path = f
      BY <3>1, <3>7, RenameArrives
    <3>8. CASE (SaveCfg(p) \/ Kill(p)) /\ ~Return0(p) /\ ~(Rename(p) /\ proc[p].path = f)
      BY <2>3, <3>1, <3>8, SaveArrives
    <3>9. CASE (List(p) \/ Abort(p) \/ TooFew(p) \/ SaveFirst(p)) /\ ~Return0(p)
      <4>1. /\ Kept(p) /\ UNCHANGED <<dir, data, want>>
            /\ proc'[p].pc \in Over \/ proc'[p].pc \in {"main", "open"} \/ proc[p].path = None
        BY <3>9, MainMoves DEF FileInv
      <4>2. Content(f)' = Content(f) /\ (proc'[p].pc \notin Over => proc[p].pc \notin Over)
        BY <3>9, <4>1, KeptMoves DEF Content
      <4>3. proc'[p].pc \notin Saving /\ proc'[p].pc # "saved"
        BY <3>9, <4>1, MainMoves DEF FileInv, Over, Saving, List, Abort, TooFew, SaveFirst, Saved
      <4> QED
        BY <3>1, <4>1, <4>2, <4>3, KeptArrives
    <3> QED
      BY <1>2, <3>2, <3>3, <3>4, <3>5, <3>6, <3>7, <3>8, <3>9 DEF Main
  <2> QED
    BY <2>1, <2>3 DEF ArriveInv
<1> QED
  BY <1>1, <1>2 DEF Next

LEMMA ArriveInit == Init => RaceInv /\ FlagsInv /\ ArriveInv
<1> SUFFICES ASSUME Init PROVE RaceInv /\ FlagsInv /\ ArriveInv
  OBVIOUS
<1>1. PICK ls : proc = [p \in Procs |->
          [pc |-> "main", line |-> ls[p], i |-> 1, cfg |-> None, path |-> None,
           save |-> FALSE, load |-> TRUE, fd |-> None, part |-> FALSE, asked |-> {}]]
  BY DEF Init
<1>2. \A p \in Procs : /\ proc[p].pc = "main" /\ proc[p].path = None /\ proc[p].cfg = None
                       /\ proc[p].load /\ proc[p].asked = {}
  BY <1>1
<1>3. RaceInv
  BY <1>2 DEF RaceInv, Live, Init
<1>4. FlagsInv
  BY <1>2 DEF FlagsInv, Live
<1>5. want = [f \in CfgFiles |-> {}]
  BY DEF Init
<1>6. ASSUME NEW f \in CfgFiles PROVE Arrives(f)
  <2>1. want[f] = {} /\ Savers(f) = {}
    BY <1>2, <1>5 DEF Savers, Saving
  <2> QED
    BY <1>2, <2>1 DEF Arrives, Live
<1> QED
  BY <1>3, <1>4, <1>5, <1>6 DEF ArriveInv

LEMMA Always == Spec => []Inv
<1>1. Init => Inv
  BY FileInit, ArriveInit DEF Inv
<1>2. Inv /\ [Next]_vars => Inv'
  BY FileStep, RaceStep, FlagsStep, ArriveStep DEF Inv
<1> QED
  BY <1>1, <1>2, PTL DEF Spec

\* Main's save and load flags are right: what a process that returned 0 was asked to add is
\* in the file, and no later process removes it, unless two of them worked on the file at
\* once, the save failed, or -ic or -is was not followed by a name (main of configtool.cpp).
THEOREM ChangesStay == Spec => []ChangesArrive
<1>1. Inv => ChangesArrive
  <2> SUFFICES ASSUME Inv PROVE ChangesArrive
    OBVIOUS
  <2>1. ASSUME NEW f \in CfgFiles \ (raced \cup failed) PROVE Readable(f) /\ want[f] \subseteq Content(f)
    <3>1. f \notin mixed
      BY DEF Inv, RaceInv
    <3> QED
      BY <3>1 DEF Inv, FileInv, NamesInv, WholeInv, ArriveInv, Arrives, Readable
  <2> QED
    BY <2>1 DEF ChangesArrive
<1> QED
  BY Always, <1>1, PTL

=============================================================================
