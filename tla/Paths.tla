------------------------------- MODULE Paths --------------------------------
(***************************************************************************)
(* The path functions of sysapi/posix/misc.cpp, and what the kernel makes  *)
(* of a path.  A path is a sequence of characters.                         *)
(***************************************************************************)
EXTENDS Naturals, Sequences, SequencesExt, FiniteSetsExt

Slash == "/"

Slashes(p) == {i \in DOMAIN p : p[i] = Slash}

combinePath(dir, file) == dir \o <<Slash>> \o file

\* The number of characters before the name.
getFileName(p) == IF Slashes(p) = {} THEN 0 ELSE Max(Slashes(p))

\* The loop does not look at the first character: a path of which nothing else is
\* left becomes "/", the name "a" as well as "//".
trimSlashes(p) ==
    LET kept == {i \in 2..Len(p) : p[i] # Slash}
    IN  IF kept = {} THEN <<Slash>> ELSE SubSeq(p, 1, Max(kept))

\* ".." between slashes, or at the beginning.  The test at the end is of the length:
\* a ".." at the end is missed, and names of three characters are all unsafe.
pathIsUnsafe(p) ==
    \/ Len(p) = 3
    \/ \E i \in Slashes(p) :
           /\ i > 2 /\ p[i - 1] = "." /\ p[i - 2] = "."
           /\ (i > 3 => p[i - 3] = Slash)

-----------------------------------------------------------------------------
(* The components of a path, as the kernel walks them.                     *)

Enter(at, word) ==
    CASE word \in {<<>>, <<".">>} -> at
      [] word = <<".", ".">> -> IF at = <<>> THEN <<>> ELSE Front(at)
      [] OTHER -> Append(at, word)

Walk(start, p) ==
    LET step[n \in 0..Len(p)] ==
            IF n = 0 THEN [at |-> start, word |-> <<>>]
            ELSE IF p[n] = Slash
                 THEN [at |-> Enter(step[n - 1].at, step[n - 1].word), word |-> <<>>]
                 ELSE [step[n - 1] EXCEPT !.word = Append(@, p[n])]
    IN  Enter(step[Len(p)].at, step[Len(p)].word)

\* Relative paths start at the directory cwd.
Resolve(cwd, p) == Walk(IF p # <<>> /\ p[1] = Slash THEN <<>> ELSE cwd, p)

=============================================================================
