------------------------------ MODULE MCClient ------------------------------
(* Client in the directory /hh, where there are eee, which is empty, and a *)
(* directory with a file of three bytes.                                   *)
EXTENDS Client, TLC

HH == <<"h", "h">>
BB == <<"b", "b">>
EEE == <<"e", "e", "e">>
Tree == (<<HH, BB, <<"a">>>> :> 3) @@ (<<HH, EEE>> :> 0)
Home == <<HH>>

To(t) == [opt |-> "-t", val |-> t]
File(p) == [opt |-> "-f", val |-> p]
Parent == combinePath(BB, DotDot)

Lines == {
    \* a file for each of two targets
    <<To("s"), File(combinePath(BB, <<"a">>)), To("t"), File(BB)>>,
    \* nothing without a target; a directory
    <<File(BB), To("s"), File(<<Slash, "h", "h", Slash>>)>>,
    \* a name of three characters; what is above the directory
    <<To("s"), File(EEE)>>,
    <<To("s"), File(DotDot)>>,
    \* down and up again; nothing is sent of a path that ends so
    <<To("s"), File(combinePath(Parent, EEE)), File(Parent)>>,
    \* one character before a slash
    <<To("s"), File(<<"x", Slash>>)>> }
=============================================================================
