------------------------------- MODULE Channel -------------------------------
(***************************************************************************)
(* One direction of a connection as client and server use it: sendData    *)
(* takes a message and answers 1 or 0, recvData gives the messages out    *)
(* whole and in the order of the calls, and none that sendData reports as *)
(* failed, before or after that answer.  That holds up to the first       *)
(* message that the receiver has no room for: from there on anything may  *)
(* come out.  What 1 does not promise is that the message has arrived.    *)
(* There are no bytes, pieces and sockets; Transport refines this module. *)
(***************************************************************************)
EXTENDS Naturals, Sequences

CONSTANTS Sizes,
          Fits        \* the largest message a receiver has room for

VARIABLES calls,      \* the sizes of the messages that sendData was called with
          answers,    \* its answers
          delivered   \* what recvData has given out

cvars == <<calls, answers, delivered>>

\* Byte i of message m is <<m, i>>.
Whole(m) == [i \in 1..calls[m] |-> <<m, i>>]

\* One of the first m messages does not fit.
Overrun(m) == \E k \in DOMAIN calls : k <= m /\ calls[k] > Fits

Init == calls = <<>> /\ answers = <<>> /\ delivered = <<>>

Call(n) ==
    /\ Len(calls) = Len(answers)
    /\ calls' = Append(calls, n)
    /\ UNCHANGED <<answers, delivered>>

\* It may come before the answer.
Deliver ==
    /\ Len(delivered) < Len(calls)
    /\ LET m == Len(delivered) + 1 IN
          /\ ~Overrun(m)
          /\ m \in DOMAIN answers => answers[m] = 1
          /\ delivered' = Append(delivered, Whole(m))
    /\ UNCHANGED <<calls, answers>>

Garble ==
    /\ Overrun(Len(delivered) + 1)
    /\ Len(delivered') = Len(delivered) + 1
    /\ \A m \in DOMAIN delivered : delivered'[m] = delivered[m]
    /\ UNCHANGED <<calls, answers>>

Answer(a) ==
    /\ Len(answers) < Len(calls)
    /\ a = 0 => Len(delivered) < Len(calls) \/ Overrun(Len(delivered))
    /\ answers' = Append(answers, a)
    /\ UNCHANGED <<calls, delivered>>

Next == Deliver \/ Garble \/ Answer(0) \/ Answer(1) \/ \E n \in Sizes : Call(n)

Spec == Init /\ [][Next]_cvars
=============================================================================
