----------------------------- MODULE ClientProofs -----------------------------
(***************************************************************************)
(* What holds of a run of isend for any files and any command line, any   *)
(* size of fragments and any number of messages on their way: a file goes *)
(* to the target named for it, the server stores what isend reports as    *)
(* sent, and the reporter of a file never outlives it while send returns. *)
(***************************************************************************)
EXTENDS Client, FiniteSetTheorems, TLAPS

(* Sequences of anything.                                                  *)

ASeq(s) == \E S : s \in Seq(S)

\* What the prover needs to know of a sequence of anything.
LEMMA SeqFacts ==
    ASSUME NEW s, ASeq(s)
    PROVE  /\ Len(s) \in Nat /\ DOMAIN s = 1..Len(s)
           /\ s = <<>> <=> Len(s) = 0
  BY DEF ASeq

\* An element is put at the end.
LEMMA AppendFacts ==
    ASSUME NEW s, ASeq(s), NEW x
    PROVE  LET t == Append(s, x)
           IN  /\ ASeq(t) /\ Len(t) = Len(s) + 1 /\ t # <<>>
               /\ \A j \in 1..Len(s) : t[j] = s[j]
               /\ t[Len(s) + 1] = x
<1>1. PICK S : s \in Seq(S)
  BY DEF ASeq
<1> DEFINE T == S \cup {x}
<1>2. s \in Seq(T) /\ x \in T
  BY <1>1
<1>3. Append(s, x) \in Seq(T)
  BY <1>2
<1>4. QED
  BY <1>2, <1>3 DEF ASeq

\* The first element is taken.
LEMMA TailFacts ==
    ASSUME NEW s, ASeq(s), s # <<>>
    PROVE  /\ ASeq(Tail(s)) /\ Len(Tail(s)) = Len(s) - 1 /\ Len(s) >= 1
           /\ Head(s) = s[1]
           /\ \A j \in 1..(Len(s) - 1) : Tail(s)[j] = s[j + 1]
<1>1. PICK S : s \in Seq(S)
  BY DEF ASeq
<1>2. Tail(s) \in Seq(S)
  BY <1>1
<1>3. QED
  BY <1>1, <1>2 DEF ASeq

\* What is left of a sequence that is cut off somewhere.
LEMMA CutFacts ==
    ASSUME NEW s, ASeq(s), NEW n \in 0..Len(s)
    PROVE  LET t == SubSeq(s, 1, n)
           IN ASeq(t) /\ Len(t) = n /\ \A j \in 1..n : t[j] = s[j]
<1>1. PICK S : s \in Seq(S)
  BY DEF ASeq
<1>2. SubSeq(s, 1, n) \in Seq(S)
  BY <1>1
<1>3. QED
  BY <1>1, <1>2 DEF ASeq

\* One element is exchanged.
LEMMA PutFacts ==
    ASSUME NEW s, ASeq(s), NEW c \in DOMAIN s, NEW x
    PROVE  LET t == [s EXCEPT ![c] = x]
           IN  ASeq(t) /\ Len(t) = Len(s) /\ t[c] = x /\ \A j \in DOMAIN s \ {c} : t[j] = s[j]
<1>1. PICK S : s \in Seq(S)
  BY DEF ASeq
<1> DEFINE T == S \cup {x}
           t == [s EXCEPT ![c] = x]
<1>2. s \in Seq(T) /\ x \in T
  BY <1>1
<1>3. t \in Seq(T)
  BY <1>2
<1>4. QED
  BY <1>2, <1>3 DEF ASeq
-----------------------------------------------------------------------------
(* The shape of the state.                                                 *)

FileReaders == [size : Nat, bytes : Nat, status : {"CONNECTING", "IN_PROGRESS"}]
HasFile == {"send", "request", "reply", "data", "finished", "join", "wait", "end"}

ConnectionOK(c) ==
    /\ DOMAIN net[c] = {"target", "up", "out", "back"}
    /\ net[c].up \in {"up", "closed", "cut", "left"}
    /\ ASeq(net[c].out) /\ ASeq(net[c].back)
    /\ DOMAIN server[c] = {"pc", "name", "size", "got"}
    /\ server[c].pc \in {"run", "data", "gone"} /\ server[c].got \in Nat
    /\ ASeq(handled[c]) /\ ASeq(sent[c])
    /\ \A n \in DOMAIN sent[c] :
           DOMAIN sent[c][n] = {"arg", "source", "name", "changed", "outcome"}

ShapeInv ==
    /\ ASeq(net) /\ ASeq(server) /\ ASeq(sent) /\ ASeq(handled)
    /\ Len(server) = Len(net) /\ Len(sent) = Len(net) /\ Len(handled) = Len(net)
    /\ \A c \in DOMAIN net : ConnectionOK(c)
    /\ client \in {None} \cup DOMAIN net
    /\ cpc \notin {"arg", "exit"} => client \in DOMAIN net
    /\ cpc \in HasFile => file \in FileReaders /\ len \in Nat
    /\ cpc \in HasFile \ {"send", "request"} => sent[client] # <<>>

-----------------------------------------------------------------------------
(* One connection.                                                         *)

Between == {"arg", "entry", "next", "send", "request"}
Over == {"join", "wait", "end"}
Dead == {"stuck", "torn", "unwind", "exit"}

Coming(c) == 1..Len(net[c].out)
Newest(c) == net[c].out[Len(net[c].out)]
Asks(c) == net[c].out # <<>> /\ Newest(c).type = "request"
Ends(c) == \E j \in Coming(c) : net[c].out[j].type = "finished"
Served(c) == Len(handled[c])

\* What the server will have of the file before message j.
Before(c, j) ==
    IF j = 1 THEN server[c].got ELSE net[c].out[j - 1].position + net[c].out[j - 1].bytes

RequestOK(c, j) ==
    /\ j = Len(net[c].out)
    /\ IF server[c].pc = "run" THEN j = 1 ELSE j > 1 /\ net[c].out[j - 1].type = "finished"
    /\ net[c].out[j].name = sent[c][Len(sent[c])].name

DataOK(c, j) ==
    /\ server[c].pc = "data"
    /\ j > 1 => net[c].out[j - 1].type = "data"
    /\ net[c].out[j].bytes \in Nat /\ net[c].out[j].position = Before(c, j)

FinishedOK(c, j) ==
    /\ server[c].pc = "data"
    /\ j > 1 => net[c].out[j - 1].type = "data"
    /\ ~sent[c][Served(c) + 1].changed => server[c].size = Before(c, j)

MessageOK(c, j) ==
    \/ net[c].out[j].type = "request" /\ RequestOK(c, j)
    \/ net[c].out[j].type = "data" /\ DataOK(c, j)
    \/ net[c].out[j].type = "finished" /\ FinishedOK(c, j)

\* A request, the data and the message that ends it come in this order, and the next
\* request last; the fragments follow one another.
QueueInv(c) == server[c].pc # "gone" => \A j \in Coming(c) : MessageOK(c, j)

\* The server is one file behind at most, and the next request may be on its way.
CountInv(c) ==
    /\ Served(c) <= Len(sent[c])
    /\ \A n \in 1..Served(c) : handled[c][n].name = sent[c][n].name
    /\ server[c].pc = "run" /\ Asks(c) => Len(sent[c]) = Served(c) + 1
    /\ server[c].pc = "data" =>
           /\ Served(c) < Len(sent[c])
           /\ server[c].name = sent[c][Served(c) + 1].name
           /\ Asks(c) => Len(sent[c]) = Served(c) + 2

\* Nothing can keep file n of connection c any more from being reported as sent.
Told(c, n) ==
    sent[c][n].outcome = "FINISHED" \/ (c = client /\ n = Len(sent[c]) /\ cpc \in Over)

\* A file of which that is so is stored whole, or its end is still to come.
StoredInv(c) ==
    /\ \A n \in DOMAIN sent[c] : Told(c, n) => ~pathIsUnsafe(sent[c][n].name)
    /\ net[c].up # "cut" =>
           /\ \A n \in 1..Served(c) :
                  Told(c, n) /\ ~sent[c][n].changed => handled[c][n].outcome = "FINISHED"
           /\ server[c].pc = "data" /\ ~Ends(c) =>
                  Len(sent[c]) = Served(c) + 1 /\ ~Told(c, Len(sent[c]))

\* While a request is on its way its client waits for the answer, or sends no more.
ReplyInv(c) ==
    /\ server[c].pc = "gone" => net[c].up # "up"
    /\ net[c].up = "left" => server[c].pc = "gone"
    /\ server[c].pc # "gone" /\ Asks(c) =>
           /\ c = client /\ sent[c][Len(sent[c])].outcome # "FINISHED"
           /\ cpc \in Dead \/ (cpc = "reply" /\ net[c].back = <<>>)

-----------------------------------------------------------------------------
(* The client, and the connection it is about to use or uses.              *)

\* The server has nothing to do but what ends the last file.
AtRest(c) ==
    IF server[c].pc = "run" THEN net[c].out = <<>> /\ Len(sent[c]) = Served(c)
    ELSE Ends(c) /\ Len(sent[c]) = Served(c) + 1

BetweenInv(c) ==
    cpc \in Between \cup Over =>
        /\ net[c].back = <<>> /\ net[c].up \notin {"closed", "left"}
        /\ net[c].up = "up" => AtRest(c)

\* What the server knows of the file that is being sent.
Receives(c) ==
    /\ server[c].pc = "data" /\ server[c].size = file.size
    /\ ~Ends(c) /\ ~Asks(c) /\ Len(sent[c]) = Served(c) + 1

Request(c) == sent[c][Len(sent[c])]

WaitingInv(c) ==
    cpc = "reply" =>
        /\ net[c].up # "closed" /\ Len(net[c].back) <= 1
        /\ Request(c).outcome # "FINISHED"
        /\ server[c].pc # "gone" /\ Asks(c) => Newest(c).size = file.size
        /\ net[c].back = <<>> /\ net[c].up = "up" => Asks(c)
        /\ net[c].back # <<>> /\ net[c].back[1] = "accept" =>
               /\ ~pathIsUnsafe(Request(c).name)
               /\ net[c].up # "cut" =>
                      Receives(c) /\ server[c].got = 0 /\ net[c].out = <<>>

SendingInv(c) ==
    cpc \in {"data", "finished"} =>
        /\ net[c].up # "closed" /\ net[c].back = <<>>
        /\ Request(c).outcome # "FINISHED" /\ ~pathIsUnsafe(Request(c).name)
        /\ net[c].up # "cut" =>
               /\ Receives(c)
               /\ file.bytes = IF net[c].out = <<>> THEN server[c].got
                               ELSE Newest(c).position + Newest(c).bytes

\* An unchanged file is read to its end and no further.
ReadInv ==
    /\ cpc \in {"send", "request", "reply"} => file.bytes = 0
    /\ cpc \in {"send", "request"} => len = file.size
    /\ cpc \in {"reply", "data"} /\ ~Request(client).changed =>
           len = file.size /\ file.bytes <= file.size
    /\ cpc = "finished" /\ ~Request(client).changed => file.bytes = file.size

ClientInv == client \in DOMAIN net =>
    BetweenInv(client) /\ WaitingInv(client) /\ SendingInv(client)

ProtocolInv ==
    /\ \A c \in DOMAIN net : QueueInv(c) /\ CountInv(c) /\ StoredInv(c) /\ ReplyInv(c)
    /\ ClientInv /\ ReadInv

-----------------------------------------------------------------------------
(* Steps that leave the messages alone.                                    *)

\* At both ends of c, nothing is different but what is known of the requests.
SameQueue(c) ==
    /\ c \in DOMAIN net /\ c \in DOMAIN net'
    /\ net'[c].out = net[c].out /\ server'[c] = server[c] /\ handled'[c] = handled[c]
    /\ Len(sent'[c]) = Len(sent[c])
    /\ \A n \in 1..Len(sent[c]) :
           /\ sent'[c][n].name = sent[c][n].name
           /\ ~sent'[c][n].changed => ~sent[c][n].changed

\* The sequences of a connection have lengths.
LEMMA LengthsAreNat ==
    ASSUME ShapeInv, NEW c \in DOMAIN net
    PROVE  /\ Len(net[c].out) \in Nat /\ Len(net[c].back) \in Nat /\ Len(sent[c]) \in Nat
           /\ Len(handled[c]) \in Nat
           /\ DOMAIN net[c].out = 1..Len(net[c].out) /\ DOMAIN sent[c] = 1..Len(sent[c])
           /\ net[c].out = <<>> <=> Len(net[c].out) = 0
           /\ net[c].back = <<>> <=> Len(net[c].back) = 0
           /\ sent[c] = <<>> <=> Len(sent[c]) = 0
  BY SeqFacts DEF ShapeInv, ConnectionOK

\* The order of messages does not depend on how requests end.
LEMMA QueueStays ==
    ASSUME ShapeInv, NEW c, SameQueue(c), QueueInv(c), CountInv(c)
    PROVE  /\ QueueInv(c)' /\ CountInv(c)'
           /\ Asks(c)' <=> Asks(c)
           /\ Ends(c)' <=> Ends(c)
<1>1. /\ Len(net[c].out) \in Nat /\ Len(sent[c]) \in Nat /\ Len(handled[c]) \in Nat
      /\ DOMAIN sent[c] = 1..Len(sent[c])
      /\ net[c].out = <<>> <=> Len(net[c].out) = 0
  BY LengthsAreNat DEF SameQueue
<1>2. (Asks(c)' <=> Asks(c)) /\ (Ends(c)' <=> Ends(c)) /\ Served(c)' = Served(c)
  BY DEF SameQueue, Asks, Ends, Newest, Coming, Served
<1>3. CountInv(c)'
  BY <1>1, <1>2 DEF CountInv, SameQueue, Served
<1>4. QueueInv(c)'
  <2> SUFFICES ASSUME server[c].pc # "gone", NEW j \in Coming(c)
               PROVE  \/ net[c].out[j].type = "request" /\ RequestOK(c, j)'
                      \/ net[c].out[j].type = "data" /\ DataOK(c, j)'
                      \/ net[c].out[j].type = "finished" /\ FinishedOK(c, j)'
    BY DEF QueueInv, MessageOK, SameQueue, Coming
  <2>1. CASE net[c].out[j].type = "request" /\ RequestOK(c, j)
    <3>1. Asks(c)
      BY <1>1, <2>1 DEF RequestOK, Asks, Newest, Coming
    <3>2. server[c].pc = "run" \/ server[c].pc = "data"
      BY DEF ShapeInv, ConnectionOK, SameQueue
    <3>3. Len(sent[c]) >= 1
      BY <1>1, <3>1, <3>2 DEF CountInv, Served
    <3>4. QED
      BY <1>1, <2>1, <3>3 DEF RequestOK, SameQueue
  <2>2. CASE net[c].out[j].type = "data" /\ DataOK(c, j)
    BY <2>2 DEF DataOK, Before, SameQueue
  <2>3. CASE net[c].out[j].type = "finished" /\ FinishedOK(c, j)
    <3>1. Served(c) + 1 \in 1..Len(sent[c])
      BY <1>1, <2>3 DEF CountInv, FinishedOK, Served
    <3>2. QED
      BY <1>2, <2>3, <3>1 DEF FinishedOK, Before, SameQueue
  <2>4. QED
    BY <2>1, <2>2, <2>3 DEF QueueInv, MessageOK, Coming
<1>5. QED
  BY <1>2, <1>3, <1>4

\* A step of a thread of isend in its own variables.
LEMMA LocalStep ==
    ASSUME ShapeInv, ProtocolInv, UNCHANGED <<client, net, sent, server, handled>>,
           \/ cpc \in Between /\ cpc' \in Between
           \/ cpc \in Over /\ cpc' \in Over
           \/ cpc' \in Dead
           \/ UNCHANGED <<cpc, file>>
    PROVE  /\ \A c \in DOMAIN net' : QueueInv(c)' /\ CountInv(c)' /\ StoredInv(c)' /\ ReplyInv(c)'
           /\ ClientInv'
<1>1. ASSUME NEW c \in DOMAIN net'
      PROVE  QueueInv(c)' /\ CountInv(c)' /\ StoredInv(c)' /\ ReplyInv(c)'
  <2>1. c \in DOMAIN net /\ SameQueue(c)
    BY <1>1 DEF SameQueue
  <2>2. QueueInv(c) /\ CountInv(c) /\ StoredInv(c) /\ ReplyInv(c)
    BY <2>1 DEF ProtocolInv
  <2>3. /\ QueueInv(c)' /\ CountInv(c)'
        /\ Asks(c)' <=> Asks(c)
        /\ Ends(c)' <=> Ends(c)
    BY <2>1, <2>2, QueueStays
  <2>4. \A n : Told(c, n)' => Told(c, n)
    BY DEF Told, Between, Over, Dead
  <2>5. StoredInv(c)'
    BY <2>2, <2>3, <2>4 DEF StoredInv, Served
  <2>6. ReplyInv(c)'
    BY <2>2, <2>3 DEF ReplyInv, Between, Over, Dead
  <2>7. QED
    BY <2>3, <2>5, <2>6
<1>2. ClientInv'
  <2> SUFFICES ASSUME client \in DOMAIN net
               PROVE  BetweenInv(client)' /\ WaitingInv(client)' /\ SendingInv(client)'
    BY DEF ClientInv
  <2>1. BetweenInv(client) /\ WaitingInv(client) /\ SendingInv(client)
    BY DEF ProtocolInv, ClientInv
  <2>2. BetweenInv(client)'
    BY <2>1 DEF BetweenInv, AtRest, Ends, Coming, Served, Between, Over, Dead
  <2>3. WaitingInv(client)'
    BY <2>1 DEF WaitingInv, Receives, Request, Asks, Ends, Newest, Coming, Served,
                Between, Over, Dead
  <2>4. SendingInv(client)'
    BY <2>1 DEF SendingInv, Receives, Request, Asks, Ends, Newest, Coming, Served,
                Between, Over, Dead
  <2>5. QED
    BY <2>2, <2>3, <2>4
<1>3. QED
  BY <1>1, <1>2

-----------------------------------------------------------------------------
(* Steps that go to the end of the program, or to a new connection.        *)

\* Every position but c is as it was.
PutAt(s, t, c) == ASeq(t) /\ Len(t) = Len(s) /\ \A d \in DOMAIN s \ {c} : t[d] = s[d]

\* Nothing, or one element, is exchanged.
LEMMA PutAtFacts ==
    ASSUME NEW s, ASeq(s), NEW c \in DOMAIN s
    PROVE  /\ PutAt(s, s, c)
           /\ \A x : PutAt(s, [s EXCEPT ![c] = x], c) /\ [s EXCEPT ![c] = x][c] = x
  BY PutFacts DEF PutAt

\* At the start there is no connection.
LEMMA InitProtocol == Init => ShapeInv /\ ProtocolInv
<1> SUFFICES ASSUME Init PROVE ShapeInv /\ ProtocolInv
  OBVIOUS
<1>1. ASeq(<<>>) /\ DOMAIN <<>> = {} /\ Len(<<>>) = 0
  <2>1. <<>> \in Seq({})
    OBVIOUS
  <2>2. QED
    BY <2>1 DEF ASeq
<1>2. /\ net = <<>> /\ server = <<>> /\ sent = <<>> /\ handled = <<>>
      /\ cpc = "arg" /\ client = None
  BY DEF Init
<1>3. DOMAIN net = {}
  BY <1>1, <1>2
<1>4. ShapeInv
  BY <1>1, <1>2, <1>3 DEF ShapeInv, HasFile
<1>5. ProtocolInv
  BY <1>2, <1>3 DEF ProtocolInv, ClientInv, ReadInv
<1>6. QED
  BY <1>4, <1>5

\* The descriptor is closed.
LEMMA CloseFacts ==
    ASSUME ShapeInv
    PROVE  LET N == Closed(client)
           IN  /\ ASeq(N) /\ Len(N) = Len(net) /\ DOMAIN N = DOMAIN net
               /\ \A c \in DOMAIN net :
                      /\ DOMAIN N[c] = DOMAIN net[c]
                      /\ \A f \in DOMAIN net[c] \ {"up"} : N[c][f] = net[c][f]
                      /\ N[c].up \in {net[c].up, "closed"}
                      /\ N[c].up = "cut" <=> net[c].up = "cut"
<1> DEFINE N == Closed(client)
<1>1. CASE client = None
  BY <1>1, SeqFacts DEF Closed, ShapeInv
<1>2. CASE client # None
  <2>1. client \in DOMAIN net
    BY <1>2 DEF ShapeInv
  <2> DEFINE e == [net[client] EXCEPT !.up = IF @ = "cut" THEN @ ELSE "closed"]
  <2>2. N = [net EXCEPT ![client] = e]
    BY <1>2 DEF Closed
  <2>3. /\ ASeq(N) /\ Len(N) = Len(net)
        /\ N[client] = e /\ \A c \in DOMAIN net \ {client} : N[c] = net[c]
    <3>1. ASeq(net)
      BY DEF ShapeInv
    <3> HIDE DEF e
    <3>2. QED
      BY <2>1, <2>2, <3>1, PutFacts
  <2>4. DOMAIN N = DOMAIN net
    BY <2>2
  <2>5. /\ DOMAIN e = DOMAIN net[client]
        /\ \A f \in DOMAIN net[client] \ {"up"} : e[f] = net[client][f]
        /\ "up" \in DOMAIN net[client] => e.up = IF net[client].up = "cut" THEN "cut" ELSE "closed"
    OBVIOUS
  <2>6. "up" \in DOMAIN net[client]
    BY <2>1 DEF ShapeInv, ConnectionOK
  <2>7. /\ N[client].up \in {net[client].up, "closed"}
        /\ N[client].up = "cut" <=> net[client].up = "cut"
    BY <2>3, <2>5, <2>6
  <2>8. \A c \in DOMAIN net \ {client} : N[c] = net[c]
    BY <2>3
  <2>9. QED
    BY <2>3, <2>4, <2>5, <2>7, <2>8
<1>3. QED
  BY <1>1, <1>2

\* isend ends and closes its connection.
LEMMA ExitStep ==
    ASSUME ShapeInv, ProtocolInv, cpc' = "exit", net' = Closed(client),
           UNCHANGED <<client, sent, server, handled>>
    PROVE  ShapeInv' /\ ProtocolInv'
<1>1. /\ ASeq(net') /\ Len(net') = Len(net) /\ DOMAIN net' = DOMAIN net
      /\ \A c \in DOMAIN net :
             /\ DOMAIN net'[c] = {"target", "up", "out", "back"}
             /\ net'[c].out = net[c].out /\ net'[c].back = net[c].back
             /\ net'[c].up \in {net[c].up, "closed"}
             /\ net'[c].up = "cut" <=> net[c].up = "cut"
  BY CloseFacts DEF ShapeInv, ConnectionOK
<1>2. ShapeInv'
  <2>1. \A c \in DOMAIN net' : ConnectionOK(c)'
    BY <1>1 DEF ShapeInv, ConnectionOK
  <2>2. QED
    BY <1>1, <2>1 DEF ShapeInv, HasFile
<1>3. ASSUME NEW c \in DOMAIN net'
      PROVE  QueueInv(c)' /\ CountInv(c)' /\ StoredInv(c)' /\ ReplyInv(c)'
  <2>1. c \in DOMAIN net /\ SameQueue(c)
    BY <1>1 DEF SameQueue
  <2>2. QueueInv(c) /\ CountInv(c) /\ StoredInv(c) /\ ReplyInv(c)
    BY <2>1 DEF ProtocolInv
  <2>3. /\ QueueInv(c)' /\ CountInv(c)'
        /\ Asks(c)' <=> Asks(c)
        /\ Ends(c)' <=> Ends(c)
    BY <2>1, <2>2, QueueStays
  <2>4. \A n : Told(c, n)' => Told(c, n)
    BY DEF Told, Over
  <2>5. StoredInv(c)'
    BY <1>1, <2>1, <2>2, <2>3, <2>4 DEF StoredInv, Served
  <2>6. ReplyInv(c)'
    BY <1>1, <2>1, <2>2, <2>3 DEF ReplyInv, Dead
  <2>7. QED
    BY <2>3, <2>5, <2>6
<1>4. ClientInv' /\ ReadInv'
  BY DEF ClientInv, BetweenInv, WaitingInv, SendingInv, ReadInv, Between, Over
<1>5. QED
  BY <1>2, <1>3, <1>4 DEF ProtocolInv

\* The server of a new connection has nothing to do.
LEMMA FindWayStep ==
    ASSUME ShapeInv, ProtocolInv, FindWay
    PROVE  ShapeInv' /\ ProtocolInv'
<1>0. PICK new : new = Len(net) + 1
  OBVIOUS
<1> DEFINE N == Closed(client)
           stream == [target |-> args[i].val, up |-> "up", out |-> <<>>, back |-> <<>>]
           thread0 == [pc |-> "run", name |-> <<>>, size |-> 0, got |-> 0]
<1>1. /\ ASeq(N) /\ Len(N) = Len(net) /\ DOMAIN N = DOMAIN net
      /\ \A c \in DOMAIN net :
             /\ DOMAIN N[c] = {"target", "up", "out", "back"}
             /\ N[c].out = net[c].out /\ N[c].back = net[c].back
             /\ N[c].up \in {net[c].up, "closed"}
             /\ N[c].up = "cut" <=> net[c].up = "cut"
  BY CloseFacts DEF ShapeInv, ConnectionOK
<1>2. ASeq(<<>>) /\ Len(<<>>) = 0 /\ DOMAIN <<>> = {}
  <2>1. <<>> \in Seq({})
    OBVIOUS
  <2>2. QED
    BY <2>1 DEF ASeq
<1>3. /\ ASeq(net) /\ ASeq(server) /\ ASeq(sent) /\ ASeq(handled)
      /\ Len(server) = Len(net) /\ Len(sent) = Len(net) /\ Len(handled) = Len(net)
      /\ Len(net) \in Nat /\ DOMAIN net = 1..Len(net)
  BY SeqFacts DEF ShapeInv
<1>4. /\ net' = Append(N, stream) /\ server' = Append(server, thread0)
      /\ sent' = Append(sent, <<>>) /\ handled' = Append(handled, <<>>)
      /\ client' = new /\ cpc' = "arg" /\ cpc = "arg"
  BY <1>0 DEF FindWay, Option
<1> HIDE DEF N, stream, thread0
<1>5. /\ ASeq(net') /\ Len(net') = new /\ net'[new] = stream
      /\ \A c \in DOMAIN net : net'[c] = N[c]
  BY <1>0, <1>1, <1>3, <1>4, AppendFacts
<1>6. /\ ASeq(server') /\ Len(server') = new /\ server'[new] = thread0
      /\ \A c \in DOMAIN net : server'[c] = server[c]
  BY <1>0, <1>3, <1>4, AppendFacts
<1>7. /\ ASeq(sent') /\ Len(sent') = new /\ sent'[new] = <<>>
      /\ \A c \in DOMAIN net : sent'[c] = sent[c]
  BY <1>0, <1>3, <1>4, AppendFacts
<1>8. /\ ASeq(handled') /\ Len(handled') = new /\ handled'[new] = <<>>
      /\ \A c \in DOMAIN net : handled'[c] = handled[c]
  BY <1>0, <1>3, <1>4, AppendFacts
<1>9. DOMAIN net' = DOMAIN net \cup {new} /\ new \notin DOMAIN net
  BY <1>0, <1>3, <1>5, SeqFacts
<1> USE DEF stream, thread0
<1>10. ShapeInv'
  <2>1. ConnectionOK(new)'
    BY <1>2, <1>5, <1>6, <1>7, <1>8 DEF ConnectionOK
  <2>2. ASSUME NEW c \in DOMAIN net PROVE ConnectionOK(c)'
    BY <1>1, <1>5, <1>6, <1>7, <1>8 DEF ShapeInv, ConnectionOK
  <2>3. QED
    BY <1>4, <1>5, <1>6, <1>7, <1>8, <1>9, <2>1, <2>2 DEF ShapeInv, HasFile
<1>11. ASSUME NEW c \in DOMAIN net
       PROVE  QueueInv(c)' /\ CountInv(c)' /\ StoredInv(c)' /\ ReplyInv(c)'
  <2>1. SameQueue(c)
    BY <1>1, <1>5, <1>6, <1>7, <1>8, <1>9 DEF SameQueue
  <2>2. QueueInv(c) /\ CountInv(c) /\ StoredInv(c) /\ ReplyInv(c)
    BY DEF ProtocolInv
  <2>3. /\ QueueInv(c)' /\ CountInv(c)'
        /\ Asks(c)' <=> Asks(c)
        /\ Ends(c)' <=> Ends(c)
    BY <2>1, <2>2, QueueStays
  <2>4. \A n : Told(c, n)' => Told(c, n)
    BY <1>4, <1>7 DEF Told, Over
  <2>5. StoredInv(c)'
    BY <1>1, <1>5, <1>6, <1>7, <1>8, <2>2, <2>3, <2>4 DEF StoredInv, Served
  <2>6. ReplyInv(c)'
    BY <1>1, <1>4, <1>5, <1>6, <1>7, <2>2, <2>3 DEF ReplyInv, Dead
  <2>7. QED
    BY <2>3, <2>5, <2>6
<1>12. QueueInv(new)' /\ CountInv(new)' /\ StoredInv(new)' /\ ReplyInv(new)'
  <2>1. Coming(new)' = {} /\ ~Asks(new)' /\ Served(new)' = 0
    BY <1>2, <1>5, <1>8 DEF Coming, Asks, Served
  <2>2. QueueInv(new)' /\ CountInv(new)'
    BY <1>2, <1>6, <1>7, <2>1 DEF QueueInv, CountInv
  <2>3. StoredInv(new)' /\ ReplyInv(new)'
    BY <1>2, <1>5, <1>6, <1>7, <2>1 DEF StoredInv, ReplyInv
  <2>4. QED
    BY <2>2, <2>3
<1>13. ClientInv' /\ ReadInv'
  BY <1>2, <1>4, <1>5, <1>6, <1>7, <1>8
     DEF ClientInv, BetweenInv, WaitingInv, SendingInv, ReadInv, AtRest, Served
<1>14. QED
  BY <1>9, <1>10, <1>11, <1>12, <1>13 DEF ProtocolInv

-----------------------------------------------------------------------------
(* Steps that change what is on one connection.                            *)

SameConnection(d) ==
    /\ d \in DOMAIN net /\ d \in DOMAIN net'
    /\ net'[d] = net[d] /\ server'[d] = server[d] /\ sent'[d] = sent[d] /\ handled'[d] = handled[d]

\* Every connection but c is as it was.
OnlyAt(c) ==
    /\ PutAt(net, net', c) /\ PutAt(server, server', c)
    /\ PutAt(sent, sent', c) /\ PutAt(handled, handled', c)

\* A step at one connection adds none.
LEMMA OnlyAtFacts ==
    ASSUME ShapeInv, NEW c \in DOMAIN net, OnlyAt(c)
    PROVE  /\ DOMAIN net' = DOMAIN net
           /\ \A d \in DOMAIN net \ {c} : SameConnection(d)
           /\ ASeq(net') /\ ASeq(server') /\ ASeq(sent') /\ ASeq(handled')
           /\ Len(server') = Len(net') /\ Len(sent') = Len(net') /\ Len(handled') = Len(net')
<1>1. /\ ASeq(net) /\ ASeq(server) /\ ASeq(sent) /\ ASeq(handled)
      /\ Len(server) = Len(net) /\ Len(sent) = Len(net) /\ Len(handled) = Len(net)
  BY DEF ShapeInv
<1>2. /\ DOMAIN net = 1..Len(net) /\ DOMAIN server = DOMAIN net
      /\ DOMAIN sent = DOMAIN net /\ DOMAIN handled = DOMAIN net
  BY <1>1, SeqFacts
<1>3. /\ ASeq(net') /\ Len(net') = Len(net)
      /\ ASeq(server') /\ Len(server') = Len(server)
      /\ ASeq(sent') /\ Len(sent') = Len(sent)
      /\ ASeq(handled') /\ Len(handled') = Len(handled)
  BY DEF OnlyAt, PutAt
<1>4. DOMAIN net' = DOMAIN net
  BY <1>1, <1>2, <1>3, SeqFacts
<1>5. QED
  BY <1>1, <1>2, <1>3, <1>4 DEF OnlyAt, PutAt, SameConnection

\* A step that changes the record of one connection is a step at it.
LEMMA ChangeAt ==
    ASSUME ShapeInv, NEW c \in DOMAIN net, NEW x
    PROVE  /\ PutAt(net, net, c) /\ PutAt(server, server, c)
           /\ PutAt(sent, sent, c) /\ PutAt(handled, handled, c)
           /\ PutAt(net, [net EXCEPT ![c] = x], c) /\ [net EXCEPT ![c] = x][c] = x
           /\ PutAt(server, [server EXCEPT ![c] = x], c) /\ [server EXCEPT ![c] = x][c] = x
           /\ PutAt(sent, [sent EXCEPT ![c] = x], c) /\ [sent EXCEPT ![c] = x][c] = x
           /\ PutAt(handled, [handled EXCEPT ![c] = x], c) /\ [handled EXCEPT ![c] = x][c] = x
<1>1. /\ ASeq(net) /\ ASeq(server) /\ ASeq(sent) /\ ASeq(handled)
      /\ Len(server) = Len(net) /\ Len(sent) = Len(net) /\ Len(handled) = Len(net)
  BY DEF ShapeInv
<1>2. c \in DOMAIN server /\ c \in DOMAIN sent /\ c \in DOMAIN handled
  BY <1>1, SeqFacts
<1>3. PutAt(net, net, c) /\ PutAt(net, [net EXCEPT ![c] = x], c) /\ [net EXCEPT ![c] = x][c] = x
  BY <1>1, PutAtFacts
<1>4. /\ PutAt(server, server, c)
      /\ PutAt(server, [server EXCEPT ![c] = x], c) /\ [server EXCEPT ![c] = x][c] = x
  BY <1>1, <1>2, PutAtFacts
<1>5. /\ PutAt(sent, sent, c)
      /\ PutAt(sent, [sent EXCEPT ![c] = x], c) /\ [sent EXCEPT ![c] = x][c] = x
  BY <1>1, <1>2, PutAtFacts
<1>6. /\ PutAt(handled, handled, c)
      /\ PutAt(handled, [handled EXCEPT ![c] = x], c) /\ [handled EXCEPT ![c] = x][c] = x
  BY <1>1, <1>2, PutAtFacts
<1>7. QED
  BY <1>3, <1>4, <1>5, <1>6

\* A step at one connection keeps the shape of the state if it keeps that of the connection.
LEMMA ShapeStays ==
    ASSUME ShapeInv, NEW c \in DOMAIN net, OnlyAt(c), ConnectionOK(c)', client' = client,
           cpc' \notin {"arg", "exit"} => client \in DOMAIN net,
           cpc' \in HasFile => file' \in FileReaders /\ len' \in Nat,
           cpc' \in HasFile \ {"send", "request"} => sent'[client] # <<>>
    PROVE  ShapeInv'
<1>1. \A d \in DOMAIN net \ {c} : ConnectionOK(d)'
  BY OnlyAtFacts DEF SameConnection, ShapeInv, ConnectionOK
<1>2. QED
  BY <1>1, OnlyAtFacts DEF ShapeInv

\* A connection that a step leaves alone: neither its client's position, unless it is
\* another's, nor its ends are different.
LEMMA Elsewhere ==
    ASSUME ShapeInv, ProtocolInv, NEW d, SameConnection(d), client' = client,
           d # client \/ UNCHANGED cpc
    PROVE  QueueInv(d)' /\ CountInv(d)' /\ StoredInv(d)' /\ ReplyInv(d)'
<1>1. SameQueue(d)
  BY DEF SameQueue, SameConnection
<1>2. QueueInv(d) /\ CountInv(d) /\ StoredInv(d) /\ ReplyInv(d)
  BY DEF SameConnection, ProtocolInv
<1>3. /\ QueueInv(d)' /\ CountInv(d)'
      /\ Asks(d)' <=> Asks(d)
      /\ Ends(d)' <=> Ends(d)
  BY <1>1, <1>2, QueueStays
<1>4. \A n : Told(d, n)' => Told(d, n)
  BY DEF Told, SameConnection
<1>5. StoredInv(d)'
  BY <1>2, <1>3, <1>4 DEF StoredInv, Served, SameConnection
<1>6. ReplyInv(d)'
  BY <1>2, <1>3 DEF ReplyInv, SameConnection
<1>7. QED
  BY <1>3, <1>5, <1>6

\* A message m follows what is on its way, as number k.
GrowsBy(c, m, k) ==
    /\ c \in DOMAIN net' /\ k = Len(net[c].out) + 1 /\ net'[c].out = Append(net[c].out, m)
    /\ server'[c] = server[c] /\ handled'[c] = handled[c]
    /\ Len(sent'[c]) \in Nat /\ Len(sent[c]) <= Len(sent'[c])
    /\ \A n \in 1..Len(sent[c]) : sent'[c][n] = sent[c][n]
    /\ server[c].pc # "gone" => ~Asks(c)

\* A message behind the others keeps them in order if it may come there.
LEMMA QueueGrows ==
    ASSUME ShapeInv, NEW c \in DOMAIN net, NEW m, NEW k, GrowsBy(c, m, k),
           QueueInv(c), CountInv(c)
    PROVE  /\ Newest(c)' = m /\ net'[c].out[k] = m /\ Len(net'[c].out) = k
           /\ net'[c].out # <<>>
           /\ \A j \in Coming(c) : net'[c].out[j] = net[c].out[j]
           /\ Asks(c)' <=> m.type = "request"
           /\ Ends(c)' <=> Ends(c) \/ m.type = "finished"
           /\ MessageOK(c, k)' => QueueInv(c)'
<1>0. /\ c \in DOMAIN net' /\ k = Len(net[c].out) + 1 /\ net'[c].out = Append(net[c].out, m)
      /\ server'[c] = server[c] /\ handled'[c] = handled[c]
      /\ Len(sent'[c]) \in Nat /\ Len(sent[c]) <= Len(sent'[c])
      /\ \A n \in 1..Len(sent[c]) : sent'[c][n] = sent[c][n]
      /\ server[c].pc # "gone" => ~Asks(c)
  BY DEF GrowsBy
<1>1. /\ Len(net[c].out) \in Nat /\ Len(sent[c]) \in Nat /\ Len(handled[c]) \in Nat
      /\ net[c].out = <<>> <=> Len(net[c].out) = 0
  BY LengthsAreNat
<1>2. ASeq(net[c].out)
  BY DEF ShapeInv, ConnectionOK
<1> DEFINE L == Len(net[c].out)
<1>3. /\ Len(net'[c].out) = k /\ net'[c].out[k] = m /\ net'[c].out # <<>>
      /\ \A j \in 1..L : net'[c].out[j] = net[c].out[j]
  <2>1. PICK t : t = Append(net[c].out, m)
    OBVIOUS
  <2>2. /\ Len(t) = L + 1 /\ t[L + 1] = m /\ t # <<>>
        /\ \A j \in 1..L : t[j] = net[c].out[j]
    BY <1>2, <2>1, AppendFacts
  <2>3. QED
    BY <1>0, <2>1, <2>2
<1>4. Newest(c)' = m /\ (Asks(c)' <=> m.type = "request")
  BY <1>0, <1>1, <1>3 DEF Newest, Asks
<1>5. Ends(c)' <=> Ends(c) \/ m.type = "finished"
  BY <1>0, <1>1, <1>3, SMTT(30) DEF Ends, Coming
<1>6. ASSUME MessageOK(c, k)',
             server[c].pc # "gone", NEW j \in 1..L
      PROVE  \/ net'[c].out[j].type = "data" /\ DataOK(c, j)'
             \/ net'[c].out[j].type = "finished" /\ FinishedOK(c, j)'
  <2>1. CASE net[c].out[j].type = "request" /\ RequestOK(c, j)
    <3>1. Asks(c)
      BY <1>0, <1>1, <2>1 DEF RequestOK, Asks, Newest
    <3>2. QED
      BY <1>0, <1>6, <3>1
  <2>2. CASE net[c].out[j].type = "data" /\ DataOK(c, j)
    BY <1>0, <1>1, <1>3, <2>2 DEF DataOK, Before
  <2>3. CASE net[c].out[j].type = "finished" /\ FinishedOK(c, j)
    <3>1. Served(c) + 1 \in 1..Len(sent[c])
      BY <1>0, <1>1, <2>3 DEF CountInv, FinishedOK, Served
    <3>2. QED
      BY <1>0, <1>1, <1>3, <2>3, <3>1, SMTT(30) DEF FinishedOK, Before, Served
  <2>4. QED
    BY <1>6, <2>1, <2>2, <2>3 DEF QueueInv, MessageOK, Coming
<1>7. ASSUME MessageOK(c, k)'
      PROVE  QueueInv(c)'
  <2> SUFFICES ASSUME server[c].pc # "gone", NEW j \in 1..k
               PROVE  \/ net'[c].out[j].type = "request" /\ RequestOK(c, j)'
                      \/ net'[c].out[j].type = "data" /\ DataOK(c, j)'
                      \/ net'[c].out[j].type = "finished" /\ FinishedOK(c, j)'
    BY <1>0, <1>3 DEF QueueInv, MessageOK, Coming
  <2>1. CASE j = k
    BY <1>3, <1>7, <2>1 DEF MessageOK
  <2>2. CASE j \in 1..L
    BY <1>6, <1>7, <2>2
  <2>3. QED
    BY <1>0, <1>1, <2>1, <2>2
<1>8. QED
  BY <1>3, <1>4, <1>5, <1>7 DEF Coming

\* A step at the client's connection, or of another server, disturbs no third one.
LEMMA ConnectionsAgree ==
    ASSUME ShapeInv, ProtocolInv, NEW c \in DOMAIN net, OnlyAt(c), client' = client,
           c = client \/ UNCHANGED cpc,
           QueueInv(c)', CountInv(c)', StoredInv(c)', ReplyInv(c)'
    PROVE  \A d \in DOMAIN net' : QueueInv(d)' /\ CountInv(d)' /\ StoredInv(d)' /\ ReplyInv(d)'
<1>1. ASSUME NEW d \in DOMAIN net' \ {c}
      PROVE  QueueInv(d)' /\ CountInv(d)' /\ StoredInv(d)' /\ ReplyInv(d)'
  <2>1. SameConnection(d)
    BY OnlyAtFacts
  <2>2. QED
    BY <2>1, Elsewhere
<1>2. QED
  BY <1>1

-----------------------------------------------------------------------------
(* The steps of send.                                                      *)

\* The record of the request that is being served is in its place.
LEMMA RequestFacts ==
    ASSUME ShapeInv, NEW c \in DOMAIN net, sent[c] # <<>>, NEW k, k = Len(sent[c])
    PROVE  /\ k \in 1..Len(sent[c]) /\ k \in DOMAIN sent[c] /\ Request(c) = sent[c][k]
           /\ DOMAIN sent[c][k] = {"arg", "source", "name", "changed", "outcome"}
  BY LengthsAreNat, SMTT(30) DEF Request, ShapeInv, ConnectionOK

\* One field of it is set.
SetsField(c, f, v) ==
    LET k == Len(sent[c])
    IN  sent' = [sent EXCEPT ![c] = [sent[c] EXCEPT ![k] = [sent[c][k] EXCEPT ![f] = v]]]

\* What the file's record is afterwards.
LEMMA FieldFacts ==
    ASSUME ShapeInv, NEW c \in DOMAIN net, c = client, sent[c] # <<>>,
           NEW k, k = Len(sent[c]), NEW f \in {"changed", "outcome"}, NEW v, SetsField(c, f, v)
    PROVE  /\ PutAt(sent, sent', c) /\ ASeq(sent'[c]) /\ Len(sent'[c]) = k
           /\ \A n \in 1..k : DOMAIN sent'[c][n] = DOMAIN sent[c][n]
           /\ \A n \in 1..k : n # k => sent'[c][n] = sent[c][n]
           /\ \A g \in {"arg", "source", "name", "changed", "outcome"} \ {f} :
                  sent'[c][k][g] = sent[c][k][g]
           /\ sent'[c][k][f] = v
<1> DEFINE r == [sent[c][k] EXCEPT ![f] = v]
           s == [sent[c] EXCEPT ![k] = r]
<1>1. sent' = [sent EXCEPT ![c] = s]
  BY DEF SetsField
<1>2. ASeq(sent) /\ c \in DOMAIN sent /\ ASeq(sent[c]) /\ k \in DOMAIN sent[c] /\ DOMAIN sent[c] = 1..k
  BY RequestFacts, LengthsAreNat, SeqFacts DEF ShapeInv, ConnectionOK
<1>3. /\ DOMAIN r = DOMAIN sent[c][k] /\ r[f] = v
      /\ \A g \in {"arg", "source", "name", "changed", "outcome"} \ {f} : r[g] = sent[c][k][g]
  BY RequestFacts
<1> HIDE DEF r
<1>4. ASeq(s) /\ Len(s) = k /\ s[k] = r /\ \A n \in DOMAIN sent[c] \ {k} : s[n] = sent[c][n]
  <2> PICK old : old = sent[c]
    OBVIOUS
  <2>1. ASeq(old) /\ k \in DOMAIN old /\ s = [old EXCEPT ![k] = r]
    BY <1>2
  <2> HIDE DEF s
  <2>2. ASeq(s) /\ Len(s) = Len(old) /\ s[k] = r /\ \A n \in DOMAIN old \ {k} : s[n] = old[n]
    BY <2>1, PutFacts
  <2>3. QED
    BY <2>2
<1> HIDE DEF s
<1>5. PutAt(sent, sent', c) /\ sent'[c] = s
  BY <1>1, <1>2, PutAtFacts
<1>6. QED
  BY <1>2, <1>3, <1>4, <1>5

\* What a throw does to the request: it has failed.
LEMMA FailStep ==
    ASSUME ShapeInv, ProtocolInv, cpc \in {"reply", "data"},
           Outcome("ERROR"), Throw
    PROVE  ShapeInv' /\ ProtocolInv'
<1> PICK c : c = client
  OBVIOUS
<1> PICK k : k = Len(sent[c])
  OBVIOUS
<1>1. /\ client' = c /\ c \in DOMAIN net /\ sent[c] # <<>> /\ cpc' = "unwind"
      /\ net' = net /\ server' = server /\ handled' = handled
  BY DEF ShapeInv, HasFile, Throw, remote, line
<1>2. SetsField(c, "outcome", "ERROR")
  BY DEF Outcome, SetsField, Asked
<1>3. /\ PutAt(sent, sent', c) /\ ASeq(sent'[c]) /\ Len(sent'[c]) = k
      /\ \A n \in 1..k : DOMAIN sent'[c][n] = DOMAIN sent[c][n]
      /\ \A n \in 1..k : n # k => sent'[c][n] = sent[c][n]
      /\ sent'[c][k].name = sent[c][k].name /\ sent'[c][k].changed = sent[c][k].changed
      /\ sent'[c][k].outcome = "ERROR"
  BY <1>1, <1>2, FieldFacts
<1>4. k \in Nat /\ k \in 1..k /\ DOMAIN sent[c] = 1..k /\ DOMAIN sent'[c] = 1..k
  BY <1>1, <1>3, RequestFacts, LengthsAreNat, SeqFacts
<1>5. OnlyAt(c)
  BY <1>1, <1>3, PutAtFacts, SeqFacts DEF OnlyAt, ShapeInv
<1>6. ShapeInv'
  <2>1. ConnectionOK(c)'
    BY <1>1, <1>3, <1>4 DEF ShapeInv, ConnectionOK
  <2>2. QED
    BY <1>1, <1>5, <2>1, ShapeStays DEF HasFile
<1>7. SameQueue(c)
  BY <1>1, <1>3 DEF SameQueue
<1>8. QueueInv(c) /\ CountInv(c) /\ StoredInv(c) /\ ReplyInv(c)
  BY <1>1 DEF ProtocolInv
<1>9. /\ QueueInv(c)' /\ CountInv(c)'
      /\ Asks(c)' <=> Asks(c)
      /\ Ends(c)' <=> Ends(c)
  BY <1>7, <1>8, QueueStays
<1>10. \A n \in 1..k : Told(c, n)' => Told(c, n)
  BY <1>1, <1>3 DEF Told, Over
<1>11. StoredInv(c)'
  BY <1>1, <1>3, <1>4, <1>8, <1>9, <1>10, LengthsAreNat DEF StoredInv, CountInv, Served
<1>12. ReplyInv(c)'
  BY <1>1, <1>3, <1>8, <1>9 DEF ReplyInv, Dead
<1>13. ClientInv' /\ ReadInv'
  BY <1>1 DEF ClientInv, BetweenInv, WaitingInv, SendingInv, ReadInv, Between, Over
<1>14. QED
  BY <1>1, <1>5, <1>6, <1>9, <1>11, <1>12, <1>13, ConnectionsAgree DEF ProtocolInv

\* The end of send is the report of success.
LEMMA SendEndsStep ==
    ASSUME ShapeInv, ProtocolInv, SendEnds
    PROVE  ShapeInv' /\ ProtocolInv'
<1> PICK c : c = client
  OBVIOUS
<1> PICK k : k = Len(sent[c])
  OBVIOUS
<1>1. /\ client' = c /\ c \in DOMAIN net /\ sent[c] # <<>> /\ cpc = "end" /\ cpc' = "next"
      /\ net' = net /\ server' = server /\ handled' = handled
  BY DEF ShapeInv, HasFile, SendEnds, remote, line
<1>2. SetsField(c, "outcome", "FINISHED")
  BY DEF SendEnds, Outcome, SetsField, Asked
<1>3. /\ PutAt(sent, sent', c) /\ ASeq(sent'[c]) /\ Len(sent'[c]) = k
      /\ \A n \in 1..k : DOMAIN sent'[c][n] = DOMAIN sent[c][n]
      /\ \A n \in 1..k : n # k => sent'[c][n] = sent[c][n]
      /\ sent'[c][k].name = sent[c][k].name /\ sent'[c][k].changed = sent[c][k].changed
  BY <1>1, <1>2, FieldFacts
<1>4. k \in Nat /\ k \in 1..k /\ DOMAIN sent[c] = 1..k /\ DOMAIN sent'[c] = 1..k
  BY <1>1, <1>3, RequestFacts, LengthsAreNat, SeqFacts
<1>5. OnlyAt(c)
  BY <1>1, <1>3, PutAtFacts, SeqFacts DEF OnlyAt, ShapeInv
<1>6. ShapeInv'
  <2>1. ConnectionOK(c)'
    BY <1>1, <1>3, <1>4 DEF ShapeInv, ConnectionOK
  <2>2. QED
    BY <1>1, <1>5, <2>1, ShapeStays DEF HasFile
<1>7. SameQueue(c)
  BY <1>1, <1>3 DEF SameQueue
<1>8. QueueInv(c) /\ CountInv(c) /\ StoredInv(c) /\ ReplyInv(c)
  BY <1>1 DEF ProtocolInv
<1>9. /\ QueueInv(c)' /\ CountInv(c)'
      /\ Asks(c)' <=> Asks(c)
      /\ Ends(c)' <=> Ends(c)
  BY <1>7, <1>8, QueueStays
<1>10. \A n \in 1..k : Told(c, n)' => Told(c, n)
  BY <1>1, <1>3 DEF Told, Over
<1>11. StoredInv(c)'
  BY <1>1, <1>3, <1>4, <1>8, <1>9, <1>10, LengthsAreNat, SMTT(30) DEF StoredInv, CountInv, Served
<1>12. ReplyInv(c)'
  BY <1>1, <1>3, <1>8, <1>9 DEF ReplyInv, Dead
<1>13. ClientInv' /\ ReadInv'
  <2>1. BetweenInv(c)
    BY <1>1 DEF ProtocolInv, ClientInv
  <2>2. BetweenInv(c)'
    BY <1>1, <1>3, <1>9, <2>1 DEF BetweenInv, AtRest, Served, Over
  <2>3. WaitingInv(c)' /\ SendingInv(c)' /\ ReadInv'
    BY <1>1 DEF WaitingInv, SendingInv, ReadInv
  <2>4. QED
    BY <1>1, <2>2, <2>3 DEF ClientInv
<1>14. QED
  BY <1>1, <1>5, <1>6, <1>9, <1>11, <1>12, <1>13, ConnectionsAgree DEF ProtocolInv

\* A file that changes has only to be received, not to be complete.
LEMMA FileChangesStep ==
    ASSUME ShapeInv, ProtocolInv, NEW n \in Nat, FileChanges(n)
    PROVE  ShapeInv' /\ ProtocolInv'
<1> PICK c : c = client
  OBVIOUS
<1> PICK k : k = Len(sent[c])
  OBVIOUS
<1>1. /\ client' = c /\ c \in DOMAIN net /\ sent[c] # <<>>
      /\ cpc \in {"reply", "data"} /\ cpc' = cpc /\ file' = file /\ len' = n
      /\ net' = net /\ server' = server /\ handled' = handled
  BY DEF ShapeInv, HasFile, FileChanges, remote, line
<1>2. SetsField(c, "changed", TRUE)
  BY DEF FileChanges, SetsField, Asked
<1>3. /\ PutAt(sent, sent', c) /\ ASeq(sent'[c]) /\ Len(sent'[c]) = k
      /\ \A m \in 1..k : DOMAIN sent'[c][m] = DOMAIN sent[c][m]
      /\ \A m \in 1..k : m # k => sent'[c][m] = sent[c][m]
      /\ sent'[c][k].name = sent[c][k].name /\ sent'[c][k].outcome = sent[c][k].outcome
      /\ sent'[c][k].changed
  <2>0. PICK v : v = TRUE
    OBVIOUS
  <2>1. SetsField(c, "changed", v)
    BY <1>2, <2>0
  <2>2. /\ PutAt(sent, sent', c) /\ ASeq(sent'[c]) /\ Len(sent'[c]) = k
        /\ \A m \in 1..k : DOMAIN sent'[c][m] = DOMAIN sent[c][m]
        /\ \A m \in 1..k : m # k => sent'[c][m] = sent[c][m]
        /\ sent'[c][k].name = sent[c][k].name /\ sent'[c][k].outcome = sent[c][k].outcome
        /\ sent'[c][k].changed = v
    <3>1. /\ PutAt(sent, sent', c) /\ ASeq(sent'[c]) /\ Len(sent'[c]) = k
          /\ \A m \in 1..k : DOMAIN sent'[c][m] = DOMAIN sent[c][m]
          /\ \A m \in 1..k : m # k => sent'[c][m] = sent[c][m]
      BY <1>1, <2>1, FieldFacts
    <3>2. /\ \A g \in {"arg", "source", "name", "changed", "outcome"} \ {"changed"} :
                 sent'[c][k][g] = sent[c][k][g]
          /\ sent'[c][k].changed = v
      BY <1>1, <2>1, FieldFacts
    <3>3. QED
      BY <3>1, <3>2
  <2>3. QED
    BY <2>0, <2>2
<1>4. k \in Nat /\ k \in 1..k /\ DOMAIN sent[c] = 1..k /\ DOMAIN sent'[c] = 1..k
  BY <1>1, <1>3, RequestFacts, LengthsAreNat, SeqFacts
<1>5. OnlyAt(c)
  BY <1>1, <1>3, PutAtFacts, SeqFacts DEF OnlyAt, ShapeInv
<1>6. ShapeInv'
  <2>1. ConnectionOK(c)'
    BY <1>1, <1>3, <1>4 DEF ShapeInv, ConnectionOK
  <2>2. sent'[c] # <<>>
    BY <1>3, <1>4
  <2>3. file' \in FileReaders /\ len' \in Nat
    BY <1>1 DEF ShapeInv, HasFile
  <2>4. QED
    BY <1>1, <1>5, <2>1, <2>2, <2>3, ShapeStays DEF HasFile
<1>7. SameQueue(c)
  BY <1>1, <1>3 DEF SameQueue
<1>8. QueueInv(c) /\ CountInv(c) /\ StoredInv(c) /\ ReplyInv(c)
  BY <1>1 DEF ProtocolInv
<1>9. /\ QueueInv(c)' /\ CountInv(c)'
      /\ Asks(c)' <=> Asks(c)
      /\ Ends(c)' <=> Ends(c)
  BY <1>7, <1>8, QueueStays
<1>10. \A m \in 1..k : Told(c, m)' => Told(c, m)
  BY <1>1, <1>3 DEF Told
<1>11. StoredInv(c)'
  <2>1. \A m \in 1..k : sent'[c][m].name = sent[c][m].name
    BY <1>3
  <2>2. \A m \in 1..k : ~sent'[c][m].changed => ~sent[c][m].changed
    BY <1>3
  <2>3. Served(c) \in Nat /\ Served(c) <= k /\ Served(c)' = Served(c)
    BY <1>1, <1>8, LengthsAreNat DEF CountInv, Served
  <2>4. \A m \in 1..Served(c) : m \in 1..k
    BY <1>4, <2>3
  <2>5. QED
    BY <1>1, <1>3, <1>4, <1>8, <1>9, <1>10, <2>1, <2>2, <2>3, <2>4 DEF StoredInv
<1>12. ReplyInv(c)'
  BY <1>1, <1>3, <1>8, <1>9 DEF ReplyInv, Dead
<1>13. ClientInv' /\ ReadInv'
  <2>1. WaitingInv(c) /\ SendingInv(c)
    BY <1>1 DEF ProtocolInv, ClientInv
  <2>2. Receives(c)' <=> Receives(c)
    BY <1>1, <1>3, <1>9 DEF Receives, Served
  <2>3. WaitingInv(c)'
    BY <1>1, <1>3, <1>4, <1>9, <2>1, <2>2 DEF WaitingInv, Request, Newest
  <2>4. SendingInv(c)'
    BY <1>1, <1>3, <1>4, <1>9, <2>1, <2>2 DEF SendingInv, Request, Newest
  <2>5. BetweenInv(c)'
    BY <1>1 DEF BetweenInv, Between, Over
  <2>6. ReadInv'
    BY <1>1, <1>3 DEF ReadInv, Request, ProtocolInv
  <2>7. QED
    BY <1>1, <2>3, <2>4, <2>5, <2>6 DEF ClientInv
<1>14. QED
  BY <1>1, <1>5, <1>6, <1>9, <1>11, <1>12, <1>13, ConnectionsAgree DEF ProtocolInv

\* The answer is read: the server is ready for the data.
LEMMA AcceptedStep ==
    ASSUME ShapeInv, ProtocolInv, Accepted
    PROVE  ShapeInv' /\ ProtocolInv'
<1> PICK c : c = client
  OBVIOUS
<1> DEFINE e == [net[c] EXCEPT !.back = Tail(@)]
<1>1. /\ client' = c /\ c \in DOMAIN net /\ sent[c] # <<>>
      /\ cpc = "reply" /\ cpc' = "data" /\ file' = file /\ len' = len
      /\ net[c].back # <<>> /\ Head(net[c].back) = "accept"
      /\ net' = [net EXCEPT ![c] = e]
      /\ sent' = sent /\ server' = server /\ handled' = handled
  BY DEF ShapeInv, HasFile, Accepted, line, remote, disk, Current
<1>2. ASeq(net[c].back) /\ DOMAIN net[c] = {"target", "up", "out", "back"}
  BY <1>1 DEF ShapeInv, ConnectionOK
<1>3. /\ DOMAIN e = DOMAIN net[c] /\ e.back = Tail(net[c].back)
      /\ e.up = net[c].up /\ e.out = net[c].out
  BY <1>2
<1> HIDE DEF e
<1>4. OnlyAt(c) /\ net'[c] = e
  BY <1>1, ChangeAt DEF OnlyAt
<1>5. /\ DOMAIN net'[c] = DOMAIN net[c] /\ net'[c].back = Tail(net[c].back)
      /\ net'[c].up = net[c].up /\ net'[c].out = net[c].out
      /\ DOMAIN net' = DOMAIN net
  BY <1>1, <1>3, <1>4
<1>6. WaitingInv(c)
  BY <1>1 DEF ProtocolInv, ClientInv
<1>7. /\ net[c].back[1] = "accept" /\ ASeq(Tail(net[c].back))
      /\ Len(Tail(net[c].back)) = 0 /\ Tail(net[c].back) = <<>>
  <2>0. PICK b : b = net[c].back
    OBVIOUS
  <2>1. ASeq(b) /\ b # <<>> /\ Head(b) = "accept" /\ Len(b) <= 1
    BY <2>0, <1>1, <1>2, <1>6 DEF WaitingInv
  <2>2. /\ ASeq(Tail(b)) /\ Len(Tail(b)) = Len(b) - 1 /\ Len(b) >= 1 /\ Head(b) = b[1]
    BY <2>1, TailFacts
  <2>3. Len(b) \in Nat /\ Len(b) >= 1 /\ Len(b) <= 1
    BY <2>1, <2>2, SeqFacts
  <2>4. Len(Tail(b)) = 0
    <3>1. Len(b) = 1
      BY <2>3, SMTT(30)
    <3>2. Len(Tail(b)) = Len(b) - 1
      BY <2>2
    <3>3. QED
      BY <3>1, <3>2
  <2>5. Tail(b) = <<>>
    BY <2>2, <2>4, SeqFacts
  <2>6. QED
    BY <2>0, <2>1, <2>2, <2>4, <2>5
<1>8. ShapeInv'
  <2>1. ConnectionOK(c)'
    BY <1>1, <1>5, <1>7 DEF ShapeInv, ConnectionOK
  <2>2. file' \in FileReaders /\ len' \in Nat
    BY <1>1 DEF ShapeInv, HasFile
  <2>3. QED
    BY <1>1, <1>4, <2>1, <2>2, ShapeStays
<1>9. SameQueue(c)
  BY <1>1, <1>5 DEF SameQueue
<1>10. QueueInv(c) /\ CountInv(c) /\ StoredInv(c) /\ ReplyInv(c)
  BY <1>1 DEF ProtocolInv
<1>11. /\ QueueInv(c)' /\ CountInv(c)'
       /\ Asks(c)' <=> Asks(c)
       /\ Ends(c)' <=> Ends(c)
  BY <1>9, <1>10, QueueStays
<1>12. StoredInv(c)'
  BY <1>1, <1>5, <1>10, <1>11 DEF StoredInv, Told, Over, Served
<1>13. ReplyInv(c)'
  BY <1>1, <1>5, <1>6, <1>10, <1>11 DEF ReplyInv, WaitingInv, Receives, Dead
<1>14. ClientInv' /\ ReadInv'
  <2>1. Receives(c)' <=> Receives(c)
    BY <1>1, <1>11 DEF Receives, Served
  <2>2. file.bytes = 0
    BY <1>1 DEF ProtocolInv, ReadInv
  <2>3. SendingInv(c)'
    BY <1>1, <1>5, <1>6, <1>7, <2>1, <2>2 DEF SendingInv, WaitingInv, Request
  <2>4. BetweenInv(c)' /\ WaitingInv(c)'
    BY <1>1 DEF BetweenInv, WaitingInv, Between, Over
  <2>5. ReadInv'
    <3>1. file \in FileReaders
      BY <1>1 DEF ShapeInv, HasFile
    <3>2. QED
      BY <1>1, <3>1 DEF ProtocolInv, ReadInv, Request, FileReaders
  <2>6. QED
    BY <1>1, <2>3, <2>4, <2>5 DEF ClientInv
<1>15. QED
  BY <1>1, <1>4, <1>8, <1>11, <1>12, <1>13, <1>14, ConnectionsAgree DEF ProtocolInv

\* A message goes out as long as the connection holds.
LEMMA SendsFacts ==
    ASSUME ShapeInv, NEW c \in DOMAIN net, c = client, NEW m, Sends(m),
           net[c].up \in {"up", "cut"}
    PROVE  /\ PutAt(net, net', c) /\ DOMAIN net' = DOMAIN net
           /\ DOMAIN net'[c] = {"target", "up", "out", "back"} /\ ASeq(net'[c].out)
           /\ net'[c].up = net[c].up /\ net'[c].back = net[c].back
           /\ net'[c].out = IF net[c].up = "up" THEN Append(net[c].out, m) ELSE net[c].out
<1>1. ASeq(net[c].out) /\ DOMAIN net[c] = {"target", "up", "out", "back"}
  BY DEF ShapeInv, ConnectionOK
<1>2. CASE net[c].up = "up"
  <2> DEFINE e == [net[c] EXCEPT !.out = Append(@, m)]
  <2>1. net' = [net EXCEPT ![c] = e]
    BY <1>2 DEF Sends, Current
  <2>2. /\ DOMAIN e = DOMAIN net[c] /\ e.up = net[c].up /\ e.back = net[c].back
        /\ e.out = Append(net[c].out, m)
    BY <1>1
  <2> HIDE DEF e
  <2>3. ASeq(e.out)
    BY <1>1, <2>2, AppendFacts
  <2>4. PutAt(net, net', c) /\ net'[c] = e
    BY <2>1, ChangeAt
  <2>5. DOMAIN net' = DOMAIN net
    BY <2>1
  <2>6. QED
    BY <1>1, <1>2, <2>2, <2>3, <2>4, <2>5
<1>3. CASE net[c].up = "cut"
  <2>1. net' = net
    BY <1>3 DEF Sends, Current
  <2>2. PutAt(net, net', c)
    BY <2>1, ChangeAt
  <2>3. QED
    BY <1>1, <1>3, <2>1, <2>2
<1>4. QED
  BY <1>2, <1>3

\* What ends a file is the newest message, unless the next file is asked for.
LEMMA EndIsNewest ==
    ASSUME ShapeInv, NEW c \in DOMAIN net, QueueInv(c), server[c].pc # "gone",
           Ends(c), ~Asks(c)
    PROVE  Len(net[c].out) >= 1 /\ Newest(c).type = "finished"
<1>1. PICK j \in Coming(c) : net[c].out[j].type = "finished"
  BY DEF Ends
<1>2. Len(net[c].out) \in Nat /\ Len(net[c].out) >= 1 /\ j \in 1..Len(net[c].out)
      /\ net[c].out # <<>>
  BY <1>1, LengthsAreNat DEF Coming
<1>3. CASE j < Len(net[c].out)
  <2>1. j + 1 \in Coming(c) /\ j + 1 > 1 /\ (j + 1) - 1 = j
    BY <1>2, <1>3 DEF Coming
  <2>2. CASE net[c].out[j + 1].type = "request" /\ RequestOK(c, j + 1)
    BY <1>2, <2>2 DEF RequestOK, Asks, Newest
  <2>3. CASE DataOK(c, j + 1) \/ FinishedOK(c, j + 1)
    BY <1>1, <2>1, <2>3 DEF DataOK, FinishedOK
  <2>4. QED
    BY <2>1, <2>2, <2>3 DEF QueueInv, MessageOK
<1>4. CASE j = Len(net[c].out)
  BY <1>1, <1>2, <1>4 DEF Newest
<1>5. QED
  BY <1>2, <1>3, <1>4

\* The request is the only message, or follows the end of the file before.
LEMMA SendRequestStep ==
    ASSUME ShapeInv, ProtocolInv, SendRequest
    PROVE  ShapeInv' /\ ProtocolInv'
<1>0. PICK c : c = client
  OBVIOUS
<1> DEFINE name == SubSeq(entry, ignored + 1, Len(entry))
<1>1. PICK m, r :
          /\ Sends(m) /\ m.type = "request" /\ m.name = r.name /\ m.size = file.size
          /\ DOMAIN r = {"arg", "source", "name", "changed", "outcome"}
          /\ r.outcome = None
          /\ sent' = [sent EXCEPT ![c] = Append(sent[c], r)]
  <2> DEFINE mm == [type |-> "request", name |-> name, size |-> file.size]
             rr == [arg |-> i - 1, source |-> Here, name |-> name, changed |-> FALSE,
                    outcome |-> None]
  <2>1. Sends(mm) /\ sent' = [sent EXCEPT ![c] = Append(sent[c], rr)]
    BY <1>0 DEF SendRequest
  <2>2. mm.type = "request" /\ mm.name = rr.name /\ mm.size = file.size
    OBVIOUS
  <2>3. DOMAIN rr = {"arg", "source", "name", "changed", "outcome"} /\ rr.outcome = None
    OBVIOUS
  <2> HIDE DEF mm, rr
  <2>4. QED
    BY <2>1, <2>2, <2>3
<1>2. /\ client' = c /\ client = c /\ c \in DOMAIN net
      /\ cpc = "request" /\ cpc' = "reply" /\ file' = file /\ len' = len
      /\ server' = server /\ handled' = handled
      /\ file \in FileReaders /\ len \in Nat
  BY <1>0 DEF ShapeInv, HasFile, SendRequest, line, remote, disk
<1>3. QueueInv(c) /\ CountInv(c) /\ StoredInv(c) /\ ReplyInv(c) /\ BetweenInv(c)
  BY <1>2 DEF ProtocolInv, ClientInv
<1>4. net[c].back = <<>> /\ net[c].up \in {"up", "cut"} /\ (net[c].up = "up" => AtRest(c))
  BY <1>2, <1>3 DEF BetweenInv, Between, ShapeInv, ConnectionOK
<1>5. /\ PutAt(net, net', c) /\ DOMAIN net' = DOMAIN net
      /\ DOMAIN net'[c] = {"target", "up", "out", "back"} /\ ASeq(net'[c].out)
      /\ net'[c].up = net[c].up /\ net'[c].back = net[c].back
      /\ net'[c].out = IF net[c].up = "up" THEN Append(net[c].out, m) ELSE net[c].out
  BY <1>1, <1>2, <1>4, SendsFacts
<1>6. PICK k : k = Len(sent[c])
  OBVIOUS
<1>7. ASeq(sent[c]) /\ k \in Nat /\ DOMAIN sent[c] = 1..k
  BY <1>2, <1>6, LengthsAreNat DEF ShapeInv, ConnectionOK
<1>8. PutAt(sent, sent', c) /\ sent'[c] = Append(sent[c], r)
  BY <1>1, <1>2, ChangeAt
<1>9. /\ ASeq(sent'[c]) /\ Len(sent'[c]) = k + 1 /\ DOMAIN sent'[c] = 1..(k + 1)
      /\ sent'[c] # <<>> /\ sent'[c][k + 1] = r
      /\ \A n \in 1..k : sent'[c][n] = sent[c][n]
  BY <1>6, <1>7, <1>8, AppendFacts, SeqFacts
<1>10. OnlyAt(c)
  BY <1>2, <1>5, <1>8, ChangeAt DEF OnlyAt
<1>11. ShapeInv'
  <2>1. \A n \in DOMAIN sent'[c] :
            DOMAIN sent'[c][n] = {"arg", "source", "name", "changed", "outcome"}
    BY <1>1, <1>2, <1>7, <1>9 DEF ShapeInv, ConnectionOK
  <2>2. ConnectionOK(c)'
    BY <1>2, <1>5, <1>9, <2>1 DEF ShapeInv, ConnectionOK
  <2>3. QED
    BY <1>2, <1>9, <1>10, <2>2, ShapeStays
<1>12. server[c].pc # "gone" => ~Asks(c)
  BY <1>2, <1>3 DEF ReplyInv, Dead
<1>13. PICK l : l = Len(net[c].out) + 1
  OBVIOUS
<1>14. Len(net[c].out) \in Nat /\ Len(handled[c]) \in Nat
       /\ (net[c].out = <<>> <=> Len(net[c].out) = 0)
  BY <1>2, LengthsAreNat
<1>15. server[c].pc \in {"run", "data", "gone"}
  BY <1>2 DEF ShapeInv, ConnectionOK
<1>16. \A n \in 1..k : Told(c, n)' => Told(c, n)
  BY <1>2, <1>7, <1>9 DEF Told, Over
<1>17. ~Told(c, k + 1)'
  BY <1>1, <1>2, <1>9, ClientOK DEF Told, Over
<1>18. QueueInv(c)' /\ (Ends(c) => Ends(c)') /\ (net[c].up = "up" => Asks(c)' /\ Newest(c)' = m)
       /\ (server[c].pc # "gone" /\ Asks(c)' => net[c].up = "up")
  <2>1. CASE net[c].up = "up"
    <3>1. net'[c].out = Append(net[c].out, m)
      BY <1>5, <2>1
    <3>2. /\ Len(sent'[c]) \in Nat /\ Len(sent[c]) <= Len(sent'[c])
          /\ \A n \in 1..Len(sent[c]) : sent'[c][n] = sent[c][n]
      BY <1>6, <1>7, <1>9
    <3>3. /\ Newest(c)' = m /\ Len(net'[c].out) = l
          /\ \A j \in Coming(c) : net'[c].out[j] = net[c].out[j]
          /\ Asks(c)' <=> m.type = "request"
          /\ Ends(c)' <=> Ends(c) \/ m.type = "finished"
          /\ MessageOK(c, l)' => QueueInv(c)'
      <4>1. GrowsBy(c, m, l)
        BY <1>2, <1>5, <1>12, <1>13, <3>1, <3>2 DEF GrowsBy
      <4>2. QueueInv(c) /\ CountInv(c)
        BY <1>3
      <4>3. QED
        BY <1>2, <4>1, <4>2, QueueGrows
    <3>4. IF server[c].pc = "run" THEN l = 1 ELSE l > 1 /\ net'[c].out[l - 1].type = "finished"
      <4>1. CASE server[c].pc = "run"
        BY <1>4, <1>13, <1>14, <2>1, <4>1 DEF AtRest
      <4>2. CASE server[c].pc # "run"
        <5>1. Ends(c) /\ server[c].pc # "gone"
          BY <1>3, <1>4, <2>1, <4>2 DEF AtRest, ReplyInv
        <5>2. Len(net[c].out) >= 1 /\ Newest(c).type = "finished"
          BY <1>2, <1>3, <1>12, <5>1, EndIsNewest
        <5>3. l > 1 /\ l - 1 = Len(net[c].out) /\ l - 1 \in Coming(c)
          BY <1>13, <1>14, <5>2 DEF Coming
        <5>4. QED
          BY <3>3, <4>2, <5>2, <5>3 DEF Newest
      <4>3. QED
        BY <4>1, <4>2
    <3>5. m.name = sent'[c][Len(sent'[c])].name /\ net'[c].out[l].name = m.name
      BY <1>1, <1>9, <3>3 DEF Newest
    <3>6. RequestOK(c, l)'
      BY <1>2, <3>3, <3>4, <3>5 DEF RequestOK
    <3>7. MessageOK(c, l)'
      BY <1>1, <3>3, <3>6 DEF MessageOK, Newest
    <3>8. QED
      BY <1>1, <2>1, <3>3, <3>7
  <2>2. CASE net[c].up = "cut"
    <3>1. net'[c].out = net[c].out
      BY <1>5, <2>2
    <3>2. (Asks(c)' <=> Asks(c)) /\ (Ends(c)' <=> Ends(c))
      BY <3>1 DEF Asks, Ends, Newest, Coming
    <3>3. QueueInv(c)'
      <4> SUFFICES ASSUME server[c].pc # "gone", NEW j \in Coming(c)
                   PROVE  \/ net[c].out[j].type = "data" /\ DataOK(c, j)'
                          \/ net[c].out[j].type = "finished" /\ FinishedOK(c, j)'
        BY <1>2, <3>1 DEF QueueInv, MessageOK, Coming
      <4>1. CASE net[c].out[j].type = "request" /\ RequestOK(c, j)
        BY <1>12, <1>14, <4>1 DEF RequestOK, Asks, Newest, Coming
      <4>2. CASE net[c].out[j].type = "data" /\ DataOK(c, j)
        BY <1>2, <3>1, <4>2 DEF DataOK, Before
      <4>3. CASE net[c].out[j].type = "finished" /\ FinishedOK(c, j)
        <5>1. Served(c) + 1 \in 1..k
          BY <1>3, <1>6, <1>7, <1>14, <4>3 DEF CountInv, FinishedOK, Served
        <5>2. QED
          BY <1>2, <1>9, <3>1, <4>3, <5>1 DEF FinishedOK, Before, Served
      <4>4. QED
        BY <1>3, <4>1, <4>2, <4>3 DEF QueueInv, MessageOK
    <3>4. QED
      BY <1>12, <2>2, <3>2, <3>3
  <2>3. QED
    BY <1>4, <2>1, <2>2
<1>19. CountInv(c)'
  <2>1. Served(c)' = Served(c) /\ Served(c) \in Nat /\ Served(c) <= k
    BY <1>2, <1>3, <1>6, <1>14 DEF Served, CountInv
  <2>2. \A n \in 1..Served(c) : handled'[c][n].name = sent'[c][n].name
    BY <1>2, <1>3, <1>7, <1>9, <2>1 DEF CountInv
  <2>3. server[c].pc = "run" /\ Asks(c)' => k = Served(c)
    BY <1>4, <1>6, <1>18 DEF AtRest
  <2>4. server[c].pc = "data" =>
            /\ Served(c) < k /\ server[c].name = sent'[c][Served(c) + 1].name
            /\ Asks(c)' => k = Served(c) + 1
    <3>1. ASSUME server[c].pc = "data"
          PROVE  Served(c) < k /\ server[c].name = sent[c][Served(c) + 1].name
      BY <1>3, <1>6, <3>1 DEF CountInv
    <3>2. ASSUME server[c].pc = "data" PROVE Served(c) + 1 \in 1..k
      BY <1>7, <2>1, <3>1, <3>2
    <3>3. ASSUME server[c].pc = "data", Asks(c)' PROVE k = Served(c) + 1
      BY <1>4, <1>6, <1>18, <3>3 DEF AtRest
    <3>4. QED
      BY <1>9, <3>1, <3>2, <3>3
  <2>5. QED
    BY <1>2, <1>7, <1>9, <2>1, <2>2, <2>3, <2>4 DEF CountInv
<1>20. StoredInv(c)'
  <2>1. Served(c)' = Served(c) /\ Served(c) \in Nat /\ Served(c) <= k
    BY <1>2, <1>3, <1>6, <1>14 DEF Served, CountInv
  <2>2. \A n \in 1..(k + 1) : Told(c, n)' => n \in 1..k /\ Told(c, n)
    BY <1>7, <1>16, <1>17
  <2>3. \A n \in DOMAIN sent'[c] : Told(c, n)' => ~pathIsUnsafe(sent'[c][n].name)
    BY <1>3, <1>7, <1>9, <2>2 DEF StoredInv
  <2>4. \A n \in 1..Served(c) : n \in 1..k /\ n \in 1..(k + 1)
    BY <1>7, <2>1
  <2>5. net'[c].up # "cut" => \A n \in 1..Served(c) :
            Told(c, n)' /\ ~sent'[c][n].changed => handled'[c][n].outcome = "FINISHED"
    BY <1>2, <1>3, <1>5, <1>9, <2>2, <2>4 DEF StoredInv
  <2>6. net'[c].up # "cut" /\ server[c].pc = "data" => Ends(c)'
    BY <1>4, <1>5, <1>18 DEF AtRest
  <2>7. QED
    BY <1>2, <2>1, <2>3, <2>5, <2>6 DEF StoredInv
<1>21. ReplyInv(c)'
  <2>1. sent'[c][Len(sent'[c])].outcome # "FINISHED"
    BY <1>1, <1>9, ClientOK
  <2>2. QED
    BY <1>2, <1>3, <1>4, <1>5, <2>1 DEF ReplyInv
<1>22. ClientInv' /\ ReadInv'
  <2>1. Request(c)'.outcome # "FINISHED"
    BY <1>1, <1>9, ClientOK DEF Request
  <2>2. Len(net[c].back) <= 1
    BY <1>4, LengthsAreNat, <1>2
  <2>3. WaitingInv(c)'
    BY <1>1, <1>2, <1>4, <1>5, <1>18, <2>1, <2>2 DEF WaitingInv
  <2>4. BetweenInv(c)' /\ SendingInv(c)'
    BY <1>2 DEF BetweenInv, SendingInv, Between, Over
  <2>5. ReadInv'
    BY <1>2 DEF ReadInv, ProtocolInv, FileReaders
  <2>6. QED
    BY <1>2, <2>3, <2>4, <2>5 DEF ClientInv
<1>23. QED
  BY <1>2, <1>10, <1>11, <1>18, <1>19, <1>20, <1>21, <1>22, ConnectionsAgree DEF ProtocolInv

\* A file is not read beyond the size it is known to have.
LEMMA ReadSizeFacts ==
    ASSUME file.bytes \in Nat, len \in Nat
    PROVE  ReadSize \in Nat /\ (file.bytes <= len => file.bytes + ReadSize <= len)
<1> DEFINE rest == IF len > file.bytes THEN len - file.bytes ELSE 0
           S == {Chunk, rest}
<1>1. Chunk \in Nat /\ rest \in Nat
  BY ClientOK
<1>2. PICK x \in S : \A y \in S : x <= y
  <2>1. CASE Chunk <= rest
    BY <1>1, <2>1
  <2>2. CASE rest <= Chunk
    BY <1>1, <2>2
  <2>3. QED
    BY <1>1, <2>1, <2>2
<1> HIDE DEF S
<1>3. Min(S) \in S /\ \A y \in S : Min(S) <= y
  BY <1>2 DEF Min
<1> USE DEF S
<1>4. Min(S) \in Nat /\ Min(S) <= rest
  BY <1>1, <1>3
<1>5. ReadSize = Min(S)
  BY DEF ReadSize
<1>6. QED
  BY <1>1, <1>4, <1>5

\* What a step of send that has been accepted may rely on.
LEMMA SendingFacts ==
    ASSUME ShapeInv, ProtocolInv, cpc \in {"data", "finished"}
    PROVE  LET c == client
           IN  /\ c \in DOMAIN net /\ sent[c] # <<>>
               /\ file \in FileReaders /\ len \in Nat
               /\ QueueInv(c) /\ CountInv(c) /\ StoredInv(c) /\ ReplyInv(c) /\ SendingInv(c)
               /\ net[c].back = <<>> /\ net[c].up \in {"up", "cut"}
               /\ server[c].pc # "gone" => ~Asks(c)
<1>1. client \in DOMAIN net /\ sent[client] # <<>> /\ file \in FileReaders /\ len \in Nat
  BY DEF ShapeInv, HasFile
<1>2. /\ QueueInv(client) /\ CountInv(client) /\ StoredInv(client) /\ ReplyInv(client)
      /\ SendingInv(client)
  BY <1>1 DEF ProtocolInv, ClientInv
<1>3. net[client].back = <<>> /\ net[client].up \in {"up", "cut"}
  BY <1>1, <1>2 DEF SendingInv, Receives, ReplyInv, ShapeInv, ConnectionOK
<1>4. server[client].pc # "gone" => ~Asks(client)
  BY <1>2 DEF ReplyInv, Dead
<1>5. QED
  BY <1>1, <1>2, <1>3, <1>4

\* The next message of a file that is being sent, data or the end.
LEMMA ContinueStep ==
    ASSUME ShapeInv, ProtocolInv, cpc \in {"data", "finished"}, cpc' \in HasFile,
           file' \in FileReaders, len' = len, file'.size = file.size,
           UNCHANGED <<client, sent, server, handled>>,
           NEW c, c = client, NEW m, Sends(m),
           net[c].up = "up" =>
               \/ /\ m.type = "data" /\ cpc = "data" /\ m.position = file.bytes /\ m.bytes \in Nat
                  /\ file'.bytes = file.bytes + m.bytes /\ cpc' \in {"data", "finished"}
               \/ m.type = "finished" /\ cpc = "finished" /\ cpc' = "join",
           cpc' \in {"data", "finished", "join"}, ReadInv'
    PROVE  ShapeInv' /\ ProtocolInv'
<1>1. /\ c \in DOMAIN net /\ client' = c /\ sent[c] # <<>> /\ file \in FileReaders /\ len \in Nat
      /\ sent' = sent /\ server' = server /\ handled' = handled
      /\ QueueInv(c) /\ CountInv(c) /\ StoredInv(c) /\ ReplyInv(c) /\ SendingInv(c)
      /\ net[c].back = <<>> /\ net[c].up \in {"up", "cut"}
      /\ server[c].pc # "gone" => ~Asks(c)
  BY SendingFacts
<1>2. /\ PutAt(net, net', c) /\ DOMAIN net' = DOMAIN net
      /\ DOMAIN net'[c] = {"target", "up", "out", "back"} /\ ASeq(net'[c].out)
      /\ net'[c].up = net[c].up /\ net'[c].back = net[c].back
      /\ net'[c].out = IF net[c].up = "up" THEN Append(net[c].out, m) ELSE net[c].out
  BY <1>1, SendsFacts
<1>3. OnlyAt(c)
  BY <1>1, <1>2, ChangeAt DEF OnlyAt
<1>4. ShapeInv'
  <2>1. ConnectionOK(c)'
    BY <1>1, <1>2 DEF ShapeInv, ConnectionOK
  <2>2. QED
    BY <1>1, <1>3, <2>1, ShapeStays
<1>5. /\ Len(net[c].out) \in Nat /\ Len(sent[c]) \in Nat /\ Len(handled[c]) \in Nat
      /\ DOMAIN sent[c] = 1..Len(sent[c])
      /\ (net[c].out = <<>> <=> Len(net[c].out) = 0)
  BY <1>1, LengthsAreNat
<1>6. Request(c) = sent[c][Len(sent[c])] /\ ~pathIsUnsafe(sent[c][Len(sent[c])].name)
  BY <1>1 DEF SendingInv, Request
<1>7. \A n : Told(c, n)' => Told(c, n) \/ (n = Len(sent[c]) /\ cpc' = "join")
  BY <1>1 DEF Told, Over
<1>8. ReadInv'
  OBVIOUS
<1>9. CASE net[c].up = "cut"
  <2>1. net'[c].out = net[c].out /\ SameQueue(c)
    BY <1>1, <1>2, <1>9 DEF SameQueue
  <2>2. /\ QueueInv(c)' /\ CountInv(c)'
        /\ Asks(c)' <=> Asks(c)
        /\ Ends(c)' <=> Ends(c)
    BY <1>1, <2>1, QueueStays
  <2>3. StoredInv(c)'
    BY <1>1, <1>2, <1>6, <1>7, <1>9 DEF StoredInv
  <2>4. ReplyInv(c)'
    BY <1>1, <1>2, <1>9, <2>2 DEF ReplyInv
  <2>5. ClientInv'
    <3>1. SendingInv(c)'
      BY <1>1, <1>2, <1>9 DEF SendingInv, Request
    <3>2. BetweenInv(c)'
      BY <1>1, <1>2, <1>9 DEF BetweenInv
    <3>3. WaitingInv(c)'
      BY DEF WaitingInv
    <3>4. QED
      BY <1>1, <3>1, <3>2, <3>3 DEF ClientInv
  <2>6. QED
    BY <1>1, <1>3, <1>4, <1>8, <2>2, <2>3, <2>4, <2>5, ConnectionsAgree DEF ProtocolInv
<1>10. CASE net[c].up = "up"
  <2>0. PICK k : k = Len(net[c].out) + 1
    OBVIOUS
  <2>1. /\ server[c].pc = "data" /\ server[c].size = file.size
        /\ ~Ends(c) /\ ~Asks(c) /\ Len(sent[c]) = Served(c) + 1
        /\ file.bytes = IF net[c].out = <<>> THEN server[c].got
                        ELSE Newest(c).position + Newest(c).bytes
    BY <1>1, <1>10 DEF SendingInv, Receives
  <2>2. GrowsBy(c, m, k)
    BY <1>1, <1>2, <1>5, <1>10, <2>0 DEF GrowsBy
  <2>3. /\ Newest(c)' = m /\ net'[c].out[k] = m /\ Len(net'[c].out) = k
        /\ net'[c].out # <<>>
        /\ \A j \in Coming(c) : net'[c].out[j] = net[c].out[j]
        /\ Asks(c)' <=> m.type = "request"
        /\ Ends(c)' <=> Ends(c) \/ m.type = "finished"
        /\ MessageOK(c, k)' => QueueInv(c)'
    BY <1>1, <2>2, QueueGrows
  <2>4. k \in Nat /\ k >= 1 /\ (k = 1 <=> net[c].out = <<>>) /\ (k > 1 => k - 1 \in Coming(c))
        /\ k - 1 = Len(net[c].out)
    BY <1>5, <2>0 DEF Coming
  <2>5. k > 1 => net'[c].out[k - 1] = Newest(c) /\ Newest(c).type = "data"
    <3> SUFFICES ASSUME k > 1 PROVE net'[c].out[k - 1] = Newest(c) /\ Newest(c).type = "data"
      OBVIOUS
    <3>1. net'[c].out[k - 1] = net[c].out[k - 1] /\ Newest(c) = net[c].out[k - 1]
      BY <2>3, <2>4 DEF Newest
    <3>2. MessageOK(c, k - 1)
      BY <1>1, <2>1, <2>4 DEF QueueInv
    <3>3. Newest(c).type # "finished" /\ Newest(c).type # "request"
      BY <2>1, <2>4, <3>1 DEF Ends, Asks
    <3>4. QED
      BY <3>1, <3>2, <3>3 DEF MessageOK
  <2>6. file.bytes = Before(c, k)'
    BY <1>1, <2>1, <2>4, <2>5 DEF Before
  <2>7. MessageOK(c, k)'
    <3>1. CASE m.type = "data" /\ m.position = file.bytes /\ m.bytes \in Nat
      BY <1>1, <2>1, <2>3, <2>5, <2>6, <3>1 DEF MessageOK, DataOK
    <3>2. CASE m.type = "finished" /\ cpc = "finished"
      <4>1. ~sent[c][Len(sent[c])].changed => file.bytes = file.size
        BY <1>6, <3>2 DEF ProtocolInv, ReadInv
      <4>2. Served(c)' + 1 = Len(sent[c])
        BY <1>1, <1>5, <2>1 DEF Served
      <4>3. FinishedOK(c, k)'
        BY <1>1, <2>1, <2>3, <2>5, <2>6, <4>1, <4>2 DEF FinishedOK
      <4>4. QED
        BY <2>3, <3>2, <4>3 DEF MessageOK
    <3>3. QED
      BY <1>10, <3>1, <3>2
  <2>8. ~Asks(c)' /\ QueueInv(c)' /\ (Ends(c)' <=> m.type = "finished")
    BY <1>10, <2>1, <2>3, <2>7
  <2>9. CountInv(c)'
    BY <1>1, <2>8 DEF CountInv, Served
  <2>10. StoredInv(c)'
    <3>1. Served(c)' = Served(c) /\ Served(c) \in Nat
      BY <1>1, <1>5 DEF Served
    <3>2. \A n \in DOMAIN sent[c] : Told(c, n)' => ~pathIsUnsafe(sent[c][n].name)
      BY <1>1, <1>6, <1>7 DEF StoredInv
    <3>3. \A n \in 1..Served(c) : Told(c, n)' => Told(c, n)
      BY <1>7, <2>1, <3>1
    <3>4. ~Ends(c)' => cpc' # "join"
      BY <1>10, <2>8
    <3>5. ~Ends(c)' => ~Told(c, Len(sent[c]))'
      BY <1>1, <1>7, <1>10, <2>1, <3>4 DEF StoredInv
    <3>6. QED
      BY <1>1, <1>2, <2>1, <3>1, <3>2, <3>3, <3>5 DEF StoredInv
  <2>11. ReplyInv(c)'
    BY <1>1, <1>2, <1>10, <2>1, <2>8 DEF ReplyInv
  <2>12. ClientInv'
    <3>1. SendingInv(c)'
      BY <1>1, <1>2, <1>6, <1>10, <2>1, <2>3, <2>8 DEF SendingInv, Receives, Request, Served
    <3>2. BetweenInv(c)'
      BY <1>1, <1>2, <1>10, <2>1, <2>8 DEF BetweenInv, AtRest, Served, Between, Over
    <3>3. WaitingInv(c)'
      BY DEF WaitingInv
    <3>4. QED
      BY <1>1, <3>1, <3>2, <3>3 DEF ClientInv
  <2>13. QED
    BY <1>1, <1>3, <1>4, <1>8, <2>8, <2>9, <2>10, <2>11, <2>12, ConnectionsAgree DEF ProtocolInv
<1>11. QED
  BY <1>1, <1>9, <1>10

\* The next fragment goes behind those before.
LEMMA SendDataStep ==
    ASSUME ShapeInv, ProtocolInv, SendData
    PROVE  ShapeInv' /\ ProtocolInv'
<1>0. PICK c : c = client
  OBVIOUS
<1>1. /\ cpc = "data" /\ len' = len /\ UNCHANGED <<client, sent, server, handled>>
      /\ file' = [file EXCEPT !.bytes = @ + ReadSize]
      /\ cpc' = IF DataEnds THEN "finished" ELSE "data"
  BY DEF SendData, line, remote, disk
<1>2. file \in FileReaders /\ len \in Nat
  BY <1>1 DEF ShapeInv, HasFile
<1>3. file.bytes \in Nat /\ file.size \in Nat
  BY <1>2 DEF FileReaders
<1>4. ReadSize \in Nat /\ (file.bytes <= len => file.bytes + ReadSize <= len)
  BY <1>2, <1>3, ReadSizeFacts
<1>5. file' \in FileReaders /\ file'.size = file.size /\ file'.bytes = file.bytes + ReadSize
  BY <1>1, <1>2, <1>3, <1>4 DEF FileReaders
<1>6. PICK m : /\ Sends(m) /\ m.type = "data" /\ m.position = file.bytes /\ m.bytes = ReadSize
  <2> DEFINE mm == [type |-> "data", position |-> file.bytes, bytes |-> ReadSize]
  <2>1. Sends(mm)
    BY DEF SendData
  <2>2. mm.type = "data" /\ mm.position = file.bytes /\ mm.bytes = ReadSize
    OBVIOUS
  <2> HIDE DEF mm
  <2>3. QED
    BY <2>1, <2>2
<1>7. ReadInv'
  <2>1. ~Request(client).changed => len = file.size /\ file.bytes <= file.size
    BY <1>1 DEF ProtocolInv, ReadInv
  <2>2. Request(client)' = Request(client)
    BY <1>1 DEF Request
  <2>3. DataEnds <=> file.bytes + ReadSize >= file.size
    BY <1>1, <1>5 DEF DataEnds
  <2>4. QED
    BY <1>1, <1>3, <1>4, <1>5, <2>1, <2>2, <2>3 DEF ReadInv
<1>8. QED
  BY <1>0, <1>1, <1>4, <1>5, <1>6, <1>7, ContinueStep DEF HasFile

\* The end of the file follows its last fragment.
LEMMA SendFinishedStep ==
    ASSUME ShapeInv, ProtocolInv, SendFinished
    PROVE  ShapeInv' /\ ProtocolInv'
<1>0. PICK c : c = client
  OBVIOUS
<1>1. /\ cpc = "finished" /\ cpc' = "join" /\ len' = len /\ file' = file
      /\ UNCHANGED <<client, sent, server, handled>>
  BY DEF SendFinished, line, remote, disk
<1>2. file \in FileReaders
  BY <1>1 DEF ShapeInv, HasFile
<1>3. PICK m : Sends(m) /\ m.type = "finished"
  <2> DEFINE mm == [type |-> "finished"]
  <2>1. Sends(mm) /\ mm.type = "finished"
    BY DEF SendFinished
  <2> HIDE DEF mm
  <2>2. QED
    BY <2>1
<1>4. ReadInv'
  BY <1>1 DEF ReadInv
<1>5. QED
  BY <1>0, <1>1, <1>2, <1>3, <1>4, ContinueStep DEF HasFile

-----------------------------------------------------------------------------
(* The steps of the server, and the connection that breaks.                *)

\* What a step at the other end of c leaves alone.
OtherEnd == UNCHANGED <<client, cpc, file, len, sent>>

\* A step of a server, or a break, at c is checked at c and at the client's end.
LEMMA OtherEndStays ==
    ASSUME ShapeInv, ProtocolInv, NEW c \in DOMAIN net, OtherEnd, OnlyAt(c), ConnectionOK(c)',
           QueueInv(c)', CountInv(c)', StoredInv(c)', ReplyInv(c)',
           c = client => BetweenInv(c)' /\ WaitingInv(c)' /\ SendingInv(c)'
    PROVE  ShapeInv' /\ ProtocolInv'
<1>1. ShapeInv'
  BY ShapeStays DEF OtherEnd, ShapeInv
<1>2. ReadInv'
  BY DEF ProtocolInv, ReadInv, Request, OtherEnd
<1>3. ClientInv'
  <2>1. CASE client # c
    <3> SUFFICES ASSUME client \in DOMAIN net'
                 PROVE  BetweenInv(client)' /\ WaitingInv(client)' /\ SendingInv(client)'
      BY DEF ClientInv, OtherEnd
    <3>1. SameConnection(client)
      BY <2>1, OnlyAtFacts
    <3>2. BetweenInv(client) /\ WaitingInv(client) /\ SendingInv(client)
      BY <3>1 DEF ProtocolInv, ClientInv, SameConnection
    <3>3. BetweenInv(client)'
      BY <3>1, <3>2 DEF BetweenInv, AtRest, Ends, Coming, Served, SameConnection, OtherEnd
    <3>4. WaitingInv(client)'
      BY <3>1, <3>2 DEF WaitingInv, Receives, Request, Asks, Ends, Newest, Coming, Served,
                        SameConnection, OtherEnd
    <3>5. SendingInv(client)'
      BY <3>1, <3>2 DEF SendingInv, Receives, Request, Asks, Ends, Newest, Coming, Served,
                        SameConnection, OtherEnd
    <3>6. QED
      BY <3>3, <3>4, <3>5
  <2>2. CASE client = c
    BY <2>2 DEF ClientInv, OtherEnd
  <2>3. QED
    BY <2>1, <2>2
<1>4. QED
  BY <1>1, <1>2, <1>3, ConnectionsAgree DEF ProtocolInv, OtherEnd

\* What comes to a server that has nothing to store is one request.
LEMMA RequestComes ==
    ASSUME ShapeInv, ProtocolInv, NEW c \in DOMAIN net, server[c].pc = "run", Takes(c)
    PROVE  /\ Asks(c) /\ Len(net[c].out) = 1 /\ Came(c) = net[c].out[1] /\ Newest(c) = Came(c)
           /\ Len(sent[c]) = Served(c) + 1 /\ Served(c) \in Nat
           /\ Came(c).name = sent[c][Served(c) + 1].name
           /\ Tail(net[c].out) = <<>> /\ ASeq(Tail(net[c].out))
           /\ c = client /\ sent[c][Served(c) + 1].outcome # "FINISHED"
           /\ cpc \in Dead \/ (cpc = "reply" /\ net[c].back = <<>>)
<1>1. QueueInv(c) /\ CountInv(c) /\ ReplyInv(c)
  BY DEF ProtocolInv
<1>2. PICK q : q = net[c].out
  OBVIOUS
<1>3. ASeq(q) /\ q # <<>> /\ Len(q) \in Nat
  BY <1>2, SeqFacts DEF Takes, ShapeInv, ConnectionOK
<1>4. ASeq(Tail(q)) /\ Len(Tail(q)) = Len(q) - 1 /\ Len(q) >= 1 /\ Head(q) = q[1]
  BY <1>3, TailFacts
<1>5. 1 \in Coming(c)
  BY <1>2, <1>3, <1>4 DEF Coming
<1>6. MessageOK(c, 1)
  BY <1>1, <1>5 DEF QueueInv
<1>7. net[c].out[1].type = "request" /\ RequestOK(c, 1)
  BY <1>6 DEF MessageOK, DataOK, FinishedOK
<1>8. Len(q) = 1
  BY <1>2, <1>7 DEF RequestOK
<1>9. Tail(q) = <<>>
  <2>1. Len(Tail(q)) = 0
    BY <1>4, <1>8
  <2>2. QED
    BY <1>4, <2>1, SeqFacts
<1>10. Came(c) = net[c].out[1] /\ Newest(c) = Came(c)
  BY <1>2, <1>4, <1>8 DEF Came, Newest
<1>11. Asks(c)
  BY <1>2, <1>3, <1>7, <1>10 DEF Asks
<1>12. Len(sent[c]) = Served(c) + 1 /\ Served(c) \in Nat
  BY <1>1, <1>11, LengthsAreNat DEF CountInv, Served
<1>13. QED
  BY <1>1, <1>2, <1>4, <1>7, <1>8, <1>9, <1>10, <1>11, <1>12 DEF RequestOK, ReplyInv

\* The answer to it, and what the server does next.
Answers(c, reply) ==
    /\ DOMAIN net'[c] = {"target", "up", "out", "back"}
    /\ net'[c].out = <<>> /\ net'[c].back = Append(net[c].back, reply)
    /\ net'[c].up = IF net[c].up = "up" /\ server'[c].pc = "gone" THEN "left" ELSE net[c].up

Declines(c, reply) ==
    /\ Answers(c, reply) /\ reply # "accept"
    /\ DOMAIN server'[c] = {"pc", "name", "size", "got"}
    /\ server'[c].pc \in {"run", "gone"} /\ server'[c].got \in Nat
    /\ \E h : h.name = Came(c).name /\ handled'[c] = Append(handled[c], h)

Agrees(c) ==
    /\ Answers(c, "accept") /\ ~pathIsUnsafe(Came(c).name) /\ handled'[c] = handled[c]
    /\ server'[c] = [pc |-> "data", name |-> Came(c).name, size |-> Came(c).size, got |-> 0]

\* A server that was idle answers the request.
LEMMA AnswerStep ==
    ASSUME ShapeInv, ProtocolInv, NEW c \in DOMAIN net, server[c].pc = "run", Takes(c), OtherEnd,
           OnlyAt(c), NEW reply, Declines(c, reply) \/ (Agrees(c) /\ reply = "accept")
    PROVE  ShapeInv' /\ ProtocolInv'
<1>1. /\ Asks(c) /\ Len(net[c].out) = 1 /\ Came(c) = net[c].out[1] /\ Newest(c) = Came(c)
      /\ Len(sent[c]) = Served(c) + 1 /\ Served(c) \in Nat
      /\ Came(c).name = sent[c][Served(c) + 1].name
      /\ c = client /\ sent[c][Served(c) + 1].outcome # "FINISHED"
      /\ cpc \in Dead \/ (cpc = "reply" /\ net[c].back = <<>>)
  BY RequestComes
<1>2. /\ client' = client /\ cpc' = cpc /\ file' = file /\ len' = len /\ sent' = sent
  BY DEF OtherEnd
<1>3. /\ QueueInv(c) /\ CountInv(c) /\ StoredInv(c) /\ ReplyInv(c)
  BY DEF ProtocolInv
<1>4. /\ DOMAIN net'[c] = {"target", "up", "out", "back"}
      /\ net'[c].out = <<>> /\ net'[c].back = Append(net[c].back, reply)
      /\ net'[c].up = IF net[c].up = "up" /\ server'[c].pc = "gone" THEN "left" ELSE net[c].up
  BY DEF Declines, Agrees, Answers
<1>5. PICK k : k = Served(c)
  OBVIOUS
<1>6. /\ ASeq(<<>>) /\ ASeq(net[c].back) /\ ASeq(handled[c]) /\ Len(handled[c]) = k
      /\ k \in Nat /\ DOMAIN sent[c] = 1..(k + 1) /\ ASeq(sent[c])
  <2>1. <<>> \in Seq({})
    OBVIOUS
  <2>2. ASeq(<<>>)
    BY <2>1 DEF ASeq
  <2>3. QED
    BY <1>1, <1>5, <2>2, LengthsAreNat DEF ShapeInv, ConnectionOK, Served
<1>7. /\ ASeq(net'[c].back) /\ Len(net'[c].back) = Len(net[c].back) + 1
      /\ net'[c].back # <<>> /\ net'[c].back[Len(net[c].back) + 1] = reply
  BY <1>4, <1>6, AppendFacts, SMTT(30)
<1>8. Coming(c)' = {} /\ ~Asks(c)' /\ ~Ends(c)'
  BY <1>4, SeqFacts, <1>6 DEF Coming, Asks, Ends
<1>9. ~Told(c, k + 1) /\ ~Told(c, k + 1)' /\ \A n : Told(c, n)' <=> Told(c, n)
  BY <1>1, <1>2, <1>5 DEF Told, Over, Dead
<1>10. /\ server'[c].pc = "gone" => net'[c].up # "up"
       /\ net'[c].up = "left" => server'[c].pc = "gone"
       /\ net'[c].up \in {"up", "closed", "cut", "left"}
       /\ net'[c].up = "cut" <=> net[c].up = "cut"
       /\ net'[c].up = "closed" <=> net[c].up = "closed"
  BY <1>3, <1>4 DEF ReplyInv, ShapeInv, ConnectionOK
<1>11. QueueInv(c)' /\ ReplyInv(c)'
  BY <1>8, <1>10 DEF QueueInv, ReplyInv
<1>12. cpc = "reply" => /\ net[c].up # "closed" /\ Request(c).outcome # "FINISHED"
                        /\ Len(net'[c].back) = 1 /\ net'[c].back[1] = reply
                        /\ Newest(c).size = file.size
  <2> SUFFICES ASSUME cpc = "reply"
               PROVE  /\ net[c].up # "closed" /\ Request(c).outcome # "FINISHED"
                      /\ Len(net'[c].back) = 1 /\ net'[c].back[1] = reply
                      /\ Newest(c).size = file.size
    OBVIOUS
  <2>1. WaitingInv(c)
    BY <1>1 DEF ProtocolInv, ClientInv
  <2>2. Len(net[c].back) = 0
    BY <1>1, <1>6, SeqFacts DEF Dead
  <2>3. QED
    BY <1>1, <1>7, <2>1, <2>2 DEF WaitingInv
<1>13. BetweenInv(c)' /\ SendingInv(c)'
  BY <1>1, <1>2 DEF BetweenInv, SendingInv, Between, Over, Dead
<1>14. CASE Declines(c, reply)
  <2>1. PICK h : h.name = Came(c).name /\ handled'[c] = Append(handled[c], h)
    BY <1>14 DEF Declines
  <2>2. /\ ASeq(handled'[c]) /\ Len(handled'[c]) = k + 1 /\ handled'[c][k + 1] = h
        /\ \A n \in 1..k : handled'[c][n] = handled[c][n]
    BY <1>6, <2>1, AppendFacts
  <2>3. /\ reply # "accept" /\ server'[c].pc \in {"run", "gone"} /\ server'[c].got \in Nat
        /\ DOMAIN server'[c] = {"pc", "name", "size", "got"}
    BY <1>14 DEF Declines
  <2>4. ConnectionOK(c)'
    BY <1>2, <1>4, <1>6, <1>7, <1>10, <2>2, <2>3 DEF ShapeInv, ConnectionOK
  <2>5. CountInv(c)'
    <3>1. \A n \in 1..(k + 1) : handled'[c][n].name = sent[c][n].name
      <4>1. \A n \in 1..k : handled[c][n].name = sent[c][n].name
        BY <1>3, <1>5 DEF CountInv
      <4>2. h.name = sent[c][k + 1].name
        BY <1>1, <1>5, <2>1
      <4>3. \A n \in 1..(k + 1) : n \in 1..k \/ n = k + 1
        BY <1>6
      <4>4. QED
        BY <2>2, <4>1, <4>2, <4>3
    <3>2. Served(c)' = k + 1 /\ Len(sent[c]) = k + 1
      BY <1>1, <1>5, <2>2 DEF Served
    <3>3. QED
      BY <1>2, <1>6, <1>8, <2>3, <3>1, <3>2 DEF CountInv
  <2>6. StoredInv(c)'
    <3>1. Served(c)' = k + 1
      BY <2>2 DEF Served
    <3>2. \A n \in 1..(k + 1) : Told(c, n)' => n \in 1..k /\ Told(c, n)
      BY <1>6, <1>9
    <3>3. QED
      BY <1>2, <1>3, <1>5, <1>6, <1>9, <1>10, <2>2, <2>3, <3>1, <3>2 DEF StoredInv
  <2>7. WaitingInv(c)'
    BY <1>2, <1>8, <1>10, <1>12, <1>7, <2>3 DEF WaitingInv, Request
  <2>8. QED
    BY <1>11, <1>13, <2>4, <2>5, <2>6, <2>7, OtherEndStays
<1>15. CASE Agrees(c) /\ reply = "accept"
  <2>1. /\ ~pathIsUnsafe(Came(c).name) /\ handled'[c] = handled[c]
        /\ server'[c] = [pc |-> "data", name |-> Came(c).name, size |-> Came(c).size, got |-> 0]
    BY <1>15 DEF Agrees
  <2>2. /\ server'[c].pc = "data" /\ server'[c].name = Came(c).name
        /\ server'[c].size = Came(c).size /\ server'[c].got = 0
        /\ DOMAIN server'[c] = {"pc", "name", "size", "got"}
    BY <2>1
  <2>3. ConnectionOK(c)'
    BY <1>2, <1>4, <1>6, <1>7, <1>10, <2>1, <2>2 DEF ShapeInv, ConnectionOK
  <2>4. Served(c)' = k /\ Len(sent[c]) = k + 1
    BY <1>1, <1>5, <2>1 DEF Served
  <2>5. CountInv(c)'
    BY <1>1, <1>2, <1>3, <1>5, <1>6, <1>8, <2>1, <2>2, <2>4 DEF CountInv
  <2>6. StoredInv(c)'
    BY <1>2, <1>3, <1>5, <1>9, <1>10, <2>1, <2>4 DEF StoredInv
  <2>7. WaitingInv(c)'
    <3>1. cpc = "reply" => Request(c) = sent[c][k + 1] /\ ~pathIsUnsafe(Request(c).name)
      BY <1>1, <1>5, <2>1, <2>4 DEF Request
    <3>2. cpc = "reply" => Receives(c)'
      BY <1>1, <1>2, <1>8, <1>12, <2>2, <2>4 DEF Receives
    <3>3. QED
      BY <1>2, <1>4, <1>7, <1>8, <1>10, <1>12, <2>2, <3>1, <3>2 DEF WaitingInv, Request
  <2>8. QED
    BY <1>11, <1>13, <2>3, <2>5, <2>6, <2>7, OtherEndStays
<1>16. QED
  BY <1>14, <1>15

\* The name is rejected and the server waits for another.
LEMMA RejectStep ==
    ASSUME ShapeInv, ProtocolInv, NEW c \in DOMAIN net, Reject(c)
    PROVE  ShapeInv' /\ ProtocolInv'
<1>1. /\ server[c].pc = "run" /\ Takes(c) /\ OtherEnd /\ server' = server /\ Refused(c)
  BY DEF Reject, OtherEnd, line, disk
<1>2. PICK reply \in {"reject", "garbage"} : Replies(c, reply)
  BY DEF Reject
<1> DEFINE e == [net[c] EXCEPT !.out = Tail(@), !.back = Append(@, reply)]
           h == [name |-> Came(c).name, outcome |-> "ERROR"]
<1>3. /\ net' = [net EXCEPT ![c] = e]
      /\ handled' = [handled EXCEPT ![c] = Append(handled[c], h)]
  BY <1>1, <1>2 DEF Replies, Refused
<1>4. /\ DOMAIN net[c] = {"target", "up", "out", "back"}
      /\ DOMAIN server[c] = {"pc", "name", "size", "got"} /\ server[c].got \in Nat
  BY DEF ShapeInv, ConnectionOK
<1>5. /\ DOMAIN e = DOMAIN net[c] /\ e.up = net[c].up
      /\ e.out = Tail(net[c].out) /\ e.back = Append(net[c].back, reply)
  BY <1>4
<1>6. h.name = Came(c).name
  OBVIOUS
<1> HIDE DEF e, h
<1>7. OnlyAt(c) /\ net'[c] = e /\ handled'[c] = Append(handled[c], h)
  <2>1. PutAt(net, net', c) /\ net'[c] = e
    BY <1>3, ChangeAt
  <2>2. PutAt(handled, handled', c) /\ handled'[c] = Append(handled[c], h)
    BY <1>3, ChangeAt
  <2>3. PutAt(server, server', c) /\ PutAt(sent, sent', c)
    BY <1>1, ChangeAt DEF OtherEnd
  <2>4. QED
    BY <2>1, <2>2, <2>3 DEF OnlyAt
<1>8. Tail(net[c].out) = <<>>
  BY <1>1, RequestComes
<1>9. Answers(c, reply)
  BY <1>1, <1>4, <1>5, <1>7, <1>8 DEF Answers
<1>10. Declines(c, reply)
  BY <1>1, <1>2, <1>4, <1>6, <1>7, <1>9 DEF Declines
<1>11. QED
  BY <1>1, <1>7, <1>10, AnswerStep

\* The file is accepted and its data may come.
LEMMA AcceptStep ==
    ASSUME ShapeInv, ProtocolInv, NEW c \in DOMAIN net, Accept(c)
    PROVE  ShapeInv' /\ ProtocolInv'
<1> DEFINE e == [net[c] EXCEPT !.out = Tail(@), !.back = Append(@, "accept")]
           v == [pc |-> "data", name |-> Came(c).name, size |-> Came(c).size, got |-> 0]
<1>1. /\ server[c].pc = "run" /\ Takes(c) /\ OtherEnd /\ ~pathIsUnsafe(Came(c).name)
      /\ net' = [net EXCEPT ![c] = e] /\ server' = [server EXCEPT ![c] = v]
      /\ handled' = handled
  BY DEF Accept, Replies, OtherEnd, line, disk
<1>2. DOMAIN net[c] = {"target", "up", "out", "back"}
  BY DEF ShapeInv, ConnectionOK
<1>3. /\ DOMAIN e = DOMAIN net[c] /\ e.up = net[c].up
      /\ e.out = Tail(net[c].out) /\ e.back = Append(net[c].back, "accept")
  BY <1>2
<1>4. v.pc = "data"
  OBVIOUS
<1> HIDE DEF e, v
<1>5. OnlyAt(c) /\ net'[c] = e /\ server'[c] = v
  <2>1. PutAt(net, net', c) /\ net'[c] = e
    BY <1>1, ChangeAt
  <2>2. PutAt(server, server', c) /\ server'[c] = v
    BY <1>1, ChangeAt
  <2>3. PutAt(handled, handled', c) /\ PutAt(sent, sent', c)
    BY <1>1, ChangeAt DEF OtherEnd
  <2>4. QED
    BY <2>1, <2>2, <2>3 DEF OnlyAt
<1>6. Tail(net[c].out) = <<>>
  BY <1>1, RequestComes
<1>7. Answers(c, "accept")
  BY <1>2, <1>3, <1>4, <1>5, <1>6 DEF Answers
<1>8. Agrees(c)
  BY <1>1, <1>5, <1>7 DEF Agrees, v
<1>9. QED
  BY <1>1, <1>5, <1>8, AnswerStep

\* A message that does not fit is an error, and the server is gone.
LEMMA RefuseStep ==
    ASSUME ShapeInv, ProtocolInv, NEW c \in DOMAIN net, Refuse(c)
    PROVE  ShapeInv' /\ ProtocolInv'
<1> DEFINE e == [net[c] EXCEPT !.up = IF @ = "up" THEN "left" ELSE @, !.out = <<>>,
                               !.back = Append(@, "garbage")]
           h == [name |-> Came(c).name, outcome |-> "ERROR"]
           v == [server[c] EXCEPT !.pc = "gone"]
<1>1. /\ server[c].pc = "run" /\ Takes(c) /\ OtherEnd
      /\ net' = [net EXCEPT ![c] = e] /\ server' = [server EXCEPT ![c] = v]
      /\ handled' = [handled EXCEPT ![c] = Append(handled[c], h)]
  BY DEF Refuse, Refused, OtherEnd, line, disk
<1>2. /\ DOMAIN net[c] = {"target", "up", "out", "back"}
      /\ DOMAIN server[c] = {"pc", "name", "size", "got"} /\ server[c].got \in Nat
  BY DEF ShapeInv, ConnectionOK
<1>3. /\ DOMAIN e = DOMAIN net[c] /\ e.up = IF net[c].up = "up" THEN "left" ELSE net[c].up
      /\ e.out = <<>> /\ e.back = Append(net[c].back, "garbage")
  BY <1>2
<1>4. v.pc = "gone" /\ DOMAIN v = {"pc", "name", "size", "got"} /\ v.got \in Nat
  BY <1>2
<1>5. h.name = Came(c).name
  OBVIOUS
<1> HIDE DEF e, h, v
<1>6. OnlyAt(c) /\ net'[c] = e /\ server'[c] = v /\ handled'[c] = Append(handled[c], h)
  <2>1. PutAt(net, net', c) /\ net'[c] = e
    BY <1>1, ChangeAt
  <2>2. PutAt(server, server', c) /\ server'[c] = v
    BY <1>1, ChangeAt
  <2>3. PutAt(handled, handled', c) /\ handled'[c] = Append(handled[c], h)
    BY <1>1, ChangeAt
  <2>4. PutAt(sent, sent', c)
    BY <1>1, ChangeAt DEF OtherEnd
  <2>5. QED
    BY <2>1, <2>2, <2>3, <2>4 DEF OnlyAt
<1>7. Answers(c, "garbage")
  BY <1>2, <1>3, <1>4, <1>6 DEF Answers
<1>8. Declines(c, "garbage")
  BY <1>4, <1>5, <1>6, <1>7 DEF Declines
<1>9. QED
  BY <1>1, <1>6, <1>8, AnswerStep

\* The first message is taken.
LEMMA TailOfQueue ==
    ASSUME ShapeInv, NEW c \in DOMAIN net, Takes(c), c \in DOMAIN net',
           net'[c].out = Tail(net[c].out)
    PROVE  /\ ASeq(net'[c].out) /\ Len(net'[c].out) = Len(net[c].out) - 1
           /\ Len(net[c].out) \in Nat /\ Len(net[c].out) >= 1
           /\ 1 \in Coming(c) /\ Came(c) = net[c].out[1]
           /\ \A j \in Coming(c)' : j + 1 \in Coming(c) /\ net'[c].out[j] = net[c].out[j + 1]
           /\ net'[c].out = <<>> <=> Len(net[c].out) = 1
           /\ Len(net[c].out) > 1 => Newest(c)' = Newest(c)
           /\ Len(net[c].out) = 1 => Newest(c) = Came(c)
           /\ Asks(c)' <=> Asks(c) /\ Len(net[c].out) > 1
           /\ Ends(c)' => Ends(c)
           /\ Came(c).type # "finished" => (Ends(c)' <=> Ends(c))
<1>0. PICK q : q = net[c].out
  OBVIOUS
<1>1. ASeq(q) /\ q # <<>> /\ Len(q) \in Nat
  BY <1>0, SeqFacts DEF Takes, ShapeInv, ConnectionOK
<1>2. /\ ASeq(Tail(q)) /\ Len(Tail(q)) = Len(q) - 1 /\ Len(q) >= 1 /\ Head(q) = q[1]
      /\ \A j \in 1..(Len(q) - 1) : Tail(q)[j] = q[j + 1]
  BY <1>1, TailFacts
<1>3. PICK t : t = Tail(q)
  OBVIOUS
<1>4. /\ ASeq(t) /\ Len(t) = Len(q) - 1 /\ \A j \in 1..Len(t) : t[j] = q[j + 1]
      /\ (t = <<>> <=> Len(q) = 1) /\ net'[c].out = t /\ Len(t) \in Nat
  <2>1. /\ ASeq(t) /\ Len(t) = Len(q) - 1 /\ \A j \in 1..(Len(q) - 1) : t[j] = q[j + 1]
        /\ net'[c].out = t
    BY <1>0, <1>2, <1>3
  <2>2. Len(t) \in Nat /\ (t = <<>> <=> Len(t) = 0)
    BY <2>1, SeqFacts
  <2>3. Len(t) = 0 <=> Len(q) = 1
    BY <1>1, <2>1
  <2>4. QED
    BY <2>1, <2>2, <2>3
<1>5. Came(c) = q[1]
  BY <1>0, <1>2 DEF Came
<1>6. Coming(c) = 1..Len(q) /\ Coming(c)' = 1..Len(t)
  BY <1>0, <1>4 DEF Coming
<1>7. /\ 1 \in Coming(c)
      /\ \A j \in Coming(c)' : j + 1 \in Coming(c) /\ net'[c].out[j] = net[c].out[j + 1]
  BY <1>0, <1>1, <1>2, <1>4, <1>6
<1>8. /\ Len(q) > 1 => Newest(c)' = Newest(c)
      /\ Len(q) = 1 => Newest(c) = Came(c)
  <2>1. Newest(c) = q[Len(q)] /\ Newest(c)' = t[Len(t)]
    BY <1>0, <1>4 DEF Newest
  <2>2. Len(q) > 1 => Len(t) \in 1..Len(t) /\ Len(t) + 1 = Len(q)
    BY <1>1, <1>4
  <2>3. QED
    BY <1>4, <1>5, <2>1, <2>2
<1>9. Asks(c)' <=> Asks(c) /\ Len(q) > 1
  <2>1. Asks(c)' <=> t # <<>> /\ Newest(c)'.type = "request"
    BY <1>4 DEF Asks
  <2>2. Asks(c) <=> Newest(c).type = "request"
    BY <1>0, <1>1 DEF Asks
  <2>3. CASE Len(q) = 1
    BY <1>4, <2>1, <2>3
  <2>4. CASE Len(q) > 1
    <3>1. t # <<>> /\ Newest(c)' = Newest(c)
      BY <1>1, <1>4, <1>8, <2>4
    <3>2. QED
      BY <2>1, <2>2, <2>4, <3>1
  <2>5. Len(q) = 1 \/ Len(q) > 1
    BY <1>1, <1>2
  <2>6. QED
    BY <2>3, <2>4, <2>5
<1>10. Ends(c)' => Ends(c)
  BY <1>7 DEF Ends
<1>11. ASSUME Came(c).type # "finished", Ends(c) PROVE Ends(c)'
  <2>1. PICK j \in Coming(c) : net[c].out[j].type = "finished"
    BY <1>11 DEF Ends
  <2>2. j # 1
    BY <1>0, <1>5, <1>11, <2>1
  <2>3. j - 1 \in 1..Len(t) /\ (j - 1) + 1 = j
    BY <1>1, <1>4, <1>6, <2>2
  <2>4. net'[c].out[j - 1].type = "finished"
    BY <1>0, <1>4, <2>1, <2>3
  <2>5. QED
    BY <1>6, <2>3, <2>4 DEF Ends
<1>12. QED
  BY <1>0, <1>1, <1>2, <1>4, <1>5, <1>7, <1>8, <1>9, <1>10, <1>11

\* The fragment that comes continues what the server has.
LEMMA ReceiveDataStep ==
    ASSUME ShapeInv, ProtocolInv, NEW c \in DOMAIN net, ReceiveData(c)
    PROVE  ShapeInv' /\ ProtocolInv'
<1> DEFINE e == [net[c] EXCEPT !.out = Tail(@)]
           v == [server[c] EXCEPT !.got = @ + Came(c).bytes]
<1>1. /\ server[c].pc = "data" /\ Takes(c) /\ OtherEnd /\ Came(c).type = "data"
      /\ net' = [net EXCEPT ![c] = e] /\ server' = [server EXCEPT ![c] = v]
      /\ handled' = handled /\ sent' = sent
  BY DEF ReceiveData, OtherEnd, line, disk
<1>2. /\ DOMAIN net[c] = {"target", "up", "out", "back"}
      /\ DOMAIN server[c] = {"pc", "name", "size", "got"} /\ server[c].got \in Nat
  BY DEF ShapeInv, ConnectionOK
<1>3. DOMAIN e = DOMAIN net[c] /\ e.up = net[c].up /\ e.out = Tail(net[c].out) /\ e.back = net[c].back
  BY <1>2
<1>4. /\ DOMAIN v = DOMAIN server[c] /\ v.pc = server[c].pc /\ v.name = server[c].name
      /\ v.size = server[c].size /\ v.got = server[c].got + Came(c).bytes
  BY <1>2
<1> HIDE DEF e, v
<1>5. OnlyAt(c) /\ net'[c] = e /\ server'[c] = v
  <2>1. PutAt(net, net', c) /\ net'[c] = e
    BY <1>1, ChangeAt
  <2>2. PutAt(server, server', c) /\ server'[c] = v
    BY <1>1, ChangeAt
  <2>3. PutAt(handled, handled', c) /\ PutAt(sent, sent', c)
    BY <1>1, ChangeAt
  <2>4. QED
    BY <2>1, <2>2, <2>3 DEF OnlyAt
<1>6. DOMAIN net' = DOMAIN net
  BY <1>5, OnlyAtFacts
<1>7. QueueInv(c) /\ CountInv(c) /\ StoredInv(c) /\ ReplyInv(c)
  BY DEF ProtocolInv
<1>8. PICK L : L = Len(net[c].out)
  OBVIOUS
<1>9. /\ ASeq(net'[c].out) /\ Len(net'[c].out) = L - 1 /\ L \in Nat /\ L >= 1
      /\ 1 \in Coming(c) /\ Came(c) = net[c].out[1]
      /\ \A j \in Coming(c)' : j + 1 \in Coming(c) /\ net'[c].out[j] = net[c].out[j + 1]
      /\ net'[c].out = <<>> <=> L = 1
      /\ L > 1 => Newest(c)' = Newest(c)
      /\ L = 1 => Newest(c) = Came(c)
      /\ Asks(c)' <=> Asks(c) /\ L > 1
      /\ Ends(c)' <=> Ends(c)
  BY <1>1, <1>3, <1>5, <1>6, <1>8, TailOfQueue
<1>10. Came(c).bytes \in Nat /\ Came(c).position = server[c].got
  <2>1. MessageOK(c, 1)
    BY <1>1, <1>7, <1>9 DEF QueueInv
  <2>2. DataOK(c, 1)
    BY <1>1, <1>9, <2>1 DEF MessageOK
  <2>3. QED
    BY <1>9, <2>2 DEF DataOK, Before
<1>11. v.got \in Nat /\ v.got = Came(c).position + Came(c).bytes
  BY <1>2, <1>4, <1>10
<1>12. Asks(c) => L > 1
  <2>1. L = 1 => ~Asks(c)
    BY <1>1, <1>9 DEF Asks
  <2>2. QED
    BY <1>9, <2>1
<1>13. ConnectionOK(c)'
  BY <1>1, <1>2, <1>3, <1>4, <1>5, <1>9, <1>11 DEF ShapeInv, ConnectionOK
<1>14. QueueInv(c)'
  <2> SUFFICES ASSUME NEW j \in Coming(c)'
               PROVE  \/ net'[c].out[j].type = "request" /\ RequestOK(c, j)'
                      \/ net'[c].out[j].type = "data" /\ DataOK(c, j)'
                      \/ net'[c].out[j].type = "finished" /\ FinishedOK(c, j)'
    BY DEF QueueInv, MessageOK
  <2>1. /\ j \in Nat /\ j >= 1 /\ j <= L - 1 /\ j + 1 > 1 /\ (j + 1) - 1 = j
        /\ j + 1 \in Coming(c) /\ net'[c].out[j] = net[c].out[j + 1]
    BY <1>9 DEF Coming
  <2>2. j > 1 => net'[c].out[j - 1] = net[c].out[j]
    <3> SUFFICES ASSUME j > 1 PROVE net'[c].out[j - 1] = net[c].out[j]
      OBVIOUS
    <3>1. j - 1 \in Coming(c)' /\ (j - 1) + 1 = j
      BY <1>9, <2>1 DEF Coming
    <3>2. QED
      BY <1>9, <3>1
  <2>3. Before(c, j)' = Before(c, j + 1)
    <3>1. CASE j = 1
      BY <1>5, <1>9, <1>11, <2>1, <3>1 DEF Before
    <3>2. CASE j > 1
      BY <2>1, <2>2, <3>2 DEF Before
    <3>3. QED
      BY <2>1, <3>1, <3>2
  <2>4. MessageOK(c, j + 1)
    BY <1>1, <1>7, <2>1 DEF QueueInv
  <2>5. CASE net[c].out[j + 1].type = "request" /\ RequestOK(c, j + 1)
    <3>1. j + 1 = L /\ net[c].out[j].type = "finished" /\ net[c].out[j + 1].name = sent[c][Len(sent[c])].name
      BY <1>1, <1>8, <2>1, <2>5 DEF RequestOK
    <3>2. j # 1
      BY <1>1, <1>9, <3>1
    <3>3. j > 1 /\ net'[c].out[j - 1].type = "finished" /\ j = L - 1
      BY <1>9, <2>1, <2>2, <3>1, <3>2
    <3>4. RequestOK(c, j)'
      BY <1>1, <1>4, <1>5, <1>9, <2>1, <3>1, <3>3 DEF RequestOK
    <3>5. QED
      BY <2>1, <2>5, <3>4
  <2>6. CASE net[c].out[j + 1].type = "data" /\ DataOK(c, j + 1)
    <3>1. DataOK(c, j)'
      BY <1>1, <1>4, <1>5, <2>1, <2>2, <2>3, <2>6 DEF DataOK
    <3>2. QED
      BY <2>1, <2>6, <3>1
  <2>7. CASE net[c].out[j + 1].type = "finished" /\ FinishedOK(c, j + 1)
    <3>1. FinishedOK(c, j)'
      BY <1>1, <1>4, <1>5, <2>1, <2>2, <2>3, <2>7 DEF FinishedOK, Served
    <3>2. QED
      BY <2>1, <2>7, <3>1
  <2>8. QED
    BY <2>4, <2>5, <2>6, <2>7 DEF MessageOK
<1>15. CountInv(c)'
  BY <1>1, <1>4, <1>5, <1>7, <1>9 DEF CountInv, Served
<1>16. StoredInv(c)'
  <2>1. \A n : Told(c, n)' <=> Told(c, n)
    BY <1>1 DEF Told, OtherEnd
  <2>2. QED
    BY <1>1, <1>3, <1>4, <1>5, <1>7, <1>9, <2>1 DEF StoredInv, Served
<1>17. ReplyInv(c)'
  BY <1>1, <1>3, <1>4, <1>5, <1>7, <1>9 DEF ReplyInv, OtherEnd
<1>18. ASSUME c = client PROVE BetweenInv(c)' /\ WaitingInv(c)' /\ SendingInv(c)'
  <2>1. BetweenInv(c) /\ WaitingInv(c) /\ SendingInv(c)
    BY <1>18 DEF ProtocolInv, ClientInv
  <2>2. BetweenInv(c)'
    BY <1>1, <1>3, <1>4, <1>5, <1>9, <2>1 DEF BetweenInv, AtRest, Served, OtherEnd
  <2>3. WaitingInv(c)'
    <3>1. Asks(c)' <=> Asks(c)
      BY <1>9, <1>12
    <3>2. Asks(c) => Newest(c)' = Newest(c)
      BY <1>9, <1>12
    <3>3. net[c].out # <<>>
      BY <1>1 DEF Takes
    <3>4. QED
      BY <1>1, <1>3, <1>4, <1>5, <2>1, <3>1, <3>2, <3>3 DEF WaitingInv, Request, OtherEnd
  <2>4. SendingInv(c)'
    <3>1. Receives(c)' <=> Receives(c) /\ server[c].pc = "data"
      BY <1>1, <1>4, <1>5, <1>9, <1>12 DEF Receives, Served, OtherEnd
    <3>2. net[c].out # <<>>
      BY <1>1 DEF Takes
    <3>3. (IF net'[c].out = <<>> THEN server'[c].got ELSE Newest(c)'.position + Newest(c)'.bytes)
              = Newest(c).position + Newest(c).bytes
      <4>1. CASE L = 1
        BY <1>5, <1>9, <1>11, <4>1
      <4>2. CASE L > 1
        BY <1>9, <4>2
      <4>3. QED
        BY <1>9, <4>1, <4>2
    <3>4. QED
      BY <1>1, <1>3, <1>4, <1>5, <2>1, <3>1, <3>2, <3>3 DEF SendingInv, Request, OtherEnd
  <2>5. QED
    BY <2>2, <2>3, <2>4
<1>19. QED
  BY <1>1, <1>5, <1>13, <1>14, <1>15, <1>16, <1>17, <1>18, OtherEndStays

\* What ends a file is followed by the next request at most.
LEMMA EndComes ==
    ASSUME ShapeInv, ProtocolInv, NEW c \in DOMAIN net, server[c].pc = "data", Takes(c),
           Came(c) = net[c].out[1], Came(c).type = "finished"
    PROVE  IF Asks(c) THEN Len(net[c].out) = 2 ELSE Len(net[c].out) = 1
<1>1. QueueInv(c)
  BY DEF ProtocolInv
<1>2. PICK L : L = Len(net[c].out)
  OBVIOUS
<1>3. L \in Nat /\ L >= 1 /\ net[c].out # <<>>
  BY <1>2, LengthsAreNat DEF Takes
<1>4. CASE L = 1
  BY <1>2, <1>4 DEF Asks, Newest
<1>5. CASE L > 1
  <2>1. 2 \in Coming(c) /\ 2 > 1 /\ 2 - 1 = 1
    BY <1>2, <1>3, <1>5 DEF Coming
  <2>2. MessageOK(c, 2)
    BY <1>1, <2>1 DEF QueueInv
  <2>3. net[c].out[2].type = "request" /\ RequestOK(c, 2)
    BY <2>1, <2>2 DEF MessageOK, DataOK, FinishedOK
  <2>4. L = 2
    BY <1>2, <2>3 DEF RequestOK
  <2>5. QED
    BY <1>2, <1>3, <2>3, <2>4 DEF Asks, Newest
<1>6. QED
  BY <1>3, <1>4, <1>5

\* What the server has by then is what was announced, unless the file changed.
LEMMA ReceiveFinishedStep ==
    ASSUME ShapeInv, ProtocolInv, NEW c \in DOMAIN net, ReceiveFinished(c)
    PROVE  ShapeInv' /\ ProtocolInv'
<1> DEFINE e == [net[c] EXCEPT !.out = Tail(@)]
           v == [server[c] EXCEPT !.pc = "run"]
           h == [name |-> server[c].name, outcome |-> Complete(c)]
<1>1. /\ server[c].pc = "data" /\ Takes(c) /\ OtherEnd /\ Came(c).type = "finished"
      /\ net' = [net EXCEPT ![c] = e] /\ server' = [server EXCEPT ![c] = v]
      /\ handled' = [handled EXCEPT ![c] = Append(handled[c], h)] /\ sent' = sent
  BY DEF ReceiveFinished, Got, OtherEnd, line, disk
<1>2. /\ DOMAIN net[c] = {"target", "up", "out", "back"}
      /\ DOMAIN server[c] = {"pc", "name", "size", "got"} /\ server[c].got \in Nat
      /\ ASeq(handled[c])
  BY DEF ShapeInv, ConnectionOK
<1>3. DOMAIN e = DOMAIN net[c] /\ e.up = net[c].up /\ e.out = Tail(net[c].out) /\ e.back = net[c].back
  BY <1>2
<1>4. DOMAIN v = DOMAIN server[c] /\ v.pc = "run" /\ v.got = server[c].got
  BY <1>2
<1>5. h.name = server[c].name /\ h.outcome = Complete(c)
  OBVIOUS
<1> HIDE DEF e, v, h
<1>6. OnlyAt(c) /\ net'[c] = e /\ server'[c] = v /\ handled'[c] = Append(handled[c], h)
  <2>1. PutAt(net, net', c) /\ net'[c] = e
    BY <1>1, ChangeAt
  <2>2. PutAt(server, server', c) /\ server'[c] = v
    BY <1>1, ChangeAt
  <2>3. PutAt(handled, handled', c) /\ handled'[c] = Append(handled[c], h)
    BY <1>1, ChangeAt
  <2>4. PutAt(sent, sent', c)
    BY <1>1, ChangeAt
  <2>5. QED
    BY <2>1, <2>2, <2>3, <2>4 DEF OnlyAt
<1>7. DOMAIN net' = DOMAIN net
  BY <1>6, OnlyAtFacts
<1>8. QueueInv(c) /\ CountInv(c) /\ StoredInv(c) /\ ReplyInv(c)
  BY DEF ProtocolInv
<1>9. PICK L, k : L = Len(net[c].out) /\ k = Served(c)
  OBVIOUS
<1>10. /\ ASeq(net'[c].out) /\ Len(net'[c].out) = L - 1 /\ L \in Nat /\ L >= 1
       /\ 1 \in Coming(c) /\ Came(c) = net[c].out[1]
       /\ \A j \in Coming(c)' : j + 1 \in Coming(c) /\ net'[c].out[j] = net[c].out[j + 1]
       /\ net'[c].out = <<>> <=> L = 1
       /\ L > 1 => Newest(c)' = Newest(c)
       /\ Asks(c)' <=> Asks(c) /\ L > 1
  BY <1>1, <1>3, <1>6, <1>7, <1>9, TailOfQueue
<1>11. IF Asks(c) THEN L = 2 ELSE L = 1
  BY <1>1, <1>9, <1>10, EndComes
<1>12. Ends(c)
  BY <1>1, <1>10 DEF Ends
<1>13. Asks(c)' <=> Asks(c)
  BY <1>10, <1>11
<1>14. Asks(c) => net'[c].out # <<>> /\ Newest(c)' = Newest(c)
  BY <1>10, <1>11
<1>15. /\ k \in Nat /\ k < Len(sent[c]) /\ server[c].name = sent[c][k + 1].name
       /\ Asks(c) => Len(sent[c]) = k + 2
       /\ Len(sent[c]) \in Nat /\ DOMAIN sent[c] = 1..Len(sent[c])
  BY <1>1, <1>8, <1>9, LengthsAreNat DEF CountInv, Served
<1>16. ~sent[c][k + 1].changed => h.outcome = "FINISHED"
  <2>1. MessageOK(c, 1)
    BY <1>1, <1>8, <1>10 DEF QueueInv
  <2>2. FinishedOK(c, 1)
    BY <1>1, <1>10, <2>1 DEF MessageOK
  <2>3. QED
    BY <1>5, <1>9, <2>2 DEF FinishedOK, Before, Complete
<1>17. /\ ASeq(handled'[c]) /\ Len(handled'[c]) = k + 1 /\ handled'[c][k + 1] = h
       /\ \A n \in 1..k : handled'[c][n] = handled[c][n]
       /\ \A n \in 1..(k + 1) : n \in 1..k \/ n = k + 1
  <2>1. /\ ASeq(Append(handled[c], h)) /\ Len(Append(handled[c], h)) = Len(handled[c]) + 1
        /\ Append(handled[c], h)[Len(handled[c]) + 1] = h
        /\ \A n \in 1..Len(handled[c]) : Append(handled[c], h)[n] = handled[c][n]
    BY <1>2, AppendFacts
  <2>2. k = Len(handled[c])
    BY <1>9 DEF Served
  <2>3. \A n \in 1..(k + 1) : n \in 1..k \/ n = k + 1
    BY <1>15
  <2>4. QED
    BY <1>6, <2>1, <2>2, <2>3
<1>18. ConnectionOK(c)'
  BY <1>1, <1>2, <1>3, <1>4, <1>6, <1>10, <1>17 DEF ShapeInv, ConnectionOK
<1>19. QueueInv(c)'
  <2> SUFFICES ASSUME NEW j \in Coming(c)' PROVE MessageOK(c, j)'
    BY DEF QueueInv
  <2>1. L = 2 /\ Asks(c) /\ j = 1
    BY <1>10, <1>11 DEF Coming
  <2>2. 2 \in Coming(c) /\ net'[c].out[1] = net[c].out[2]
    BY <1>10, <2>1 DEF Coming
  <2>3. MessageOK(c, 2)
    BY <1>1, <1>8, <2>2 DEF QueueInv
  <2>4. net[c].out[2].type = "request"
    BY <1>9, <2>1 DEF Asks, Newest
  <2>5. net[c].out[2].name = sent[c][Len(sent[c])].name
    BY <2>3, <2>4 DEF MessageOK, RequestOK
  <2>6. RequestOK(c, 1)'
    BY <1>1, <1>4, <1>6, <1>10, <2>1, <2>2, <2>5 DEF RequestOK
  <2>7. QED
    BY <2>1, <2>2, <2>4, <2>6 DEF MessageOK
<1>20. CountInv(c)'
  <2>1. Served(c)' = k + 1 /\ k + 1 <= Len(sent[c])
    BY <1>15, <1>17 DEF Served
  <2>2. \A n \in 1..(k + 1) : handled'[c][n].name = sent[c][n].name
    BY <1>5, <1>8, <1>9, <1>15, <1>17 DEF CountInv
  <2>3. Asks(c)' => Len(sent[c]) = (k + 1) + 1
    BY <1>13, <1>15
  <2>4. QED
    BY <1>1, <1>4, <1>6, <2>1, <2>2, <2>3 DEF CountInv
<1>21. StoredInv(c)'
  <2>1. \A n : Told(c, n)' <=> Told(c, n)
    BY <1>1 DEF Told, OtherEnd
  <2>2. Served(c)' = k + 1
    BY <1>17 DEF Served
  <2>3. net[c].up # "cut" => \A n \in 1..(k + 1) :
            Told(c, n) /\ ~sent[c][n].changed => handled'[c][n].outcome = "FINISHED"
    BY <1>8, <1>9, <1>16, <1>17 DEF StoredInv
  <2>4. QED
    BY <1>1, <1>3, <1>4, <1>6, <1>8, <2>1, <2>2, <2>3 DEF StoredInv
<1>22. ReplyInv(c)'
  BY <1>1, <1>3, <1>4, <1>6, <1>8, <1>13 DEF ReplyInv, OtherEnd
<1>23. ASSUME c = client PROVE BetweenInv(c)' /\ WaitingInv(c)' /\ SendingInv(c)'
  <2>1. BetweenInv(c) /\ WaitingInv(c) /\ SendingInv(c)
    BY <1>23 DEF ProtocolInv, ClientInv
  <2>2. BetweenInv(c)'
    <3>1. cpc \in Between \cup Over => ~Asks(c)
      BY <1>1, <1>8 DEF ReplyInv, Between, Over, Dead
    <3>2. cpc \in Between \cup Over /\ net[c].up = "up" => Len(sent[c]) = k + 1
      BY <1>1, <1>9, <2>1 DEF BetweenInv, AtRest
    <3>3. Served(c)' = k + 1
      BY <1>17 DEF Served
    <3>4. ~Asks(c) => net'[c].out = <<>>
      BY <1>10, <1>11
    <3>5. cpc \in Between \cup Over /\ net[c].up = "up" => AtRest(c)'
      BY <1>1, <1>4, <1>6, <3>1, <3>2, <3>3, <3>4 DEF AtRest
    <3>6. QED
      BY <1>1, <1>3, <1>6, <2>1, <3>5 DEF BetweenInv, OtherEnd
  <2>3. WaitingInv(c)'
    <3>1. net[c].out # <<>>
      BY <1>1 DEF Takes
    <3>2. QED
      BY <1>1, <1>3, <1>4, <1>6, <1>13, <1>14, <2>1, <3>1 DEF WaitingInv, Request, OtherEnd
  <2>4. SendingInv(c)'
    <3>1. cpc \in {"data", "finished"} => net[c].up = "cut"
      BY <1>12, <2>1 DEF SendingInv, Receives
    <3>2. QED
      BY <1>1, <1>3, <1>6, <2>1, <3>1 DEF SendingInv, Request, OtherEnd
  <2>5. QED
    BY <2>2, <2>3, <2>4
<1>24. QED
  BY <1>1, <1>6, <1>18, <1>19, <1>20, <1>21, <1>22, <1>23, OtherEndStays

\* The connection is over: a file that was not ended is complete or not.
LEMMA DisconnectedStep ==
    ASSUME ShapeInv, ProtocolInv, NEW c \in DOMAIN net, Disconnected(c)
    PROVE  ShapeInv' /\ ProtocolInv'
<1> DEFINE v == [server[c] EXCEPT !.pc = "gone"]
           h == [name |-> server[c].name, outcome |-> Complete(c)]
<1>1. /\ server[c].pc # "gone" /\ ~Takes(c) /\ net[c].up \in {"closed", "cut"} /\ OtherEnd
      /\ net' = net /\ server' = [server EXCEPT ![c] = v] /\ sent' = sent
      /\ IF server[c].pc = "data"
         THEN handled' = [handled EXCEPT ![c] = Append(handled[c], h)] ELSE handled' = handled
  BY DEF Disconnected, Got, OtherEnd, line, disk
<1>2. /\ DOMAIN server[c] = {"pc", "name", "size", "got"} /\ server[c].got \in Nat
      /\ server[c].pc \in {"run", "data"} /\ ASeq(handled[c])
  BY <1>1 DEF ShapeInv, ConnectionOK
<1>3. DOMAIN v = DOMAIN server[c] /\ v.pc = "gone" /\ v.got = server[c].got
  BY <1>2
<1>4. h.name = server[c].name
  OBVIOUS
<1> HIDE DEF v, h
<1>5. OnlyAt(c) /\ server'[c] = v
      /\ handled'[c] = IF server[c].pc = "data" THEN Append(handled[c], h) ELSE handled[c]
  <2>1. PutAt(net, net', c) /\ PutAt(sent, sent', c)
    BY <1>1, ChangeAt
  <2>2. PutAt(server, server', c) /\ server'[c] = v
    BY <1>1, ChangeAt
  <2>3. CASE server[c].pc = "data"
    <3>1. handled' = [handled EXCEPT ![c] = Append(handled[c], h)]
      BY <1>1, <2>3
    <3>2. PutAt(handled, handled', c) /\ handled'[c] = Append(handled[c], h)
      BY <3>1, ChangeAt
    <3>3. QED
      BY <2>1, <2>2, <2>3, <3>2 DEF OnlyAt
  <2>4. CASE server[c].pc # "data"
    <3>1. PutAt(handled, handled', c) /\ handled'[c] = handled[c]
      BY <1>1, <2>4, ChangeAt
    <3>2. QED
      BY <2>1, <2>2, <2>4, <3>1 DEF OnlyAt
  <2>5. QED
    BY <2>3, <2>4
<1>6. QueueInv(c) /\ CountInv(c) /\ StoredInv(c) /\ ReplyInv(c)
  BY DEF ProtocolInv
<1>7. PICK k : k = Served(c)
  OBVIOUS
<1>8. net[c].out = <<>> /\ Coming(c) = {} /\ ~Ends(c)
  <2>1. Len(net[c].out) = 0
    BY <1>1, LengthsAreNat DEF Takes
  <2>2. QED
    BY <1>1, <2>1 DEF Takes, Ends, Coming
<1>9. /\ k \in Nat /\ k = Len(handled[c]) /\ k <= Len(sent[c]) /\ Len(sent[c]) \in Nat
      /\ \A n \in 1..(k + 1) : n \in 1..k \/ n = k + 1
  BY <1>6, <1>7, LengthsAreNat DEF Served, CountInv
<1>10. ASSUME server[c].pc = "data" PROVE ConnectionOK(c)' /\ CountInv(c)' /\ StoredInv(c)'
  <2>1. /\ ASeq(Append(handled[c], h)) /\ Len(Append(handled[c], h)) = Len(handled[c]) + 1
        /\ Append(handled[c], h)[Len(handled[c]) + 1] = h
        /\ \A n \in 1..Len(handled[c]) : Append(handled[c], h)[n] = handled[c][n]
    BY <1>2, AppendFacts
  <2>2. /\ ASeq(handled'[c]) /\ Len(handled'[c]) = k + 1 /\ handled'[c][k + 1] = h
        /\ \A n \in 1..k : handled'[c][n] = handled[c][n]
    BY <1>5, <1>9, <1>10, <2>1
  <2>3. k < Len(sent[c]) /\ server[c].name = sent[c][k + 1].name
    BY <1>6, <1>7, <1>10 DEF CountInv
  <2>4. ConnectionOK(c)'
    BY <1>1, <1>2, <1>3, <1>5, <2>2 DEF ShapeInv, ConnectionOK
  <2>5. CountInv(c)'
    <3>1. Served(c)' = k + 1 /\ k + 1 <= Len(sent[c])
      BY <1>9, <2>2, <2>3 DEF Served
    <3>2. \A n \in 1..(k + 1) : handled'[c][n].name = sent[c][n].name
      BY <1>4, <1>6, <1>7, <1>9, <2>2, <2>3 DEF CountInv
    <3>3. QED
      BY <1>1, <1>3, <1>5, <3>1, <3>2 DEF CountInv
  <2>6. StoredInv(c)'
    <3>1. \A n : Told(c, n)' <=> Told(c, n)
      BY <1>1 DEF Told, OtherEnd
    <3>2. Served(c)' = k + 1
      BY <2>2 DEF Served
    <3>3. net[c].up # "cut" => Len(sent[c]) = k + 1 /\ ~Told(c, k + 1)
      BY <1>6, <1>7, <1>8, <1>10 DEF StoredInv
    <3>4. net[c].up # "cut" => \A n \in 1..(k + 1) :
              Told(c, n) /\ ~sent[c][n].changed => handled'[c][n].outcome = "FINISHED"
      BY <1>6, <1>7, <1>9, <2>2, <3>3 DEF StoredInv
    <3>5. QED
      BY <1>1, <1>3, <1>5, <1>6, <3>1, <3>2, <3>4 DEF StoredInv
  <2>7. QED
    BY <2>4, <2>5, <2>6
<1>11. ASSUME server[c].pc = "run" PROVE ConnectionOK(c)' /\ CountInv(c)' /\ StoredInv(c)'
  <2>1. handled'[c] = handled[c]
    BY <1>5, <1>11
  <2>2. ConnectionOK(c)'
    BY <1>1, <1>2, <1>3, <1>5, <2>1 DEF ShapeInv, ConnectionOK
  <2>3. CountInv(c)'
    BY <1>1, <1>3, <1>5, <1>6, <2>1 DEF CountInv, Served
  <2>4. StoredInv(c)'
    BY <1>1, <1>3, <1>5, <1>6, <2>1 DEF StoredInv, Told, Served, OtherEnd
  <2>5. QED
    BY <2>2, <2>3, <2>4
<1>12. ConnectionOK(c)' /\ CountInv(c)' /\ StoredInv(c)'
  BY <1>2, <1>10, <1>11
<1>13. QueueInv(c)' /\ ReplyInv(c)'
  BY <1>1, <1>3, <1>5 DEF QueueInv, ReplyInv
<1>14. ASSUME c = client PROVE BetweenInv(c)' /\ WaitingInv(c)' /\ SendingInv(c)'
  <2>1. BetweenInv(c) /\ WaitingInv(c) /\ SendingInv(c)
    BY <1>14 DEF ProtocolInv, ClientInv
  <2>2. QED
    BY <1>1, <1>3, <1>5, <2>1 DEF BetweenInv, WaitingInv, SendingInv, Request, OtherEnd
<1>15. QED
  BY <1>1, <1>5, <1>12, <1>13, <1>14, OtherEndStays

\* What is left of the messages on their way is in order.
LEMMA BreakStep ==
    ASSUME ShapeInv, ProtocolInv, NEW c \in DOMAIN net, Break(c)
    PROVE  ShapeInv' /\ ProtocolInv'
<1>0. PICK n \in 0..Len(net[c].out) :
          net' = [net EXCEPT ![c].up = "cut", ![c].out = SubSeq(@, 1, n)]
  BY DEF Break
<1> DEFINE e == [net[c] EXCEPT !.up = "cut", !.out = SubSeq(@, 1, n)]
<1>1. /\ net' = [net EXCEPT ![c] = e] /\ OtherEnd /\ sent' = sent
      /\ server' = server /\ handled' = handled /\ net[c].up \in {"up", "closed"}
  BY <1>0 DEF Break, OtherEnd, line, disk, remote
<1>2. DOMAIN net[c] = {"target", "up", "out", "back"} /\ ASeq(net[c].out)
  BY DEF ShapeInv, ConnectionOK
<1>3. DOMAIN e = DOMAIN net[c] /\ e.up = "cut" /\ e.out = SubSeq(net[c].out, 1, n)
      /\ e.back = net[c].back
  BY <1>2
<1> HIDE DEF e
<1>4. OnlyAt(c) /\ net'[c] = e
  BY <1>1, ChangeAt DEF OnlyAt
<1>5. /\ ASeq(net'[c].out) /\ Len(net'[c].out) = n
      /\ \A j \in 1..n : net'[c].out[j] = net[c].out[j]
  <2>1. PICK q : q = net[c].out
    OBVIOUS
  <2>2. /\ ASeq(SubSeq(q, 1, n)) /\ Len(SubSeq(q, 1, n)) = n
        /\ \A j \in 1..n : SubSeq(q, 1, n)[j] = q[j]
    BY <1>2, <2>1, CutFacts
  <2>3. net'[c].out = SubSeq(q, 1, n)
    BY <1>3, <1>4, <2>1
  <2>4. QED
    BY <2>1, <2>2, <2>3
<1>6. QueueInv(c) /\ CountInv(c) /\ StoredInv(c) /\ ReplyInv(c)
  BY DEF ProtocolInv
<1>7. /\ n \in Nat /\ n <= Len(net[c].out) /\ Len(net[c].out) \in Nat
      /\ net'[c].out = <<>> <=> n = 0
      /\ net[c].out = <<>> <=> Len(net[c].out) = 0
      /\ Coming(c)' = 1..n /\ \A j \in 1..n : j \in Coming(c)
  BY <1>5, LengthsAreNat, SeqFacts DEF Coming
<1>8. server[c].pc # "gone" /\ Asks(c)' => Asks(c) /\ Newest(c)' = Newest(c)
  <2> SUFFICES ASSUME server[c].pc # "gone", Asks(c)' PROVE Asks(c) /\ Newest(c)' = Newest(c)
    OBVIOUS
  <2>1. n \in 1..n /\ Newest(c)' = net[c].out[n] /\ net[c].out[n].type = "request"
    BY <1>5, <1>7 DEF Asks, Newest
  <2>2. MessageOK(c, n)
    BY <1>6, <1>7, <2>1 DEF QueueInv
  <2>3. n = Len(net[c].out)
    BY <2>1, <2>2 DEF MessageOK, RequestOK
  <2>4. QED
    BY <1>7, <2>1, <2>3 DEF Asks, Newest
<1>9. ConnectionOK(c)'
  BY <1>1, <1>2, <1>3, <1>4, <1>5 DEF ShapeInv, ConnectionOK
<1>10. QueueInv(c)'
  <2> SUFFICES ASSUME server[c].pc # "gone", NEW j \in 1..n
               PROVE  \/ net[c].out[j].type = "request" /\ RequestOK(c, j)'
                      \/ net[c].out[j].type = "data" /\ DataOK(c, j)'
                      \/ net[c].out[j].type = "finished" /\ FinishedOK(c, j)'
    BY <1>1, <1>5, <1>7 DEF QueueInv, MessageOK
  <2>1. /\ MessageOK(c, j) /\ net'[c].out[j] = net[c].out[j]
        /\ j > 1 => net'[c].out[j - 1] = net[c].out[j - 1]
    BY <1>5, <1>6, <1>7 DEF QueueInv
  <2>2. Before(c, j)' = Before(c, j)
    BY <1>1, <1>7, <2>1 DEF Before
  <2>3. CASE net[c].out[j].type = "request" /\ RequestOK(c, j)
    <3>1. j = n
      BY <1>7, <2>3 DEF RequestOK
    <3>2. RequestOK(c, j)'
      BY <1>1, <1>5, <2>1, <2>3, <3>1 DEF RequestOK
    <3>3. QED
      BY <2>3, <3>2
  <2>4. CASE net[c].out[j].type = "data" /\ DataOK(c, j)
    BY <1>1, <2>1, <2>2, <2>4 DEF DataOK
  <2>5. CASE net[c].out[j].type = "finished" /\ FinishedOK(c, j)
    BY <1>1, <2>1, <2>2, <2>5 DEF FinishedOK, Served
  <2>6. QED
    BY <2>1, <2>3, <2>4, <2>5 DEF MessageOK
<1>11. CountInv(c)'
  BY <1>1, <1>6, <1>8 DEF CountInv, Served
<1>12. StoredInv(c)'
  BY <1>1, <1>3, <1>4, <1>6 DEF StoredInv, Told, OtherEnd
<1>13. ReplyInv(c)'
  BY <1>1, <1>3, <1>4, <1>6, <1>8 DEF ReplyInv, OtherEnd
<1>14. ASSUME c = client PROVE BetweenInv(c)' /\ WaitingInv(c)' /\ SendingInv(c)'
  <2>1. BetweenInv(c) /\ WaitingInv(c) /\ SendingInv(c)
    BY <1>14 DEF ProtocolInv, ClientInv
  <2>2. BetweenInv(c)'
    BY <1>1, <1>3, <1>4, <2>1 DEF BetweenInv, OtherEnd
  <2>3. WaitingInv(c)'
    BY <1>1, <1>3, <1>4, <1>8, <2>1 DEF WaitingInv, Request, OtherEnd
  <2>4. SendingInv(c)'
    BY <1>1, <1>3, <1>4, <2>1 DEF SendingInv, Request, OtherEnd
  <2>5. QED
    BY <2>2, <2>3, <2>4
<1>15. QED
  BY <1>1, <1>4, <1>9, <1>10, <1>11, <1>12, <1>13, <1>14, OtherEndStays

-----------------------------------------------------------------------------
(* The way to the target named last.                                       *)

\* Argument k is the last target among the first n arguments.
NamedLast(k, n) ==
    k \in 1..n /\ args[k].opt = "-t" /\ \A m \in (k + 1)..n : args[m].opt # "-t"

\* The connection leads to it.
Way(n) == client \in DOMAIN net /\ \E k \in 1..n : NamedLast(k, n) /\ net[client].target = args[k].val

OnWay == i > 1 /\ Way(i - 1)

\* A request goes to the target named last before its name.
GoesThere(c, n) ==
    /\ sent[c][n].arg \in 1..Len(args)
    /\ \E k \in 1..sent[c][n].arg :
           NamedLast(k, sent[c][n].arg) /\ net[c].target = args[k].val

\* A name is sent only while that is so: after a target that could not be reached, the
\* next argument that is looked at is another target.
WayInv ==
    /\ args \in CommandLines /\ i \in 1..(Len(args) + 1)
    /\ cpc \notin {"arg", "exit"} => OnWay
    /\ cpc = "arg" /\ tname # None /\ i <= Len(args) /\ args[i].opt = "-f" => OnWay
    /\ \A c \in DOMAIN net : \A n \in DOMAIN sent[c] : GoesThere(c, n)

-----------------------------------------------------------------------------
(* All steps.                                                              *)

\* A step of a thread of isend in its own variables keeps the invariants.
LEMMA OwnStep ==
    ASSUME ShapeInv, ProtocolInv, UNCHANGED <<client, net, sent, server, handled>>,
           \/ cpc \in Between /\ cpc' \in Between
           \/ cpc \in Over /\ cpc' \in Over
           \/ cpc' \in Dead
           \/ UNCHANGED <<cpc, file>>,
           cpc' \notin {"arg", "exit"} => client \in DOMAIN net,
           cpc' \in HasFile => file' \in FileReaders /\ len' \in Nat,
           cpc' \in HasFile \ {"send", "request"} => cpc \in HasFile \ {"send", "request"},
           ReadInv'
    PROVE  ShapeInv' /\ ProtocolInv'
<1>1. ShapeInv'
  BY DEF ShapeInv, ConnectionOK
<1>2. QED
  BY <1>1, LocalStep DEF ProtocolInv

\* A step that only goes on to another place without a file, or to the end.
LEMMA WalkStep ==
    ASSUME ShapeInv, ProtocolInv, UNCHANGED <<client, net, sent, server, handled, file>>,
           \/ cpc' \in Dead
           \/ cpc \in {"arg", "entry", "next"} /\ cpc' \in {"arg", "entry", "next"},
           cpc' # "arg" => client \in DOMAIN net
    PROVE  ShapeInv' /\ ProtocolInv'
<1>1. cpc' \notin HasFile
  BY DEF HasFile, Dead
<1>2. ReadInv'
  BY <1>1 DEF ReadInv, HasFile
<1>3. QED
  BY <1>1, <1>2, OwnStep DEF Between

\* The arguments and directories are walked through between two files.
LEMMA ArgumentStep ==
    ASSUME ShapeInv, ProtocolInv, WayInv,
           NoWay \/ SendArgument \/ NoTarget \/ Skip \/ OpenDir \/ EndOfDir \/ OpenFails
           \/ \E name : NextEntry(name)
    PROVE  ShapeInv' /\ ProtocolInv'
<1>1. UNCHANGED <<client, net, sent, server, handled, file>>
  BY DEF NoWay, SendArgument, NoTarget, Skip, OpenDir, EndOfDir, OpenFails, NextEntry, line, remote
<1>2. \/ cpc' \in Dead /\ cpc = "entry"
      \/ cpc \in {"entry", "next"} /\ cpc' \in {"arg", "entry", "next"}
      \/ cpc = "arg" /\ cpc' = "arg"
      \/ cpc = "arg" /\ cpc' = "entry" /\ SendArgument
  BY DEF NoWay, SendArgument, NoTarget, Skip, OpenDir, EndOfDir, OpenFails, NextEntry, Option, Dead
<1>3. SendArgument => client \in DOMAIN net
  BY DEF SendArgument, Option, WayInv, OnWay, Way
<1>4. cpc' # "arg" => client \in DOMAIN net
  BY <1>2, <1>3 DEF ShapeInv
<1>5. QED
  BY <1>1, <1>2, <1>4, WalkStep

\* A file that is opened has not been read.
LEMMA OpenFileStep ==
    ASSUME ShapeInv, ProtocolInv, OpenFile
    PROVE  ShapeInv' /\ ProtocolInv'
<1>1. /\ UNCHANGED <<client, net, sent, server, handled>> /\ cpc = "entry" /\ cpc' = "send"
      /\ Here \in DOMAIN Files /\ len' = Files[Here]
      /\ file' = [size |-> Files[Here], bytes |-> 0, status |-> "CONNECTING"]
  BY DEF OpenFile, line, remote
<1>2. Files[Here] \in Nat
  BY <1>1, ClientOK
<1>3. file' \in FileReaders /\ len' \in Nat /\ file'.bytes = 0 /\ len' = file'.size
  BY <1>1, <1>2 DEF FileReaders
<1>4. ReadInv'
  BY <1>1, <1>3 DEF ReadInv
<1>5. QED
  BY <1>1, <1>3, <1>4, OwnStep DEF Between, ShapeInv

\* The transfer is under way for the plugins; no message is sent yet.
LEMMA SendUpdateStep ==
    ASSUME ShapeInv, ProtocolInv, SendUpdate
    PROVE  ShapeInv' /\ ProtocolInv'
<1>1. /\ UNCHANGED <<client, net, sent, server, handled, len>> /\ cpc = "send" /\ cpc' = "request"
      /\ file' = [file EXCEPT !.status = "IN_PROGRESS"]
  BY DEF SendUpdate, line, remote, disk
<1>2. file \in FileReaders /\ len \in Nat /\ client \in DOMAIN net
  BY <1>1 DEF ShapeInv, HasFile
<1>3. file' \in FileReaders /\ file'.bytes = file.bytes /\ file'.size = file.size
  BY <1>1, <1>2 DEF FileReaders
<1>4. ReadInv'
  BY <1>1, <1>3 DEF ProtocolInv, ReadInv
<1>5. QED
  BY <1>1, <1>2, <1>3, <1>4, OwnStep DEF Between

\* The last steps of send, and those of the reporter.
LEMMA JoinStep ==
    ASSUME ShapeInv, ProtocolInv, JoinAsks \/ JoinWaits \/ JoinFreed \/ RequestFails \/ Reporter
    PROVE  ShapeInv' /\ ProtocolInv'
<1>1. UNCHANGED <<client, sent, server, handled>>
  BY DEF JoinAsks, JoinWaits, JoinFreed, RequestFails, Throw, Reporter, ReporterTests,
         ReporterUpdates, ReporterTouchesFreed, ReporterPosts, ReporterDeletesItself, line, remote
<1>2. \/ \E code : Exit(code)
      \/ net' = net /\ cpc = "join" /\ cpc' = "wait" /\ UNCHANGED <<file, len>>
      \/ net' = net /\ cpc = "wait" /\ cpc' \in {"end", "stuck"} /\ UNCHANGED <<file, len>>
      \/ net' = net /\ cpc = "request" /\ cpc' = "unwind"
      \/ net' = net /\ UNCHANGED <<cpc, file, len>>
  <2>1. CASE Reporter
    BY <2>1 DEF Reporter, ReporterTests, ReporterUpdates, ReporterTouchesFreed, ReporterPosts,
                ReporterDeletesItself, disk
  <2>2. CASE JoinAsks \/ JoinWaits \/ RequestFails
    BY <2>2 DEF JoinAsks, JoinWaits, RequestFails, Throw, disk
  <2>3. CASE JoinFreed
    BY <2>3 DEF JoinFreed, disk
  <2>4. QED
    BY <2>1, <2>2, <2>3
<1>3. CASE \E code : Exit(code)
  BY <1>1, <1>3, ExitStep DEF Exit
<1>4. CASE net' = net /\ cpc \in Over /\ cpc' \in {"wait", "end", "stuck"} /\ UNCHANGED <<file, len>>
  <2>1. ReadInv'
    BY <1>4 DEF ReadInv
  <2>2. client \in DOMAIN net /\ file \in FileReaders /\ len \in Nat
    BY <1>4 DEF ShapeInv, HasFile, Over
  <2>3. QED
    BY <1>1, <1>4, <2>1, <2>2, OwnStep DEF Over, Dead, HasFile
<1>5. CASE net' = net /\ cpc = "request" /\ cpc' = "unwind"
  <2>1. ReadInv'
    BY <1>5 DEF ReadInv
  <2>2. client \in DOMAIN net
    BY <1>5 DEF ShapeInv
  <2>3. QED
    BY <1>1, <1>5, <2>1, <2>2, OwnStep DEF Dead, HasFile
<1>6. CASE net' = net /\ UNCHANGED <<cpc, file, len>>
  <2>1. ReadInv'
    BY <1>1, <1>6 DEF ProtocolInv, ReadInv, Request
  <2>2. QED
    BY <1>1, <1>6, <2>1, OwnStep DEF ShapeInv
<1>7. QED
  BY <1>2, <1>3, <1>4, <1>5, <1>6 DEF Over

\* Every step keeps the protocol.
LEMMA NextProtocol ==
    ASSUME ShapeInv, ProtocolInv, WayInv, [Next]_vars
    PROVE  ShapeInv' /\ ProtocolInv'
<1>1. CASE UNCHANGED vars
  <2>1. UNCHANGED <<client, net, sent, server, handled, cpc, file, len>>
    BY <1>1 DEF vars, line, remote, disk
  <2>2. ReadInv'
    BY <2>1 DEF ProtocolInv, ReadInv, Request
  <2>3. QED
    BY <2>1, <2>2, OwnStep DEF ShapeInv
<1>2. CASE Main
  <2>1. CASE FindWay
    BY <2>1, FindWayStep
  <2>2. CASE NoWay \/ SendArgument \/ NoTarget \/ Skip \/ OpenDir \/ EndOfDir \/ OpenFails
             \/ \E name \in Last(dirs).rest : NextEntry(name)
    BY <2>2, ArgumentStep
  <2>3. CASE EndOfLine \/ Return
    <3>1. \E code : Exit(code)
      BY <2>3 DEF EndOfLine, Return
    <3>2. UNCHANGED <<client, sent, server, handled>>
      BY <2>3 DEF EndOfLine, Return, line, remote
    <3>3. QED
      BY <3>1, <3>2, ExitStep DEF Exit
  <2>4. CASE OpenFile
    BY <2>4, OpenFileStep
  <2>5. CASE SendUpdate
    BY <2>5, SendUpdateStep
  <2>6. CASE SendRequest
    BY <2>6, SendRequestStep
  <2>7. CASE Accepted
    BY <2>7, AcceptedStep
  <2>8. CASE NotAccepted \/ DataFails
    BY <2>8, FailStep DEF NotAccepted, DataFails
  <2>9. CASE SendData
    BY <2>9, SendDataStep
  <2>10. CASE SendFinished
    BY <2>10, SendFinishedStep
  <2>11. CASE JoinAsks \/ JoinWaits \/ JoinFreed \/ RequestFails
    BY <2>11, JoinStep
  <2>12. CASE SendEnds
    BY <2>12, SendEndsStep
  <2>13. CASE AnswerTorn
    <3>1. /\ UNCHANGED <<client, net, sent, server, handled, file>> /\ cpc = "reply"
          /\ cpc' = "torn"
      BY <2>13 DEF AnswerTorn, line, remote
    <3>2. client \in DOMAIN net
      BY <3>1 DEF ShapeInv
    <3> QED BY <3>1, <3>2, WalkStep DEF Dead
  <2>14. QED
    BY <1>2, <2>1, <2>2, <2>3, <2>4, <2>5, <2>6, <2>7, <2>8, <2>9, <2>10, <2>11, <2>12, <2>13
       DEF Main
<1>3. CASE cpc # "exit" /\ Reporter
  BY <1>3, JoinStep
<1>4. ASSUME NEW c \in DOMAIN net, Server(c) PROVE ShapeInv' /\ ProtocolInv'
  <2>1. CASE Hang(c)
    <3>1. UNCHANGED <<client, net, sent, server, handled, cpc, file, len>>
      BY <2>1 DEF Hang, line, disk
    <3>2. ReadInv'
      BY <3>1 DEF ProtocolInv, ReadInv, Request
    <3> QED BY <3>1, <3>2, OwnStep DEF ShapeInv
  <2> QED BY <1>4, <2>1, RejectStep, AcceptStep, RefuseStep, ReceiveDataStep, ReceiveFinishedStep,
             DisconnectedStep DEF Server
<1>5. ASSUME NEW c \in DOMAIN net, Break(c) PROVE ShapeInv' /\ ProtocolInv'
  BY <1>5, BreakStep
<1>6. ASSUME NEW n \in {len - 1, len + 1}, FileChanges(n) PROVE ShapeInv' /\ ProtocolInv'
  <2>1. n \in Nat
    BY <1>6 DEF FileChanges
  <2>2. QED
    BY <1>6, <2>1, FileChangesStep
<1>7. QED
  BY <1>1, <1>2, <1>3, <1>4, <1>5, <1>6 DEF Next

-----------------------------------------------------------------------------
(* The steps and the way.                                                  *)

\* At the start no target has been named.
LEMMA InitWay == Init => WayInv
<1> SUFFICES ASSUME Init PROVE WayInv
  OBVIOUS
<1>1. args \in CommandLines /\ i = 1 /\ cpc = "arg" /\ tname = None /\ net = <<>>
  BY DEF Init
<1>2. Len(args) \in Nat
  BY <1>1, ClientOK
<1>3. DOMAIN net = {}
  BY <1>1
<1>4. QED
  BY <1>1, <1>2, <1>3 DEF WayInv

TargetsStay == DOMAIN net' = DOMAIN net /\ \A c \in DOMAIN net : net'[c].target = net[c].target

ArgumentsStay == \A c \in DOMAIN net :
    DOMAIN sent'[c] = DOMAIN sent[c] /\ \A n \in DOMAIN sent[c] : sent'[c][n].arg = sent[c][n].arg

\* A step that changes neither the arguments nor a target.
LEMMA WayStays ==
    ASSUME WayInv, UNCHANGED <<args, i, tname, client>>, TargetsStay, ArgumentsStay,
           cpc' \in {"arg", "exit"} \/ cpc \notin {"arg", "exit"},
           cpc' = "arg" => cpc # "exit"
    PROVE  WayInv'
<1>1. OnWay => OnWay'
  BY DEF OnWay, Way, NamedLast, TargetsStay
<1>2. ASSUME NEW c \in DOMAIN net', NEW n \in DOMAIN sent'[c] PROVE GoesThere(c, n)'
  <2>1. /\ c \in DOMAIN net /\ n \in DOMAIN sent[c]
        /\ sent'[c][n].arg = sent[c][n].arg /\ net'[c].target = net[c].target
    BY DEF TargetsStay, ArgumentsStay
  <2>2. GoesThere(c, n)
    BY <2>1 DEF WayInv
  <2>3. QED
    BY <2>1, <2>2 DEF GoesThere, NamedLast
<1>3. QED
  BY <1>1, <1>2 DEF WayInv

\* A connection is changed in another respect.
LEMMA EditStays ==
    ASSUME ShapeInv, NEW c \in DOMAIN net, NEW e, net' = [net EXCEPT ![c] = e],
           e.target = net[c].target
    PROVE  TargetsStay
  BY ChangeAt DEF TargetsStay, PutAt

\* No message and no end of a connection changes where it leads.
LEMMA ConnectionStays ==
    ASSUME ShapeInv,
           \/ net' = net
           \/ \E code : Exit(code)
           \/ client \in DOMAIN net /\ (Accepted \/ \E m : Sends(m))
           \/ \E c \in DOMAIN net : Server(c) \/ Break(c)
    PROVE  TargetsStay
<1>0. \A c \in DOMAIN net : DOMAIN net[c] = {"target", "up", "out", "back"}
  BY DEF ShapeInv, ConnectionOK
<1>1. CASE net' = net
  BY <1>1 DEF TargetsStay
<1>2. CASE \E code : Exit(code)
  BY <1>0, <1>2, CloseFacts DEF Exit, TargetsStay
<1>3. CASE client \in DOMAIN net /\ Accepted
  <2>1. PICK c : c = client
    OBVIOUS
  <2> DEFINE e == [net[c] EXCEPT !.back = Tail(@)]
  <2>2. net' = [net EXCEPT ![c] = e]
    BY <1>3, <2>1 DEF Accepted
  <2>3. e.target = net[c].target
    BY <1>0, <1>3, <2>1
  <2> HIDE DEF e
  <2>4. QED
    BY <1>3, <2>1, <2>2, <2>3, EditStays
<1>4. ASSUME client \in DOMAIN net, NEW m, Sends(m) PROVE TargetsStay
  <2>1. CASE net' = net
    BY <2>1 DEF TargetsStay
  <2>2. CASE net' = [net EXCEPT ![client].out = Append(@, m)]
    <3>1. PICK c : c = client
      OBVIOUS
    <3> DEFINE e == [net[c] EXCEPT !.out = Append(@, m)]
    <3>2. net' = [net EXCEPT ![c] = e]
      BY <2>2, <3>1
    <3>3. e.target = net[c].target
      BY <1>0, <1>4, <3>1
    <3> HIDE DEF e
    <3>4. QED
      BY <1>4, <3>1, <3>2, <3>3, EditStays
  <2>3. QED
    BY <1>4, <2>1, <2>2 DEF Sends
<1>5. ASSUME NEW c \in DOMAIN net, Server(c) \/ Break(c) PROVE TargetsStay
  <2>1. CASE Disconnected(c) \/ Hang(c)
    BY <2>1 DEF Disconnected, Hang, TargetsStay
  <2>2. CASE Reject(c) \/ Accept(c)
    <3>1. PICK r : Replies(c, r)
      BY <2>2 DEF Reject, Accept
    <3> DEFINE e == [net[c] EXCEPT !.out = Tail(@), !.back = Append(@, r)]
    <3>2. net' = [net EXCEPT ![c] = e] /\ e.target = net[c].target
      BY <1>0, <3>1 DEF Replies
    <3> HIDE DEF e
    <3>3. QED
      BY <3>2, EditStays
  <2>3. CASE Refuse(c)
    <3> DEFINE e == [net[c] EXCEPT !.up = IF @ = "up" THEN "left" ELSE @, !.out = <<>>,
                                   !.back = Append(@, "garbage")]
    <3>1. net' = [net EXCEPT ![c] = e] /\ e.target = net[c].target
      BY <1>0, <2>3 DEF Refuse
    <3> HIDE DEF e
    <3>2. QED
      BY <3>1, EditStays
  <2>4. CASE ReceiveData(c) \/ ReceiveFinished(c)
    <3> DEFINE e == [net[c] EXCEPT !.out = Tail(@)]
    <3>1. net' = [net EXCEPT ![c] = e] /\ e.target = net[c].target
      BY <1>0, <2>4 DEF ReceiveData, ReceiveFinished
    <3> HIDE DEF e
    <3>2. QED
      BY <3>1, EditStays
  <2>5. CASE Break(c)
    <3>1. PICK n : net' = [net EXCEPT ![c].up = "cut", ![c].out = SubSeq(@, 1, n)]
      BY <2>5 DEF Break
    <3> DEFINE e == [net[c] EXCEPT !.up = "cut", !.out = SubSeq(@, 1, n)]
    <3>2. net' = [net EXCEPT ![c] = e] /\ e.target = net[c].target
      BY <1>0, <3>1
    <3> HIDE DEF e
    <3>3. QED
      BY <3>2, EditStays
  <2>6. QED
    BY <1>5, <2>1, <2>2, <2>3, <2>4, <2>5 DEF Server
<1>6. QED
  BY <1>1, <1>2, <1>3, <1>4, <1>5

\* How a request ends says nothing of the argument it is about.
LEMMA RequestStays ==
    ASSUME ShapeInv, NEW c, c = client, c \in DOMAIN net, sent[c] # <<>>,
           NEW f \in {"changed", "outcome"}, NEW v, SetsField(c, f, v)
    PROVE  ArgumentsStay
<1>1. PICK k : k = Len(sent[c])
  OBVIOUS
<1>2. k \in Nat /\ k \in 1..k /\ DOMAIN sent[c] = 1..k
  BY <1>1, RequestFacts, LengthsAreNat
<1>3. /\ PutAt(sent, sent', c) /\ ASeq(sent'[c]) /\ Len(sent'[c]) = k
      /\ \A n \in 1..k : n # k => sent'[c][n] = sent[c][n]
      /\ sent'[c][k].arg = sent[c][k].arg
  BY <1>1, FieldFacts
<1>4. DOMAIN sent'[c] = 1..k
  BY <1>3, SeqFacts
<1>5. \A n \in DOMAIN sent[c] : sent'[c][n].arg = sent[c][n].arg
  BY <1>2, <1>3
<1>6. DOMAIN sent = DOMAIN net
  BY SeqFacts DEF ShapeInv
<1>7. \A d \in DOMAIN net \ {c} : sent'[d] = sent[d]
  BY <1>3, <1>6 DEF PutAt
<1>8. QED
  BY <1>2, <1>4, <1>5, <1>7 DEF ArgumentsStay

\* A set of numbers has a smallest one, which is what Min chooses.
LEMMA SmallestNat ==
    ASSUME NEW S, S \subseteq Nat, S # {}
    PROVE  Min(S) \in S /\ \A y \in S : Min(S) <= y
<1> DEFINE R == StrictSubsetOrdering(Nat)
           F == {1..x : x \in S}
<1>1. \A x \in Nat : 1..x \in FiniteSubsetsOf(Nat)
  BY FS_Interval DEF FiniteSubsetsOf
<1>2. F \subseteq FiniteSubsetsOf(Nat) /\ F # {}
  BY <1>1
<1>3. \A x, y \in Nat : y < x => <<1..y, 1..x>> \in R
  BY DEF StrictSubsetOrdering
<1>4. IsWellFoundedOn(R, FiniteSubsetsOf(Nat))
  BY FS_StrictSubsetOrderingWellFounded
<1> HIDE DEF R
<1>5. PICK X \in F : \A Y \in F : <<Y, X>> \notin R
  <2> HIDE DEF F
  <2>1. QED
    BY <1>2, <1>4, WFMin
<1>6. PICK x \in S : X = 1..x
  OBVIOUS
<1>7. \A y \in S : x <= y
  <2> SUFFICES ASSUME NEW y \in S PROVE x <= y
    OBVIOUS
  <2>1. <<1..y, 1..x>> \notin R
    BY <1>5, <1>6
  <2>2. x \in Nat /\ y \in Nat /\ ~(y < x)
    BY <1>3, <2>1
  <2>3. QED
    BY <2>2
<1>8. QED
  BY <1>7 DEF Min

\* What is skipped ends at a target or with the arguments.
LEMMA SkipFacts ==
    ASSUME args \in CommandLines, NEW n \in 1..(Len(args) + 1)
    PROVE  /\ SkipTarget(n) \in 1..(Len(args) + 1)
           /\ SkipTarget(n) <= Len(args) => args[SkipTarget(n)].opt = "-t"
<1> DEFINE S == {k \in n..Len(args) : args[k].opt = "-t"} \cup {Len(args) + 1}
<1>1. Len(args) \in Nat
  BY ClientOK
<1>2. S \subseteq 1..(Len(args) + 1) /\ S # {} /\ S \subseteq Nat
  BY <1>1
<1>3. Min(S) \in S
  BY <1>2, SmallestNat
<1>4. SkipTarget(n) = Min(S)
  BY DEF SkipTarget
<1>5. QED
  BY <1>1, <1>2, <1>3, <1>4

\* A new connection leads to the target that was named for it.
LEMMA FindWayWay ==
    ASSUME ShapeInv, WayInv, FindWay
    PROVE  WayInv'
<1>0. PICK new, p : new = Len(net) + 1 /\ p = i
  OBVIOUS
<1> DEFINE N == Closed(client)
           stream == [target |-> args[i].val, up |-> "up", out |-> <<>>, back |-> <<>>]
<1>1. /\ ASeq(N) /\ Len(N) = Len(net) /\ DOMAIN N = DOMAIN net
      /\ \A c \in DOMAIN net : N[c].target = net[c].target
  BY CloseFacts DEF ShapeInv, ConnectionOK
<1>2. /\ ASeq(sent) /\ Len(sent) = Len(net) /\ Len(net) \in Nat /\ DOMAIN net = 1..Len(net)
  BY SeqFacts DEF ShapeInv
<1>3. /\ net' = Append(N, stream) /\ sent' = Append(sent, <<>>)
      /\ client' = new /\ cpc' = "arg" /\ args' = args /\ i' = i + 1
      /\ i <= Len(args) /\ args[i].opt = "-t"
  BY <1>0 DEF FindWay, Option
<1> HIDE DEF N, stream
<1>4. /\ ASeq(net') /\ Len(net') = new /\ net'[new] = stream
      /\ \A c \in DOMAIN net : net'[c] = N[c]
  BY <1>0, <1>1, <1>2, <1>3, AppendFacts
<1>5. sent'[new] = <<>> /\ \A c \in DOMAIN net : sent'[c] = sent[c]
  BY <1>0, <1>2, <1>3, AppendFacts
<1>6. DOMAIN net' = DOMAIN net \cup {new} /\ new \in DOMAIN net'
  BY <1>0, <1>2, <1>4, SeqFacts
<1>7. stream.target = args[i].val
  BY DEF stream
<1>8. args \in CommandLines /\ Len(args) \in Nat /\ i \in 1..Len(args)
  BY <1>3, ClientOK DEF WayInv
<1>9. i' \in 1..(Len(args) + 1) /\ i' > 1 /\ i' - 1 = p /\ p \in 1..Len(args)
  BY <1>0, <1>3, <1>8
<1>10. OnWay'
  <2>1. client' \in DOMAIN net' /\ net'[client'].target = args'[p].val
    BY <1>0, <1>3, <1>4, <1>6, <1>7
  <2>2. NamedLast(p, p)'
    BY <1>0, <1>3, <1>9 DEF NamedLast
  <2>3. Way(p)'
    BY <1>9, <2>1, <2>2 DEF Way
  <2>4. QED
    BY <1>9, <2>3 DEF OnWay, Way, NamedLast
<1>11. ASSUME NEW c \in DOMAIN net', NEW n \in DOMAIN sent'[c] PROVE GoesThere(c, n)'
  <2>1. c \in DOMAIN net
    <3>1. DOMAIN <<>> = {}
      OBVIOUS
    <3>2. QED
      BY <1>5, <1>6, <1>11, <3>1
  <2>2. sent'[c] = sent[c] /\ net'[c].target = net[c].target
    BY <1>1, <1>4, <1>5, <2>1
  <2>3. GoesThere(c, n)
    BY <2>1, <2>2 DEF WayInv
  <2>4. QED
    BY <1>3, <2>2, <2>3 DEF GoesThere, NamedLast
<1>12. QED
  BY <1>3, <1>8, <1>9, <1>10, <1>11 DEF WayInv

\* After a target without a way no file is next.
LEMMA NoWayWay ==
    ASSUME WayInv, NoWay
    PROVE  WayInv'
<1>1. /\ UNCHANGED <<args, client, net, sent, cpc>> /\ cpc = "arg"
      /\ i <= Len(args) /\ i' = SkipTarget(i + 1)
  BY DEF NoWay, Option
<1>2. args \in CommandLines /\ Len(args) \in Nat /\ i \in 1..(Len(args) + 1)
  BY ClientOK DEF WayInv
<1>3. /\ i' \in 1..(Len(args) + 1)
      /\ i' <= Len(args) => args[i'].opt = "-t"
  <2>1. i + 1 \in 1..(Len(args) + 1)
    BY <1>1, <1>2
  <2>2. QED
    BY <1>1, <1>2, <2>1, SkipFacts
<1>4. ASSUME NEW c \in DOMAIN net, NEW n \in DOMAIN sent[c] PROVE GoesThere(c, n)'
  BY <1>1 DEF WayInv, GoesThere, NamedLast
<1>5. ~(i' <= Len(args') /\ args'[i'].opt = "-f")
  BY <1>1, <1>3
<1>6. QED
  BY <1>1, <1>2, <1>3, <1>4, <1>5 DEF WayInv

\* A file between two targets goes to the first of them.
LEMMA FileArgumentWay ==
    ASSUME WayInv, SendArgument \/ NoTarget
    PROVE  WayInv'
<1>1. /\ UNCHANGED <<args, client, tname, net, sent>> /\ cpc = "arg" /\ i' = i + 1
      /\ i <= Len(args) /\ args[i].opt = "-f"
      /\ \/ tname # None /\ cpc' = "entry"
         \/ tname = None /\ cpc' = "arg"
  BY DEF SendArgument, NoTarget, Option
<1>2. args \in CommandLines /\ Len(args) \in Nat /\ i \in 1..(Len(args) + 1)
  BY ClientOK DEF WayInv
<1>3. PICK p : p = i
  OBVIOUS
<1>4. i' \in 1..(Len(args) + 1) /\ i' > 1 /\ i' - 1 = p /\ p \in Nat
  BY <1>1, <1>2, <1>3
<1>5. ASSUME tname # None PROVE OnWay'
  <2>1. p > 1 /\ Way(p - 1)
    BY <1>1, <1>3, <1>5 DEF WayInv, OnWay
  <2>2. PICK k \in 1..(p - 1) : NamedLast(k, p - 1) /\ net[client].target = args[k].val
    BY <2>1 DEF Way
  <2>3. NamedLast(k, p)
    <3>1. k \in 1..p /\ args[k].opt = "-t"
      BY <1>4, <2>2 DEF NamedLast
    <3>2. ASSUME NEW m \in (k + 1)..p PROVE args[m].opt # "-t"
      <4>1. CASE m = p
        BY <1>1, <1>3, <4>1
      <4>2. CASE m \in (k + 1)..(p - 1)
        BY <2>2, <4>2 DEF NamedLast
      <4>3. QED
        BY <1>4, <2>2, <4>1, <4>2
    <3>3. QED
      BY <3>1, <3>2 DEF NamedLast
  <2>4. k \in 1..p /\ NamedLast(k, p)'
    BY <1>1, <1>4, <2>2, <2>3 DEF NamedLast
  <2>5. Way(p)'
    BY <1>1, <2>1, <2>2, <2>4 DEF Way
  <2>6. QED
    BY <1>4, <2>5 DEF OnWay, Way, NamedLast
<1>6. ASSUME NEW c \in DOMAIN net, NEW n \in DOMAIN sent[c] PROVE GoesThere(c, n)'
  BY <1>1 DEF WayInv, GoesThere, NamedLast
<1>7. QED
  BY <1>1, <1>2, <1>4, <1>5, <1>6 DEF WayInv

\* A file is announced to the target named last.
LEMMA SendRequestWay ==
    ASSUME ShapeInv, WayInv, SendRequest
    PROVE  WayInv'
<1>0. PICK c : c = client
  OBVIOUS
<1>1. PICK r : r.arg = i - 1 /\ sent' = [sent EXCEPT ![c] = Append(sent[c], r)]
  <2> DEFINE rr == [arg |-> i - 1, source |-> Here,
                    name |-> SubSeq(entry, ignored + 1, Len(entry)),
                    changed |-> FALSE, outcome |-> None]
  <2>1. sent' = [sent EXCEPT ![c] = Append(sent[c], rr)] /\ rr.arg = i - 1
    BY <1>0 DEF SendRequest
  <2> HIDE DEF rr
  <2>2. QED
    BY <2>1
<1>2. /\ UNCHANGED <<args, i, tname, client>> /\ cpc = "request" /\ cpc' = "reply"
      /\ \E m : Sends(m)
  BY DEF SendRequest, line
<1>3. c \in DOMAIN net /\ client = c /\ ASeq(sent[c])
  BY <1>0, <1>2 DEF ShapeInv, ConnectionOK
<1>4. TargetsStay
  BY <1>0, <1>2, <1>3, ConnectionStays
<1>5. PICK k : k = Len(sent[c])
  OBVIOUS
<1>6. k \in Nat /\ DOMAIN sent[c] = 1..k
  BY <1>3, <1>5, LengthsAreNat
<1>7. PutAt(sent, sent', c) /\ sent'[c] = Append(sent[c], r)
  BY <1>1, <1>3, ChangeAt
<1>8. /\ ASeq(sent'[c]) /\ Len(sent'[c]) = k + 1 /\ sent'[c][k + 1] = r
      /\ \A n \in 1..k : sent'[c][n] = sent[c][n]
  BY <1>3, <1>5, <1>7, AppendFacts
<1>9. DOMAIN sent'[c] = 1..(k + 1)
  BY <1>8, SeqFacts
<1>10. \A d \in DOMAIN net \ {c} : sent'[d] = sent[d]
  <2>1. DOMAIN sent = DOMAIN net
    BY SeqFacts DEF ShapeInv
  <2>2. QED
    BY <1>7, <2>1 DEF PutAt
<1>11. OnWay /\ args \in CommandLines /\ Len(args) \in Nat /\ i \in 1..(Len(args) + 1) /\ i > 1
  BY <1>2, ClientOK DEF WayInv, OnWay
<1>12. OnWay'
  BY <1>2, <1>4, <1>11 DEF OnWay, Way, NamedLast, TargetsStay
<1>13. ASSUME NEW d \in DOMAIN net', NEW n \in DOMAIN sent'[d] PROVE GoesThere(d, n)'
  <2>0. d \in DOMAIN net /\ net'[d].target = net[d].target
    BY <1>4 DEF TargetsStay
  <2>1. CASE d = c /\ n = k + 1
    <3>1. sent'[d][n].arg = i - 1 /\ i - 1 \in 1..Len(args)
      BY <1>1, <1>8, <1>11, <2>1
    <3>2. PICK p : p = i - 1
      OBVIOUS
    <3>3. PICK j \in 1..p : NamedLast(j, p) /\ net[c].target = args[j].val
      BY <1>3, <1>11, <3>2 DEF OnWay, Way
    <3>4. NamedLast(j, p)' /\ sent'[d][n].arg = p /\ net'[d].target = args'[j].val /\ p \in 1..Len(args')
      BY <1>2, <2>0, <2>1, <3>1, <3>2, <3>3 DEF NamedLast
    <3>5. QED
      BY <3>4 DEF GoesThere, NamedLast
  <2>2. CASE d # c \/ n # k + 1
    <3>1. n \in DOMAIN sent[d] /\ sent'[d][n] = sent[d][n]
      <4>1. CASE d # c
        BY <1>10, <2>0, <4>1
      <4>2. CASE d = c
        <5>1. n \in 1..(k + 1) /\ n # k + 1
          BY <1>9, <2>2, <4>2
        <5>2. n \in 1..k
          BY <1>6, <5>1
        <5>3. QED
          BY <1>6, <1>8, <4>2, <5>2
      <4>3. QED
        BY <4>1, <4>2
    <3>2. GoesThere(d, n)
      BY <2>0, <3>1 DEF WayInv
    <3>3. QED
      BY <1>2, <2>0, <3>1, <3>2 DEF GoesThere, NamedLast
  <2>3. QED
    BY <2>1, <2>2
<1>14. QED
  BY <1>2, <1>11, <1>12, <1>13 DEF WayInv

\* Every step keeps files on their ways.
LEMMA NextWay ==
    ASSUME ShapeInv, WayInv, [Next]_vars
    PROVE  WayInv'
<1>0. sent' = sent => ArgumentsStay
  BY DEF ArgumentsStay
<1>1. CASE UNCHANGED vars
  <2>1. UNCHANGED <<args, i, tname, client, net, sent, cpc>>
    BY <1>1 DEF vars, line
  <2>2. QED
    BY <1>0, <2>1, ConnectionStays, WayStays
<1>2. CASE Main
  <2>1. CASE FindWay
    BY <2>1, FindWayWay
  <2>2. CASE NoWay
    BY <2>2, NoWayWay
  <2>3. CASE SendArgument \/ NoTarget
    BY <2>3, FileArgumentWay
  <2>4. CASE SendRequest
    BY <2>4, SendRequestWay
  <2>5. CASE \/ EndOfLine \/ Return \/ Skip \/ OpenDir \/ OpenFile \/ OpenFails \/ EndOfDir
             \/ \E name \in Last(dirs).rest : NextEntry(name)
             \/ SendUpdate \/ RequestFails \/ AnswerTorn \/ JoinAsks \/ JoinWaits \/ JoinFreed
    <3>1. UNCHANGED <<args, i, tname, client, sent>>
      BY <2>5 DEF EndOfLine, Return, Skip, OpenDir, OpenFile, OpenFails, EndOfDir, NextEntry,
                  SendUpdate, RequestFails, Throw, AnswerTorn, JoinAsks, JoinWaits, JoinFreed, line
    <3>2. net' = net \/ \E code : Exit(code)
      BY <2>5 DEF EndOfLine, Return, Skip, OpenDir, OpenFile, OpenFails, EndOfDir, NextEntry,
                  SendUpdate, RequestFails, Throw, AnswerTorn, JoinAsks, JoinWaits, JoinFreed
    <3>3. cpc' = "exit" \/ cpc \notin {"arg", "exit"}
      BY <2>5 DEF EndOfLine, Return, Skip, OpenDir, OpenFile, OpenFails, EndOfDir, NextEntry,
                  SendUpdate, RequestFails, AnswerTorn, JoinAsks, JoinWaits, JoinFreed, Exit
    <3>4. TargetsStay
      BY <3>2, ConnectionStays
    <3>5. QED
      BY <1>0, <3>1, <3>3, <3>4, WayStays
  <2>6. CASE Accepted \/ SendData \/ SendFinished
    <3>1. UNCHANGED <<args, i, tname, client, sent>> /\ cpc \in {"reply", "data", "finished"}
      BY <2>6 DEF Accepted, SendData, SendFinished, line
    <3>2. client \in DOMAIN net
      BY <3>1 DEF ShapeInv
    <3>3. Accepted \/ \E m : Sends(m)
      BY <2>6 DEF SendData, SendFinished
    <3>4. TargetsStay
      BY <3>2, <3>3, ConnectionStays
    <3>5. QED
      BY <1>0, <3>1, <3>4, WayStays
  <2>7. CASE NotAccepted \/ DataFails \/ SendEnds
    <3>1. PICK c : c = client
      OBVIOUS
    <3>2. /\ UNCHANGED <<args, i, tname, client, net>> /\ cpc \in {"reply", "data", "end"}
          /\ \E o : Outcome(o)
      BY <2>7 DEF NotAccepted, DataFails, SendEnds, Throw, line
    <3>3. c \in DOMAIN net /\ sent[c] # <<>>
      BY <3>1, <3>2 DEF ShapeInv, HasFile
    <3>4. \E v : SetsField(c, "outcome", v)
      BY <3>1, <3>2 DEF Outcome, SetsField, Asked
    <3>5. ArgumentsStay
      BY <3>1, <3>3, <3>4, RequestStays
    <3>6. QED
      BY <3>2, <3>5, ConnectionStays, WayStays
  <2>8. QED
    BY <1>2, <2>1, <2>2, <2>3, <2>4, <2>5, <2>6, <2>7 DEF Main
<1>3. CASE cpc # "exit" /\ Reporter
  <2>1. UNCHANGED <<args, i, tname, client, sent>>
    BY <1>3 DEF Reporter, ReporterTests, ReporterUpdates, ReporterTouchesFreed, ReporterPosts,
                ReporterDeletesItself, line
  <2>2. \/ UNCHANGED <<net, cpc>>
        \/ \E code : Exit(code)
    BY <1>3 DEF Reporter, ReporterTests, ReporterUpdates, ReporterTouchesFreed, ReporterPosts,
                ReporterDeletesItself
  <2>3. TargetsStay
    BY <2>2, ConnectionStays
  <2>4. cpc' = "exit" \/ cpc' = cpc
    BY <2>2 DEF Exit
  <2>5. QED
    BY <1>0, <1>3, <2>1, <2>3, <2>4, WayStays
<1>4. ASSUME NEW c \in DOMAIN net, Server(c) \/ Break(c) PROVE WayInv'
  <2>1. UNCHANGED <<args, i, tname, client, sent, cpc>>
    BY <1>4 DEF Server, Reject, Accept, Refuse, Hang, ReceiveData, ReceiveFinished, Disconnected,
                Break, line
  <2>2. TargetsStay
    BY <1>4, ConnectionStays
  <2>3. QED
    BY <1>0, <2>1, <2>2, WayStays
<1>5. ASSUME NEW n \in {len - 1, len + 1}, FileChanges(n) PROVE WayInv'
  <2>1. PICK c, v : c = client /\ v = TRUE
    OBVIOUS
  <2>2. UNCHANGED <<args, i, tname, client, net, cpc>> /\ cpc \in {"reply", "data"}
    BY <1>5 DEF FileChanges, line
  <2>3. c \in DOMAIN net /\ sent[c] # <<>>
    BY <2>1, <2>2 DEF ShapeInv, HasFile
  <2>4. SetsField(c, "changed", v)
    BY <1>5, <2>1 DEF FileChanges, SetsField, Asked
  <2>5. ArgumentsStay
    BY <2>1, <2>3, <2>4, RequestStays
  <2>6. QED
    BY <2>2, <2>5, ConnectionStays, WayStays
<1>6. QED
  BY <1>1, <1>2, <1>3, <1>4, <1>5 DEF Next

-----------------------------------------------------------------------------
(* What holds of every run.                                                *)

\* The three together are inductive.
LEMMA Invariants == Spec => [](ShapeInv /\ ProtocolInv /\ WayInv)
<1>1. Init => ShapeInv /\ ProtocolInv /\ WayInv
  BY InitProtocol, InitWay
<1>2. ShapeInv /\ ProtocolInv /\ WayInv /\ [Next]_vars => (ShapeInv /\ ProtocolInv /\ WayInv)'
  BY NextProtocol, NextWay
<1>3. QED
  BY <1>1, <1>2, PTL DEF Spec

\* The server answers in the order in which it was asked, and a file that isend reports
\* as sent is stored whole, unless the connection broke or the file changed while it
\* was read (src/src/client.cpp, src/src/datareceiver.cpp).
THEOREM SentIsStored == Spec => []FinishedIsStored
<1>1. ShapeInv /\ ProtocolInv => FinishedIsStored
  <2> SUFFICES ASSUME ShapeInv, ProtocolInv, NEW c \in DOMAIN net, NEW n \in DOMAIN handled[c]
               PROVE  /\ n <= Len(sent[c]) /\ handled[c][n].name = sent[c][n].name
                      /\ sent[c][n].outcome = "FINISHED" /\ ~sent[c][n].changed
                             /\ net[c].up # "cut" => handled[c][n].outcome = "FINISHED"
                      /\ sent[c][n].outcome = "FINISHED" => ~pathIsUnsafe(sent[c][n].name)
    BY DEF FinishedIsStored
  <2>1. CountInv(c) /\ StoredInv(c)
    BY DEF ProtocolInv
  <2>2. /\ Len(handled[c]) \in Nat /\ Len(sent[c]) \in Nat /\ DOMAIN sent[c] = 1..Len(sent[c])
        /\ n \in 1..Len(handled[c])
    BY LengthsAreNat, SeqFacts DEF ShapeInv, ConnectionOK
  <2>3. n \in 1..Served(c) /\ n <= Len(sent[c]) /\ n \in DOMAIN sent[c]
    BY <2>1, <2>2 DEF Served, CountInv
  <2>4. sent[c][n].outcome = "FINISHED" => Told(c, n)
    BY DEF Told
  <2>5. QED
    BY <2>1, <2>3, <2>4 DEF CountInv, StoredInv
<1>2. QED
  BY <1>1, Invariants, PTL

\* The target named last is the one the property speaks of.
LEMMA NamedLastIsMax ==
    ASSUME NEW a \in Nat, NEW k, NamedLast(k, a)
    PROVE  Max({m \in 1..a : args[m].opt = "-t"}) = k
<1> DEFINE S == {m \in 1..a : args[m].opt = "-t"}
<1>1. k \in S /\ \A m \in S : k >= m
  BY DEF NamedLast
<1>2. S \subseteq Nat
  OBVIOUS
<1> HIDE DEF S
<1>3. Max(S) \in S /\ \A m \in S : Max(S) >= m
  BY <1>1 DEF Max
<1>4. Max(S) = k
  <2>1. Max(S) \in Nat /\ k \in Nat
    BY <1>1, <1>2, <1>3
  <2>2. Max(S) >= k /\ k >= Max(S)
    BY <1>1, <1>3
  <2>3. QED
    BY <2>1, <2>2
<1>5. QED
  BY <1>4 DEF S

\* Each file goes to the target named last before it, also when a target between them
\* could not be reached (the loop over the arguments of src/src/client.cpp).
THEOREM GoesToTarget == Spec => []ToTargetNamedLast
<1>1. WayInv => ToTargetNamedLast
  <2> SUFFICES ASSUME WayInv, NEW c \in DOMAIN net, NEW n \in DOMAIN sent[c]
               PROVE  net[c].target = args[Max({k \in 1..sent[c][n].arg : args[k].opt = "-t"})].val
    BY DEF ToTargetNamedLast
  <2>1. PICK a : a = sent[c][n].arg
    OBVIOUS
  <2>2. /\ a \in Nat
        /\ \E k \in 1..a : NamedLast(k, a) /\ net[c].target = args[k].val
    <3>1. Len(args) \in Nat
      BY ClientOK DEF WayInv
    <3>2. QED
      BY <2>1, <3>1 DEF WayInv, GoesThere
  <2>3. PICK k \in 1..a : NamedLast(k, a) /\ net[c].target = args[k].val
    BY <2>2
  <2>4. Max({m \in 1..a : args[m].opt = "-t"}) = k
    BY <2>2, <2>3, NamedLastIsMax
  <2>5. QED
    BY <2>1, <2>3, <2>4
<1>2. QED
  BY <1>1, Invariants, PTL

-----------------------------------------------------------------------------
(* The reporter of a file.                                                 *)

Sending == {"send", "request", "reply", "torn", "data", "finished", "join"}
Walking == {"arg", "entry", "next"}
Passed == {"posted", "deleted"}

\* The reporter runs on until send asks it to stop, and send ends only after it has
\* passed its last broadcast.
ReporterInv ==
    /\ cpc \in Sending \cup {"wait", "end", "stuck"} \cup Walking \cup {"unwind", "exit"}
    /\ cpc \in Sending => running = TRUE /\ reporter \in {"test", "update"} /\ sem = 0
    /\ cpc = "wait" => running = FALSE /\ (sem > 0 => reporter \in Passed)
    /\ cpc \in Sending \cup {"wait"} => file # None /\ shown # "end"
    /\ cpc \in {"end", "stuck"} => reporter \in Passed
    /\ cpc \in Walking => reporter \in Passed \cup {"none"}
    /\ cpc \in Walking /\ shown = "end" => reporter # "none"

\* The steps of main: a reporter is started after the one before has passed.
LEMMA MainReporter ==
    ASSUME ShapeInv, ShapeInv', ReporterInv, Main
    PROVE  ReporterInv'
<1>0. cpc' \in HasFile => file' # None
  BY ClientOK DEF ShapeInv, FileReaders
<1>1. CASE \/ FindWay \/ NoWay \/ SendArgument \/ NoTarget \/ Skip \/ OpenDir \/ EndOfDir
           \/ \E name \in Last(dirs).rest : NextEntry(name)
  <2>1. UNCHANGED <<reporter, shown>> /\ cpc \in Walking /\ cpc' \in Walking
    BY <1>1 DEF FindWay, NoWay, SendArgument, NoTarget, Skip, OpenDir, EndOfDir, NextEntry,
                Option, thread, Walking
  <2>2. QED
    BY <2>1 DEF ReporterInv, Walking, Sending
<1>2. CASE \/ EndOfLine \/ Return \/ OpenFails \/ RequestFails \/ NotAccepted \/ DataFails
  <2>1. cpc' \in {"exit", "unwind"}
    BY <1>2 DEF EndOfLine, Return, OpenFails, RequestFails, NotAccepted, DataFails, Throw, Exit
  <2>2. QED
    BY <2>1 DEF ReporterInv, Walking, Sending
<1>3. CASE OpenFile
  BY <1>0, <1>3 DEF OpenFile, ReporterInv, Walking, Sending, HasFile
<1>4. CASE SendUpdate \/ SendRequest \/ Accepted \/ SendData \/ SendFinished
  <2>1. UNCHANGED <<reporter, running, sem>> /\ cpc \in Sending /\ cpc' \in Sending \ {"torn"}
        /\ (shown' = shown \/ shown' = "update")
    BY <1>4 DEF SendUpdate, SendRequest, Accepted, SendData, SendFinished, thread, Sending
  <2>2. file' # None
    BY <1>0, <2>1 DEF HasFile, Sending
  <2>3. QED
    BY <2>1, <2>2 DEF ReporterInv, Walking, Sending
<1>5. CASE JoinAsks
  <2>1. sem' = 0 /\ ~(0 > 0)
    BY <1>5 DEF JoinAsks, ReporterInv, Sending
  <2>2. file' # None /\ shown' # "end"
    BY <1>5 DEF JoinAsks, ReporterInv, Sending
  <2>3. cpc' = "wait" /\ running' = FALSE
    BY <1>5 DEF JoinAsks
  <2>4. QED
    BY <2>1, <2>2, <2>3 DEF ReporterInv, Walking, Sending
<1>6. CASE JoinWaits \/ JoinFreed
  <2>1. UNCHANGED <<reporter, shown>> /\ cpc' \in {"end", "stuck", "exit"} /\ reporter \in Passed
    BY <1>6 DEF JoinWaits, JoinFreed, Exit, ReporterInv, thread, Passed
  <2>2. QED
    BY <2>1 DEF ReporterInv, Walking, Sending
<1>7. CASE SendEnds
  <2>1. reporter' \in Passed /\ cpc' = "next"
    BY <1>7 DEF SendEnds, ReporterInv, thread
  <2>2. QED
    BY <2>1 DEF ReporterInv, Walking, Sending, Passed
<1>8. CASE AnswerTorn
  <2>1. UNCHANGED <<file, reporter, running, sem, shown>> /\ cpc = "reply" /\ cpc' = "torn"
    BY <1>8 DEF AnswerTorn, thread
  <2> QED BY <2>1 DEF ReporterInv, Walking, Sending
<1>9. QED
  BY <1>1, <1>2, <1>3, <1>4, <1>5, <1>6, <1>7, <1>8 DEF Main

\* The steps of the reporter itself.
LEMMA ThreadReporter ==
    ASSUME ReporterInv, cpc # "exit", Reporter
    PROVE  ReporterInv'
<1>1. CASE ReporterTests
  <2>1. UNCHANGED <<cpc, file, running, sem, shown>> /\ reporter = "test"
        /\ reporter' = IF running THEN "update" ELSE "post"
    BY <1>1 DEF ReporterTests
  <2>2. cpc \notin Walking /\ cpc \notin {"end", "stuck"}
    BY <2>1 DEF ReporterInv, Passed
  <2>3. cpc = "wait" => ~(sem > 0)
    BY <2>1 DEF ReporterInv, Passed
  <2>4. cpc \in Sending => reporter' = "update"
    BY <2>1 DEF ReporterInv
  <2>5. QED
    BY <2>1, <2>2, <2>3, <2>4 DEF ReporterInv
<1>2. CASE ReporterUpdates \/ ReporterTouchesFreed
  <2>1. reporter = "update" /\ UNCHANGED <<file, running, sem>>
        /\ (shown' = shown \/ shown' = "update")
        /\ (cpc' = "exit" \/ (cpc' = cpc /\ reporter' = "test"))
    BY <1>2 DEF ReporterUpdates, ReporterTouchesFreed, Exit
  <2>2. cpc \notin Walking /\ cpc \notin {"end", "stuck"}
    BY <2>1 DEF ReporterInv, Passed
  <2>3. cpc = "wait" => ~(sem > 0)
    BY <2>1 DEF ReporterInv, Passed
  <2>4. CASE cpc' = "exit"
    BY <2>4 DEF ReporterInv, Walking, Sending
  <2>5. CASE cpc' = cpc /\ reporter' = "test"
    BY <2>1, <2>2, <2>3, <2>5 DEF ReporterInv
  <2>6. QED
    BY <2>1, <2>4, <2>5
<1>3. CASE ReporterPosts \/ ReporterDeletesItself
  <2>1. reporter' \in Passed /\ UNCHANGED <<cpc, file, running, shown>>
        /\ reporter \in {"post", "posted"}
    BY <1>3 DEF ReporterPosts, ReporterDeletesItself, Passed
  <2>2. cpc \notin Sending
    BY <2>1 DEF ReporterInv
  <2>3. QED
    BY <2>1, <2>2 DEF ReporterInv, Passed
<1>4. QED
  BY <1>1, <1>2, <1>3 DEF Reporter

\* Servers and the network do not touch the reporter.
LEMMA NextReporter ==
    ASSUME ShapeInv, ShapeInv', ReporterInv, [Next]_vars
    PROVE  ReporterInv'
<1>1. CASE Main
  BY <1>1, MainReporter
<1>2. CASE cpc # "exit" /\ Reporter
  BY <1>2, ThreadReporter
<1>3. CASE UNCHANGED <<cpc, file, reporter, running, sem, shown>>
  BY <1>3 DEF ReporterInv
<1>4. ASSUME \/ \E c \in DOMAIN net : Server(c) \/ Break(c)
             \/ \E n \in {len - 1, len + 1} : FileChanges(n)
             \/ UNCHANGED vars
      PROVE  UNCHANGED <<cpc, file, reporter, running, sem, shown>>
  BY <1>4 DEF Server, Reject, Accept, Refuse, Hang, ReceiveData, ReceiveFinished, Disconnected,
              Break, FileChanges, thread, vars
<1>5. QED
  BY <1>1, <1>2, <1>3, <1>4 DEF Next

\* As long as no exception leaves send, the reporter broadcasts only about a FileReader
\* that exists, and nothing is heard of a file after its end (StatusReporter of
\* src/src/client.cpp).
THEOREM ReporterNeverOutlives == Spec => []ReporterHasFile
<1>1. Init => ReporterInv
  BY DEF Init, ReporterInv, Sending, Walking, Passed
<1>2. ShapeInv /\ ShapeInv' /\ ReporterInv /\ [Next]_vars => ReporterInv'
  BY NextReporter
<1>3. Spec => []ShapeInv
  BY Invariants, PTL
<1>4. ShapeInv /\ ReporterInv => ReporterHasFile
  <2> SUFFICES ASSUME ShapeInv, ReporterInv, cpc \notin {"unwind", "exit"}
               PROVE  /\ reporter = "update" => file # None
                      /\ shown = "end" => reporter \in {"posted", "deleted"}
    BY DEF ReporterHasFile
  <2>1. CASE cpc \in Sending \cup {"wait"}
    BY <2>1 DEF ReporterInv
  <2>2. CASE cpc \in {"end", "stuck"}
    BY <2>2 DEF ReporterInv, Passed
  <2>3. CASE cpc \in Walking
    BY <2>3 DEF ReporterInv, Passed
  <2>4. QED
    BY <2>1, <2>2, <2>3 DEF ReporterInv
<1>5. QED
  BY <1>1, <1>2, <1>3, <1>4, PTL DEF Spec
=============================================================================
