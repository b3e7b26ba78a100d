-------------------------- MODULE TransportProofs ---------------------------
(***************************************************************************)
(* What holds of every connection, for any plugins, sizes and bounds: a    *)
(* sendData that answers 1 has given the whole message away, what comes    *)
(* out is what was sent, a connection implements Channel, and descriptors  *)
(* do not outlive their owners.                                            *)
(***************************************************************************)
EXTENDS Transport, TLAPS

-----------------------------------------------------------------------------
(* Messages.                                                               *)

\* The connection counts for sendData: ip4tcps does not notice its end.
Counts == Tls => conn = "up"

\* The bytes given away and those missing make up the message; nothing is sent
\* before there is a connection, a connection that has ended stays so, and none is up
\* after an error.
SendInv ==
    /\ {size, left, given} \subseteq Nat
    /\ answers \in Seq([size : Nat, answer : {0, 1}, given : Nat])
    /\ spc = "header" => given = 0 /\ left = size
    /\ spc = "body" /\ Counts => given + left = size
    /\ conn = "none" => spc = "idle" /\ answers = <<>>
    /\ conn = "up" => \A m \in DOMAIN answers : answers[m].answer = 1
    /\ client \in {"new", "handshake"} => conn = "none"

MessageInv == SendInv /\ SuccessIsWhole

\* At first there is no connection and no message.
LEMMA MessageInit == Init => MessageInv
BY DEF Init, MessageInv, SendInv, Counts, SuccessIsWhole

\* What sendData answers is added to the answers; only an answer of 1 needs that
\* the message was given away.
LEMMA AnswerKeepsMessages ==
    ASSUME MessageInv, NEW a \in {0, 1}, Answers(a), conn # "none",
           a = 1 /\ Counts => given = size, conn = "up" => a = 1
    PROVE  MessageInv'
<1> DEFINE rec == [size |-> size, answer |-> a, given |-> given]
<1>1. /\ answers' = Append(answers, rec)
      /\ UNCHANGED <<kind, client, conn, size, left, given>> /\ spc' = "idle"
  BY DEF Answers, setup, receiver
<1>2. answers \in Seq([size : Nat, answer : {0, 1}, given : Nat]) /\ {size, left, given} \subseteq Nat
  BY DEF MessageInv, SendInv
<1>3. rec \in [size : Nat, answer : {0, 1}, given : Nat]
  BY <1>2
<1>4. answers' \in Seq([size : Nat, answer : {0, 1}, given : Nat])
  BY <1>1, <1>2, <1>3
<1>5. SendInv'
  <2>1. \A m \in DOMAIN answers' : \/ m \in DOMAIN answers /\ answers'[m] = answers[m]
                                   \/ answers'[m] = rec
    BY <1>1, <1>2, <1>3
  <2>2. conn' = "up" => \A m \in DOMAIN answers' : answers'[m].answer = 1
    BY <1>1, <2>1 DEF MessageInv, SendInv
  <2> QED BY <1>1, <1>2, <1>4, <2>2 DEF MessageInv, SendInv, Counts, Tls
<1>6. SuccessIsWhole'
  <2> SUFFICES ASSUME NEW m \in DOMAIN answers', answers'[m].answer = 1, Counts
               PROVE  answers'[m].given = answers'[m].size
    BY <1>1 DEF SuccessIsWhole, Counts, Tls
  <2>1. CASE m = Len(answers) + 1
    BY <2>1, <1>1, <1>2, <1>3
  <2>2. CASE m \in DOMAIN answers
    <3>1. answers'[m] = answers[m]
      BY <2>2, <1>1, <1>2
    <3> QED BY <2>2, <3>1 DEF MessageInv, SuccessIsWhole, Counts
  <2> QED BY <2>1, <2>2, <1>1, <1>2
<1> QED BY <1>5, <1>6 DEF MessageInv

\* A step that leaves sendData alone may only end the connection or make it.
LEMMA OthersKeepMessages ==
    ASSUME MessageInv, UNCHANGED <<kind, sender>>,
           conn' = "none" => conn = "none",
           conn' = "up" => conn \in {"none", "up"},
           client' \in {"new", "handshake"} => conn' = "none"
    PROVE  MessageInv'
<1>1. UNCHANGED <<spc, size, left, given, answers, kind>>
  BY DEF sender
<1>2. SendInv'
  BY <1>1 DEF MessageInv, SendInv, Counts, Tls
<1>3. SuccessIsWhole'
  BY <1>1 DEF MessageInv, SendInv, SuccessIsWhole, Tls
<1> QED BY <1>2, <1>3 DEF MessageInv

\* Every step of the program keeps the balance.
LEMMA MessageStep == MessageInv /\ [Next]_vars => MessageInv'
<1> USE TransportOK
<1> SUFFICES ASSUME MessageInv, [Next]_vars PROVE MessageInv'
  OBVIOUS
<1>1. CASE UNCHANGED vars
  BY <1>1, OthersKeepMessages DEF vars, setup, MessageInv, SendInv
<1>2. CASE Open
  <2>1. UNCHANGED <<kind, sender>>
    BY <1>2 DEF Open, NewServer, NewServerTls, NewClientFails, Connect, ConnectUnseen,
       Accept, AcceptTls, RefuseTls,
     AcceptUnverified, UseFreed, HandshakeFails
  <2>2. conn' = "none" => conn = "none"
    BY <1>2 DEF Open, NewServer, NewServerTls, NewClientFails, Connect, ConnectUnseen,
       Accept, AcceptTls, RefuseTls,
     AcceptUnverified, UseFreed, HandshakeFails
  <2>3. conn' = "up" => conn \in {"none", "up"}
    BY <1>2 DEF Open, NewServer, NewServerTls, NewClientFails, Connect, ConnectUnseen,
       Accept, AcceptTls, RefuseTls,
     AcceptUnverified, UseFreed, HandshakeFails, MessageInv, SendInv
  <2>4. client' \in {"new", "handshake"} => conn' = "none"
    BY <1>2 DEF Open, NewServer, NewServerTls, NewClientFails, Connect, ConnectUnseen,
       Accept, AcceptTls, RefuseTls,
     AcceptUnverified, UseFreed, HandshakeFails, MessageInv, SendInv
  <2> QED BY <2>1, <2>2, <2>3, <2>4, OthersKeepMessages
<1>3. CASE Cut \/ Close
  BY <1>3, OthersKeepMessages DEF Cut, Close, setup, MessageInv, SendInv
<1>4. CASE Receive
  BY <1>4, OthersKeepMessages DEF Receive, RecvCall, RecvHeader, RecvHeaderFails,
     RecvHeaderShort, RecvBody, RecvBodyFails, RecvDone, setup, MessageInv, SendInv
<1>5. ASSUME NEW n \in Sizes, SendCall(n) PROVE MessageInv'
  BY <1>5 DEF SendCall, setup, receiver, MessageInv, SendInv, SuccessIsWhole, Counts, Tls
<1>6. CASE Send
  <2>1. CASE SendHeader \/ SendHeaderIgnored
    BY <2>1 DEF SendHeader, SendHeaderIgnored, setup, MessageInv, SendInv, SuccessIsWhole, Counts, Tls
  <2>2. CASE SendHeaderTls
    <3>1. CASE Answers(0)
      BY <2>2, <3>1, AnswerKeepsMessages DEF SendHeaderTls
    <3>2. CASE ~Answers(0)
      BY <2>2, <3>2 DEF SendHeaderTls, setup, MessageInv, SendInv, SuccessIsWhole, Counts, Tls
    <3> QED BY <3>1, <3>2
  <2>3. ASSUME NEW k \in 1..Modulus, SendBody(k) PROVE MessageInv'
    <3>1. /\ conn = "up" /\ spc = "body" /\ k \in Nat /\ k <= left
          /\ left' = left - k /\ given' = given + k
          /\ UNCHANGED <<kind, client, conn, spc, size, answers>>
      BY <2>3 DEF SendBody, setup, MessageInv, SendInv
    <3>a. size \in Nat /\ left \in Nat /\ given \in Nat /\ given + left = size
      BY <3>1 DEF MessageInv, SendInv, Counts
    <3>b. left' \in Nat /\ given' \in Nat /\ given' + left' = size'
      BY <3>1, <3>a
    <3>2. SendInv'
      BY <3>1, <3>a, <3>b DEF MessageInv, SendInv
    <3>3. SuccessIsWhole'
      BY <3>1 DEF MessageInv, SuccessIsWhole, Tls
    <3> QED BY <3>2, <3>3 DEF MessageInv
  <2>4. CASE SendBodyFails
    BY <2>4, AnswerKeepsMessages DEF SendBodyFails
  <2>5. CASE SendBodyTls
    <3>1. CASE Answers(0)
      BY <2>5, <3>1, AnswerKeepsMessages DEF SendBodyTls
    <3>2. CASE ~Answers(0)
      BY <2>5, <3>2 DEF SendBodyTls, setup, MessageInv, SendInv, SuccessIsWhole, Counts, Tls
    <3> QED BY <3>1, <3>2
  <2>6. CASE SendDone
    BY <2>6, AnswerKeepsMessages DEF SendDone, MessageInv, SendInv
  <2> QED BY <1>6, <2>1, <2>2, <2>3, <2>4, <2>5, <2>6 DEF Send
<1> QED BY <1>1, <1>2, <1>3, <1>4, <1>5, <1>6 DEF Next

\* sendData tells the truth: the property SuccessIsWhole of the run "transport".
THEOREM SuccessIsTrue == Spec => []SuccessIsWhole
<1>1. MessageInv => SuccessIsWhole
  BY DEF MessageInv
<1> QED BY MessageInit, MessageStep, <1>1, PTL DEF Spec

-----------------------------------------------------------------------------
(* What is received.                                                       *)

\* How many messages have begun to be sent, if the connection was up, and their sizes.
Sent == IF spc = "body" THEN Message ELSE Len(answers)
SizeOf(m) == IF m = Message THEN size ELSE answers[m].size

\* A unit of the stream is a place <<m, i>>: byte i of message m, or its size for i = 0.
\* The places where the sender goes on and where the receiver does.
SenderAt(m, i) ==
    IF spc # "body" THEN m = Message /\ i = 0
    ELSE IF left > 0 THEN m = Message /\ i = given + 1
    ELSE m = Message + 1 /\ i = 0

ReceiverAt(m, i) ==
    LET r == Len(received) + 1 IN
    IF rpc # "body" THEN m = r /\ i = 0
    ELSE IF torecv > 0 THEN m = r /\ i = Len(data) + 1
    ELSE m = r + 1 /\ i = 0

\* The units in the stream follow one another, message after message: as far as the message
\* of unit j reaches, unit l is l - j bytes further; behind its last byte the next begins.
Placed(msg, idx) ==
    \A j \in 1 .. Len(stream) :
        /\ msg[j] \in 1 .. Sent /\ idx[j] \in 0 .. SizeOf(msg[j])
        /\ stream[j] = IF idx[j] = 0 THEN <<"size", SizeOf(msg[j])>> ELSE <<msg[j], idx[j]>>
        /\ idx[j] = SizeOf(msg[j]) => msg[j + 1] = msg[j] + 1 /\ idx[j + 1] = 0
        /\ \A l \in j .. (Len(stream) + 1) :
               idx[j] + (l - j) <= SizeOf(msg[j]) => msg[l] = msg[j] /\ idx[l] = idx[j] + (l - j)

\* Message k has not begun to be sent behind the sender's place, nor behind a message
\* that could not be sent.
Within(k) ==
    /\ k <= Message + 1
    /\ ~(spc = "body" /\ left = 0) => k <= Message
    /\ \A m \in DOMAIN answers : answers[m].answer = 0 => k <= m

\* The stream reaches from the receiver's place to the sender's; the latter matters as long
\* as something can be sent, the former as long as something is received.
StreamInv ==
    \E msg, idx \in [1 .. (Len(stream) + 1) -> Nat] :
        /\ Placed(msg, idx)
        /\ \A j \in 1 .. (Len(stream) + 1) : Within(msg[j])
        /\ conn \in {"none", "up"} => SenderAt(msg[Len(stream) + 1], idx[Len(stream) + 1])
        /\ rpc # "end" => ReceiverAt(msg[1], idx[1])

Units == ({"size"} \cup Nat) \X Nat

\* The bytes received so far are the first ones of their message, and were sent.
ReceivedInv ==
    /\ stream \in Seq(Units) /\ data \in Seq(Units) /\ received \in Seq(Seq(Units))
    /\ torecv \in Nat
    /\ Len(received) <= Sent
    /\ rpc = "header" => data = <<>>
    /\ rpc = "body" =>
           LET r == Len(received) + 1 IN
           /\ r <= Sent
           /\ Len(data) + torecv = SizeOf(r)
           /\ \A i \in DOMAIN data : data[i] = <<r, i>>

\* What was received are the first messages that were sent, whole.
AsSent ==
    \A m \in DOMAIN received :
        /\ \A i \in DOMAIN received[m] : received[m][i] = <<m, i>>
        /\ Len(received[m]) = IF m = Message THEN size ELSE answers[m].size

InStep == SendInv /\ ReceivedInv /\ StreamInv /\ AsSent

\* A message that does not fit has been received or is being received.
Strayed == \E k \in 1 .. Sent : k <= Len(received) + 1 /\ SizeOf(k) > RecvRoom

ReceivedTypes ==
    /\ stream \in Seq(Units) /\ data \in Seq(Units) /\ received \in Seq(Seq(Units))
    /\ torecv \in Nat

\* The messages received before one that does not fit are as they were sent.
FirstAsSent ==
    \A m \in DOMAIN received :
        \/ \E k \in 1 .. Sent : k <= m /\ SizeOf(k) > RecvRoom
        \/ /\ m \in 1 .. Sent /\ Len(received[m]) = SizeOf(m)
           /\ \A i \in DOMAIN received[m] : received[m][i] = <<m, i>>

DeliverInv ==
    /\ SendInv /\ ReceivedTypes /\ FirstAsSent
    /\ IF astray THEN Strayed ELSE ReceivedInv /\ StreamInv /\ AsSent

\* The messages that have begun to be sent have sizes.
LEMMA SizesAreNumbers ==
    ASSUME SendInv
    PROVE  Sent \in Nat /\ \A m \in 1 .. Sent : SizeOf(m) \in Nat
<1>1. answers \in Seq([size : Nat, answer : {0, 1}, given : Nat]) /\ size \in Nat
  BY DEF SendInv
<1>2. \A m \in DOMAIN answers : answers[m].size \in Nat
  <2> DEFINE Record == [size : Nat, answer : {0, 1}, given : Nat]
  <2>1. \A r \in Record : r.size \in Nat
    OBVIOUS
  <2>2. answers \in Seq(Record)
    BY <1>1
  <2> HIDE DEF Record
  <2>3. \A m \in DOMAIN answers : answers[m] \in Record
    BY <2>2
  <2> QED BY <2>1, <2>3
<1>3. Sent \in Nat /\ \A m \in 1 .. Sent : m = Message \/ m \in DOMAIN answers
  BY <1>1 DEF Sent, Message
<1> QED BY <1>1, <1>2, <1>3 DEF SizeOf

\* What sendData answers changes no size.
LEMMA AnswersKeepSizes ==
    ASSUME SendInv, NEW a, Answers(a)
    PROVE  Sent' \in Nat /\ Sent <= Sent' /\ \A m \in 1 .. Sent : SizeOf(m)' = SizeOf(m)
<1> DEFINE rec == [size |-> size, answer |-> a, given |-> given]
<1>1. answers \in Seq([size : Nat, answer : {0, 1}, given : Nat])
  BY DEF SendInv
<1>2. answers' = Append(answers, rec) /\ size' = size /\ spc' = "idle"
  BY DEF Answers
<1>3. Len(answers) \in Nat /\ Len(answers') = Len(answers) + 1
  BY <1>1, <1>2
<1>4. \A m \in 1 .. Len(answers) : answers'[m] = answers[m]
  BY <1>1, <1>2
<1>5. answers'[Len(answers) + 1] = rec
  BY <1>1, <1>2
<1>6. rec.size = size
  OBVIOUS
<1> HIDE DEF rec
<1>7. Sent' \in Nat /\ Sent <= Sent' /\ Sent \in {Len(answers), Len(answers) + 1}
  BY <1>2, <1>3 DEF Sent, Message
<1>8. \A m \in 1 .. Sent : SizeOf(m)' = SizeOf(m)
  BY <1>2, <1>3, <1>4, <1>5, <1>6, <1>7 DEF SizeOf, Message
<1> QED BY <1>7, <1>8

\* No step takes back a message that has begun or gives it another size: sendData is called
\* again only after it has answered.
LEMMA SizesStay ==
    ASSUME SendInv, [Next]_vars
    PROVE  Sent' \in Nat /\ Sent <= Sent' /\ \A m \in 1 .. Sent : SizeOf(m)' = SizeOf(m)
<1>1. answers \in Seq([size : Nat, answer : {0, 1}, given : Nat]) /\ Len(answers) \in Nat
  BY DEF SendInv
<1>2. ASSUME UNCHANGED <<spc, size, answers>>
      PROVE  Sent' \in Nat /\ Sent <= Sent' /\ \A m \in 1 .. Sent : SizeOf(m)' = SizeOf(m)
  BY <1>1, <1>2 DEF Sent, SizeOf, Message
<1>3. ASSUME UNCHANGED <<size, answers>>, spc = "header", spc' = "body"
      PROVE  Sent' \in Nat /\ Sent <= Sent' /\ \A m \in 1 .. Sent : SizeOf(m)' = SizeOf(m)
  BY <1>1, <1>3 DEF Sent, SizeOf, Message
<1>4. CASE Open \/ Cut \/ Close \/ Receive \/ UNCHANGED vars
  BY <1>2, <1>4 DEF Open, NewServer, NewServerTls, NewClientFails, Connect, ConnectUnseen,
     Accept, AcceptTls, RefuseTls,
     AcceptUnverified, UseFreed, HandshakeFails, Cut, Close, Receive, RecvCall, RecvHeader,
     RecvHeaderFails, RecvHeaderShort, RecvBody, RecvBodyFails, RecvDone, sender, vars
<1>5. ASSUME NEW n \in Sizes, SendCall(n)
      PROVE  Sent' \in Nat /\ Sent <= Sent' /\ \A m \in 1 .. Sent : SizeOf(m)' = SizeOf(m)
  BY <1>1, <1>5 DEF SendCall, Sent, SizeOf, Message
<1>6. CASE Send
  BY <1>2, <1>3, <1>6, AnswersKeepSizes DEF Send, SendHeader, SendHeaderIgnored, SendHeaderTls,
     SendBody, SendBodyFails, SendBodyTls, SendDone
<1> QED BY <1>4, <1>5, <1>6 DEF Next

\* Sizes and the messages that have begun, as a step may change them.
SizesKept == Sent' \in Nat /\ Sent <= Sent' /\ \A m \in 1 .. Sent : SizeOf(m)' = SizeOf(m)

\* What is left of a stream that is cut off is placed as it was.
LEMMA PlacedStays ==
    ASSUME SendInv, SizesKept, stream \in Seq(Units),
           NEW n \in 0 .. Len(stream), stream' = SubSeq(stream, 1, n),
           NEW msg \in [1 .. (Len(stream) + 1) -> Nat],
           NEW idx \in [1 .. (Len(stream) + 1) -> Nat], Placed(msg, idx)
    PROVE  \E m2, i2 \in [1 .. (Len(stream') + 1) -> Nat] :
              /\ Placed(m2, i2)'
              /\ \A j \in 1 .. (n + 1) : m2[j] = msg[j] /\ i2[j] = idx[j]
<1> PICK m2 : m2 = [j \in 1 .. (n + 1) |-> msg[j]]
  OBVIOUS
<1> PICK i2 : i2 = [j \in 1 .. (n + 1) |-> idx[j]]
  OBVIOUS
<1>1. /\ Len(stream) \in Nat /\ n \in Nat /\ n <= Len(stream) /\ Len(stream') = n
      /\ \A j \in 1 .. n : stream'[j] = stream[j]
  OBVIOUS
<1>2. Sent \in Nat /\ Sent' \in Nat /\ Sent <= Sent' /\ \A m \in 1 .. Sent : SizeOf(m) \in Nat
  BY SizesAreNumbers DEF SizesKept
<1>3. \A m \in 1 .. Sent : SizeOf(m)' = SizeOf(m)
  BY DEF SizesKept
<1>4. /\ m2 \in [1 .. (n + 1) -> Nat] /\ i2 \in [1 .. (n + 1) -> Nat]
      /\ \A j \in 1 .. (n + 1) : m2[j] = msg[j] /\ i2[j] = idx[j]
  <2>1. \A j \in 1 .. (n + 1) : j \in 1 .. (Len(stream) + 1)
    BY <1>1
  <2>2. \A j \in 1 .. (n + 1) : m2[j] = msg[j] /\ i2[j] = idx[j] /\ m2[j] \in Nat /\ i2[j] \in Nat
    BY <2>1
  <2> QED BY <2>2
<1>a. ASSUME NEW j \in 1 .. n
      PROVE  /\ m2[j] \in 1 .. Sent' /\ i2[j] \in 0 .. (SizeOf(m2[j])')
             /\ stream'[j] = IF i2[j] = 0 THEN <<"size", SizeOf(m2[j])'>> ELSE <<m2[j], i2[j]>>
             /\ i2[j] = SizeOf(m2[j])' => m2[j + 1] = m2[j] + 1 /\ i2[j + 1] = 0
             /\ \A l \in j .. (n + 1) :
                    i2[j] + (l - j) <= SizeOf(m2[j])' => m2[l] = m2[j] /\ i2[l] = i2[j] + (l - j)
  <2>1. /\ msg[j] \in 1 .. Sent /\ idx[j] \in 0 .. SizeOf(msg[j])
        /\ stream[j] = IF idx[j] = 0 THEN <<"size", SizeOf(msg[j])>> ELSE <<msg[j], idx[j]>>
        /\ idx[j] = SizeOf(msg[j]) => msg[j + 1] = msg[j] + 1 /\ idx[j + 1] = 0
        /\ \A l \in j .. (Len(stream) + 1) :
               idx[j] + (l - j) <= SizeOf(msg[j]) => msg[l] = msg[j] /\ idx[l] = idx[j] + (l - j)
    <3>1. j \in 1 .. Len(stream)
      BY <1>1
    <3> QED BY <3>1 DEF Placed
  <2>2. /\ j \in 1 .. (n + 1) /\ j + 1 \in 1 .. (n + 1) /\ m2[j] = msg[j] /\ i2[j] = idx[j]
        /\ SizeOf(m2[j])' = SizeOf(msg[j])
    <3>1. j \in 1 .. (n + 1) /\ j + 1 \in 1 .. (n + 1)
      BY <1>1
    <3>2. m2[j] = msg[j] /\ i2[j] = idx[j]
      BY <1>4, <3>1
    <3>3. msg[j] \in 1 .. Sent
      BY <2>1
    <3> QED
      BY <1>3, <3>1, <3>2, <3>3
  <2>3. m2[j] \in 1 .. Sent' /\ i2[j] \in 0 .. (SizeOf(m2[j])')
    BY <1>2, <2>1, <2>2
  <2>4. stream'[j] = IF i2[j] = 0 THEN <<"size", SizeOf(m2[j])'>> ELSE <<m2[j], i2[j]>>
    BY <1>1, <2>1, <2>2
  <2>5. i2[j] = SizeOf(m2[j])' => m2[j + 1] = m2[j] + 1 /\ i2[j + 1] = 0
    BY <1>4, <2>1, <2>2
  <2>6. ASSUME NEW l \in j .. (n + 1), i2[j] + (l - j) <= SizeOf(m2[j])'
        PROVE  m2[l] = m2[j] /\ i2[l] = i2[j] + (l - j)
    <3>1. l \in 1 .. (n + 1) /\ l \in j .. (Len(stream) + 1)
      BY <1>1
    <3> QED BY <1>4, <2>1, <2>2, <2>6, <3>1
  <2> QED BY <2>3, <2>4, <2>5, <2>6
<1>5. Placed(m2, i2)'
  <2> SUFFICES ASSUME NEW j \in 1 .. Len(stream')
      PROVE  /\ m2[j] \in 1 .. Sent' /\ i2[j] \in 0 .. (SizeOf(m2[j])')
             /\ stream'[j] = IF i2[j] = 0 THEN <<"size", SizeOf(m2[j])'>> ELSE <<m2[j], i2[j]>>
             /\ i2[j] = SizeOf(m2[j])' => m2[j + 1] = m2[j] + 1 /\ i2[j + 1] = 0
             /\ \A l \in j .. (Len(stream') + 1) :
                    i2[j] + (l - j) <= SizeOf(m2[j])' => m2[l] = m2[j] /\ i2[l] = i2[j] + (l - j)
    BY Zenon DEF Placed
  <2>1. j \in 1 .. n /\ Len(stream') + 1 = n + 1
    BY <1>1
  <2> QED BY <1>a, <2>1
<1>6. m2 \in [1 .. (Len(stream') + 1) -> Nat] /\ i2 \in [1 .. (Len(stream') + 1) -> Nat]
  BY <1>1, <1>4
<1>7. \A j \in 1 .. (n + 1) : m2[j] = msg[j] /\ i2[j] = idx[j]
  BY <1>4
<1> QED BY <1>1, <1>5, <1>6, <1>7

\* So is what is left behind the units that are received.
LEMMA PlacedShifts ==
    ASSUME SendInv, SizesKept, stream \in Seq(Units),
           NEW k \in 1 .. Len(stream), stream' = SubSeq(stream, k + 1, Len(stream)),
           NEW msg \in [1 .. (Len(stream) + 1) -> Nat],
           NEW idx \in [1 .. (Len(stream) + 1) -> Nat], Placed(msg, idx)
    PROVE  \E m2, i2 \in [1 .. (Len(stream') + 1) -> Nat] :
              /\ Placed(m2, i2)'
              /\ Len(stream') = Len(stream) - k
              /\ \A j \in 1 .. (Len(stream) - k + 1) : m2[j] = msg[j + k] /\ i2[j] = idx[j + k]
<1> PICK m2 : m2 = [j \in 1 .. (Len(stream) - k + 1) |-> msg[j + k]]
  OBVIOUS
<1> PICK i2 : i2 = [j \in 1 .. (Len(stream) - k + 1) |-> idx[j + k]]
  OBVIOUS
<1> DEFINE n == Len(stream) - k
<1>1. Len(stream) \in Nat /\ n \in Nat /\ Len(stream') = n /\ \A j \in 1 .. n : stream'[j] = stream[j + k]
  OBVIOUS
<1>2. Sent \in Nat /\ Sent' \in Nat /\ Sent <= Sent' /\ \A m \in 1 .. Sent : SizeOf(m) \in Nat
  BY SizesAreNumbers DEF SizesKept
<1>3. \A m \in 1 .. Sent : SizeOf(m)' = SizeOf(m)
  BY DEF SizesKept
<1>4. /\ m2 \in [1 .. (n + 1) -> Nat] /\ i2 \in [1 .. (n + 1) -> Nat]
      /\ \A j \in 1 .. (n + 1) : m2[j] = msg[j + k] /\ i2[j] = idx[j + k]
  <2>1. n + 1 = Len(stream) - k + 1 /\ \A j \in 1 .. (n + 1) : j + k \in 1 .. (Len(stream) + 1)
    BY <1>1
  <2>2. \A j \in 1 .. (n + 1) : msg[j + k] \in Nat /\ idx[j + k] \in Nat
    BY <2>1
  <2> QED
    BY <2>1, <2>2
<1>a. ASSUME NEW j \in 1 .. n
      PROVE  /\ m2[j] \in 1 .. Sent' /\ i2[j] \in 0 .. (SizeOf(m2[j])')
             /\ stream'[j] = IF i2[j] = 0 THEN <<"size", SizeOf(m2[j])'>> ELSE <<m2[j], i2[j]>>
             /\ i2[j] = SizeOf(m2[j])' => m2[j + 1] = m2[j] + 1 /\ i2[j + 1] = 0
             /\ \A l \in j .. (n + 1) :
                    i2[j] + (l - j) <= SizeOf(m2[j])' => m2[l] = m2[j] /\ i2[l] = i2[j] + (l - j)
  <2>1. /\ msg[j + k] \in 1 .. Sent /\ idx[j + k] \in 0 .. SizeOf(msg[j + k])
        /\ stream[j + k] = IF idx[j + k] = 0 THEN <<"size", SizeOf(msg[j + k])>>
                                             ELSE <<msg[j + k], idx[j + k]>>
        /\ idx[j + k] = SizeOf(msg[j + k]) => msg[j + k + 1] = msg[j + k] + 1 /\ idx[j + k + 1] = 0
        /\ \A l \in (j + k) .. (Len(stream) + 1) :
               idx[j + k] + (l - (j + k)) <= SizeOf(msg[j + k]) =>
                   msg[l] = msg[j + k] /\ idx[l] = idx[j + k] + (l - (j + k))
    <3>1. j + k \in 1 .. Len(stream)
      BY <1>1
    <3> QED BY <3>1 DEF Placed
  <2>2. /\ j \in 1 .. (n + 1) /\ j + 1 \in 1 .. (n + 1) /\ m2[j] = msg[j + k] /\ i2[j] = idx[j + k]
        /\ SizeOf(m2[j])' = SizeOf(msg[j + k])
    <3>1. j \in 1 .. (n + 1) /\ j + 1 \in 1 .. (n + 1)
      BY <1>1
    <3>2. m2[j] = msg[j + k] /\ i2[j] = idx[j + k]
      BY <1>4, <3>1
    <3>3. msg[j + k] \in 1 .. Sent
      BY <2>1
    <3> QED
      BY <1>3, <3>1, <3>2, <3>3
  <2>3. m2[j] \in 1 .. Sent' /\ i2[j] \in 0 .. (SizeOf(m2[j])')
    BY <1>2, <2>1, <2>2
  <2>4. stream'[j] = IF i2[j] = 0 THEN <<"size", SizeOf(m2[j])'>> ELSE <<m2[j], i2[j]>>
    BY <1>1, <2>1, <2>2
  <2>5. i2[j] = SizeOf(m2[j])' => m2[j + 1] = m2[j] + 1 /\ i2[j + 1] = 0
    <3>1. j + 1 + k = j + k + 1
      OBVIOUS
    <3> QED BY <1>4, <2>1, <2>2, <3>1
  <2>6. ASSUME NEW l \in j .. (n + 1), i2[j] + (l - j) <= SizeOf(m2[j])'
        PROVE  m2[l] = m2[j] /\ i2[l] = i2[j] + (l - j)
    <3>1. l \in 1 .. (n + 1) /\ l + k \in (j + k) .. (Len(stream) + 1)
      BY <1>1, SMTT(30)
    <3>2. (l + k) - (j + k) = l - j
      BY <1>1
    <3>3. m2[l] = msg[l + k] /\ i2[l] = idx[l + k]
      BY <1>4, <3>1
    <3>4. idx[j + k] + ((l + k) - (j + k)) <= SizeOf(msg[j + k])
      BY <2>2, <2>6, <3>2
    <3>5. msg[l + k] = msg[j + k] /\ idx[l + k] = idx[j + k] + ((l + k) - (j + k))
      BY <2>1, <3>1, <3>4
    <3> QED BY <2>2, <3>2, <3>3, <3>5
  <2> QED BY <2>3, <2>4, <2>5, <2>6
<1>5. Placed(m2, i2)'
  <2> SUFFICES ASSUME NEW j \in 1 .. Len(stream')
      PROVE  /\ m2[j] \in 1 .. Sent' /\ i2[j] \in 0 .. (SizeOf(m2[j])')
             /\ stream'[j] = IF i2[j] = 0 THEN <<"size", SizeOf(m2[j])'>> ELSE <<m2[j], i2[j]>>
             /\ i2[j] = SizeOf(m2[j])' => m2[j + 1] = m2[j] + 1 /\ i2[j + 1] = 0
             /\ \A l \in j .. (Len(stream') + 1) :
                    i2[j] + (l - j) <= SizeOf(m2[j])' => m2[l] = m2[j] /\ i2[l] = i2[j] + (l - j)
    BY Zenon DEF Placed
  <2>1. j \in 1 .. n /\ Len(stream') + 1 = n + 1
    BY <1>1
  <2> QED BY <1>a, <2>1
<1>6. m2 \in [1 .. (Len(stream') + 1) -> Nat] /\ i2 \in [1 .. (Len(stream') + 1) -> Nat]
  BY <1>1, <1>4
<1>7. \A j \in 1 .. (Len(stream) - k + 1) : m2[j] = msg[j + k] /\ i2[j] = idx[j + k]
  BY <1>4
<1> QED BY <1>1, <1>5, <1>6, <1>7

\* What a sequence begins and ends with after another was appended.
LEMMA Appended ==
    ASSUME NEW S, NEW a \in Seq(S), NEW b \in Seq(S)
    PROVE  /\ Len(a) \in Nat /\ Len(b) \in Nat /\ Len(a \o b) = Len(a) + Len(b)
           /\ \A j \in 1 .. Len(a) : (a \o b)[j] = a[j]
           /\ \A j \in (Len(a) + 1) .. (Len(a) + Len(b)) : (a \o b)[j] = b[j - Len(a)]
OBVIOUS

\* A step sends k units of message m, of size s, from its unit i on, and places them behind
\* the end e of the stream.
Extends(e, k, m, i, s, msg, idx, m2, i2) ==
    /\ e \in Nat /\ k \in Nat /\ e > 0 /\ k > 0 /\ i \in Nat /\ s \in Nat /\ i + k <= s + 1
    /\ Len(stream) = e - 1 /\ Len(stream') = e + k - 1
    /\ \A j \in 1 .. (e - 1) : stream'[j] = stream[j]
    /\ Placed(msg, idx) /\ msg[e] = m /\ idx[e] = i
    /\ m \in 1 .. Sent' /\ SizeOf(m)' = s
    /\ \A j \in e .. (e + k - 1) :
           stream'[j] = IF i + (j - e) = 0 THEN <<"size", s>> ELSE <<m, i + (j - e)>>
    /\ \A j \in 1 .. e : m2[j] = msg[j] /\ i2[j] = idx[j]
    /\ \A j \in e .. (e + k) :
           IF i + (j - e) <= s THEN m2[j] = m /\ i2[j] = i + (j - e)
                               ELSE m2[j] = m + 1 /\ i2[j] = 0

\* Then all units are placed.
LEMMA ExtensionIsPlaced ==
    ASSUME NEW e, NEW k, NEW m, NEW i, NEW s, NEW msg, NEW idx, NEW m2, NEW i2,
           SendInv, SizesKept, Extends(e, k, m, i, s, msg, idx, m2, i2)
    PROVE  Placed(m2, i2)'
<1>1. /\ e \in Nat /\ k \in Nat /\ e > 0 /\ k > 0 /\ i \in Nat /\ s \in Nat /\ i + k <= s + 1
      /\ Len(stream) = e - 1 /\ Len(stream') = e + k - 1
      /\ \A j \in 1 .. (e - 1) : stream'[j] = stream[j]
      /\ Placed(msg, idx) /\ msg[e] = m /\ idx[e] = i
      /\ m \in 1 .. Sent' /\ SizeOf(m)' = s
      /\ \A j \in e .. (e + k - 1) :
           stream'[j] = IF i + (j - e) = 0 THEN <<"size", s>> ELSE <<m, i + (j - e)>>
      /\ \A j \in 1 .. e : m2[j] = msg[j] /\ i2[j] = idx[j]
      /\ \A j \in e .. (e + k) :
           IF i + (j - e) <= s THEN m2[j] = m /\ i2[j] = i + (j - e)
                               ELSE m2[j] = m + 1 /\ i2[j] = 0
  BY DEF Extends
<1>2. Sent \in Nat /\ Sent' \in Nat /\ Sent <= Sent' /\ \A x \in 1 .. Sent : SizeOf(x) \in Nat
  BY SizesAreNumbers DEF SizesKept
<1>3. \A x \in 1 .. Sent : SizeOf(x)' = SizeOf(x)
  BY DEF SizesKept
<1>4. e \in Nat /\ k \in Nat /\ e > 0 /\ k > 0 /\ i \in Nat /\ s \in Nat /\ i + k <= s + 1
  BY DEF Extends
<1>5. ASSUME NEW j, j \in 1 .. (e + k - 1)
      PROVE  /\ m2[j] \in 1 .. Sent' /\ i2[j] \in 0 .. (SizeOf(m2[j])')
             /\ stream'[j] = IF i2[j] = 0 THEN <<"size", SizeOf(m2[j])'>> ELSE <<m2[j], i2[j]>>
             /\ i2[j] = SizeOf(m2[j])' => m2[j + 1] = m2[j] + 1 /\ i2[j + 1] = 0
             /\ \A l \in j .. (e + k) :
                    i2[j] + (l - j) <= SizeOf(m2[j])' => m2[l] = m2[j] /\ i2[l] = i2[j] + (l - j)
  <2>1. CASE j \in 1 .. (e - 1)
    <3>1. /\ msg[j] \in 1 .. Sent /\ idx[j] \in 0 .. SizeOf(msg[j])
          /\ stream[j] = IF idx[j] = 0 THEN <<"size", SizeOf(msg[j])>> ELSE <<msg[j], idx[j]>>
          /\ idx[j] = SizeOf(msg[j]) => msg[j + 1] = msg[j] + 1 /\ idx[j + 1] = 0
          /\ \A l \in j .. e :
                 idx[j] + (l - j) <= SizeOf(msg[j]) => msg[l] = msg[j] /\ idx[l] = idx[j] + (l - j)
      <4>1. Len(stream) + 1 = e /\ j \in 1 .. Len(stream)
        BY <1>1, <2>1
      <4> QED BY <1>1, <4>1 DEF Placed
    <3>2. j \in Nat /\ j \in 1 .. e /\ j + 1 \in 1 .. e
      BY <1>4, <2>1
    <3>3. m2[j] = msg[j] /\ i2[j] = idx[j] /\ m2[j + 1] = msg[j + 1] /\ i2[j + 1] = idx[j + 1]
      BY <1>1, <3>2
    <3>4. SizeOf(m2[j])' = SizeOf(msg[j]) /\ SizeOf(msg[j]) \in Nat
      BY <1>2, <1>3, <3>1, <3>3
    <3>5. stream'[j] = stream[j]
      BY <1>1, <2>1
    <3>6. m2[j] \in 1 .. Sent' /\ i2[j] \in 0 .. (SizeOf(m2[j])')
      BY <1>2, <3>1, <3>3, <3>4
    <3>7. stream'[j] = IF i2[j] = 0 THEN <<"size", SizeOf(m2[j])'>> ELSE <<m2[j], i2[j]>>
      BY <3>1, <3>3, <3>4, <3>5
    <3>8. i2[j] = SizeOf(m2[j])' => m2[j + 1] = m2[j] + 1 /\ i2[j + 1] = 0
      BY <3>1, <3>3, <3>4
    <3>9. ASSUME NEW l, l \in j .. (e + k), i2[j] + (l - j) <= SizeOf(m2[j])'
          PROVE  m2[l] = m2[j] /\ i2[l] = i2[j] + (l - j)
      <4>1. CASE l <= e
        <5>1. l \in 1 .. e /\ l \in j .. e
          BY <1>4, <3>2, <3>9, <4>1
        <5>2. m2[l] = msg[l] /\ i2[l] = idx[l]
          BY <1>1, <5>1
        <5> QED BY <3>1, <3>3, <3>4, <3>9, <5>1, <5>2
      <4>2. CASE l > e
        <5>1. l \in e .. (e + k) /\ e \in j .. e /\ l \in Nat /\ idx[j] \in Nat
          BY <1>4, <3>1, <3>2, <3>4, <3>9, <4>2
        <5>2. idx[j] + (l - j) <= SizeOf(msg[j])
          BY <3>3, <3>4, <3>9
        <5>3. idx[j] + (e - j) <= SizeOf(msg[j])
          BY <1>4, <3>2, <3>4, <4>2, <5>1, <5>2
        <5>4. msg[e] = msg[j] /\ idx[e] = idx[j] + (e - j)
          BY <3>1, <5>1, <5>3
        <5>5. m = msg[j] /\ i = idx[j] + (e - j)
          BY <1>1, <5>4
        <5>6. SizeOf(msg[j]) = s
          BY <1>1, <1>3, <3>1, <5>5
        <5>7. i + (l - e) = idx[j] + (l - j)
          BY <1>4, <3>2, <5>1, <5>5
        <5>8. i + (l - e) <= s
          BY <5>2, <5>6, <5>7
        <5>9. m2[l] = m /\ i2[l] = i + (l - e)
          BY <1>1, <5>1, <5>8
        <5> QED BY <3>3, <5>5, <5>7, <5>9
      <4> QED BY <4>1, <4>2, <1>4, <3>2, <3>9
    <3> QED BY <3>6, <3>7, <3>8, <3>9
  <2>2. CASE j \in e .. (e + k - 1)
    <3>1. j \in Nat /\ i + (j - e) \in Nat /\ i + (j - e) <= s /\ j \in e .. (e + k) /\ j + 1 \in e .. (e + k)
      BY <1>4, <2>2
    <3>2. m2[j] = m /\ i2[j] = i + (j - e)
      BY <1>1, <3>1
    <3>3. SizeOf(m2[j])' = s /\ m2[j] \in 1 .. Sent'
      BY <1>1, <3>2
    <3>4. i2[j] \in 0 .. (SizeOf(m2[j])')
      BY <1>4, <3>1, <3>2, <3>3
    <3>5. stream'[j] = IF i2[j] = 0 THEN <<"size", SizeOf(m2[j])'>> ELSE <<m2[j], i2[j]>>
      BY <1>1, <2>2, <3>2, <3>3
    <3>6. i2[j] = SizeOf(m2[j])' => m2[j + 1] = m2[j] + 1 /\ i2[j + 1] = 0
      <4>1. i + (j - e) = s => ~(i + ((j + 1) - e) <= s)
        BY <1>4, <3>1
      <4>2. i + (j - e) = s => m2[j + 1] = m + 1 /\ i2[j + 1] = 0
        BY <1>1, <3>1, <4>1
      <4> QED BY <3>2, <3>3, <4>2
    <3>7. ASSUME NEW l, l \in j .. (e + k), i2[j] + (l - j) <= SizeOf(m2[j])'
          PROVE  m2[l] = m2[j] /\ i2[l] = i2[j] + (l - j)
      <4>1. l \in e .. (e + k) /\ i2[j] + (l - j) = i + (l - e)
        BY <1>4, <3>1, <3>2, <3>7
      <4>2. i + (l - e) <= s
        BY <3>3, <3>7, <4>1
      <4>3. m2[l] = m /\ i2[l] = i + (l - e)
        BY <1>1, <4>1, <4>2
      <4> QED BY <3>2, <4>1, <4>3
    <3> QED BY <3>3, <3>4, <3>5, <3>6, <3>7
  <2> QED BY <2>1, <2>2, <1>4, <1>5
<1>b. Len(stream') = e + k - 1
  BY DEF Extends
<1>6. Len(stream') = e + k - 1 /\ Len(stream') + 1 = e + k
  BY <1>4, <1>b
<1> SUFFICES ASSUME NEW j \in 1 .. Len(stream')
             PROVE  /\ m2[j] \in 1 .. Sent' /\ i2[j] \in 0 .. (SizeOf(m2[j])')
                    /\ stream'[j] = IF i2[j] = 0 THEN <<"size", SizeOf(m2[j])'>> ELSE <<m2[j], i2[j]>>
                    /\ i2[j] = SizeOf(m2[j])' => m2[j + 1] = m2[j] + 1 /\ i2[j + 1] = 0
                    /\ \A l \in j .. (Len(stream') + 1) :
                           i2[j] + (l - j) <= SizeOf(m2[j])' => m2[l] = m2[j] /\ i2[l] = i2[j] + (l - j)
  BY Zenon DEF Placed
<1>7. j \in 1 .. (e + k - 1)
  BY <1>6
<1> QED BY <1>5, <1>6, <1>7

\* A step sends the units u of message m, of size s, from the sender's place on.
Appends(u, msg, idx, m, i, s) ==
    /\ u \in Seq(Units) /\ u # <<>> /\ stream' = stream \o u
    /\ msg \in [1 .. (Len(stream) + 1) -> Nat] /\ idx \in [1 .. (Len(stream) + 1) -> Nat]
    /\ Placed(msg, idx)
    /\ m \in 1 .. Sent' /\ i \in Nat /\ s \in Nat /\ SizeOf(m)' = s
    /\ msg[Len(stream) + 1] = m /\ idx[Len(stream) + 1] = i /\ i + Len(u) <= s + 1
    /\ \A j \in 1 .. Len(u) : u[j] = IF i + j = 1 THEN <<"size", s>> ELSE <<m, i + j - 1>>

\* The messages of the places then: m itself, or the next if m ends there.
Reaches(m2, msg, u, m, i, s) ==
    \A j \in 1 .. (Len(stream') + 1) :
        \/ j \in 1 .. (Len(stream) + 1) /\ m2[j] = msg[j]
        \/ m2[j] = m
        \/ m2[j] = m + 1 /\ i + Len(u) > s

\* The sender's place is behind what it sends, and the receiver's place stays.
PlacedBehind(m2, i2, msg, idx, u, m, i, s) ==
    /\ m2 \in [1 .. (Len(stream') + 1) -> Nat] /\ i2 \in [1 .. (Len(stream') + 1) -> Nat]
    /\ Placed(m2, i2)'
    /\ m2[1] = msg[1] /\ i2[1] = idx[1]
    /\ Reaches(m2, msg, u, m, i, s)
    /\ IF i + Len(u) <= s
       THEN m2[Len(stream') + 1] = m /\ i2[Len(stream') + 1] = i + Len(u)
       ELSE m2[Len(stream') + 1] = m + 1 /\ i2[Len(stream') + 1] = 0

\* Whatever is put into the stream where the sender is has such places.
LEMMA PlacedExtends ==
    ASSUME NEW u, NEW msg, NEW idx, NEW m, NEW i, NEW s,
           SendInv, SizesKept, stream \in Seq(Units), Appends(u, msg, idx, m, i, s)
    PROVE  \E m2, i2 : PlacedBehind(m2, i2, msg, idx, u, m, i, s)
<1>0. /\ stream \in Seq(Units) /\ u \in Seq(Units) /\ u # <<>> /\ stream' = stream \o u
      /\ msg \in [1 .. (Len(stream) + 1) -> Nat] /\ idx \in [1 .. (Len(stream) + 1) -> Nat]
      /\ Placed(msg, idx)
      /\ m \in 1 .. Sent' /\ i \in Nat /\ s \in Nat /\ SizeOf(m)' = s
      /\ msg[Len(stream) + 1] = m /\ idx[Len(stream) + 1] = i /\ i + Len(u) <= s + 1
      /\ \A j \in 1 .. Len(u) : u[j] = IF i + j = 1 THEN <<"size", s>> ELSE <<m, i + j - 1>>
  BY DEF Appends
<1>1. PICK e : e = Len(stream) + 1
  OBVIOUS
<1>2. PICK k : k = Len(u)
  OBVIOUS
<1>3. /\ Len(stream') = Len(stream) + k
      /\ \A j \in 1 .. Len(stream) : stream'[j] = stream[j]
      /\ \A j \in (Len(stream) + 1) .. (Len(stream) + k) : stream'[j] = u[j - Len(stream)]
      /\ Len(stream) \in Nat /\ k \in Nat
  BY <1>0, <1>2, Appended
<1>4. /\ i \in Nat /\ s \in Nat /\ i + k <= s + 1
      /\ e \in Nat /\ e > 0 /\ k \in Nat /\ k > 0 /\ Len(stream) = e - 1
      /\ Len(stream') = e + k - 1 /\ Len(stream') + 1 = e + k
  <2>1. k > 0
    BY <1>0, <1>2
  <2> QED BY <1>0, <1>1, <1>2, <1>3, <2>1
<1>5. \A j \in e .. (e + k - 1) :
          stream'[j] = IF i + (j - e) = 0 THEN <<"size", s>> ELSE <<m, i + (j - e)>>
  <2> SUFFICES ASSUME NEW j, j \in e .. (e + k - 1)
      PROVE  stream'[j] = IF i + (j - e) = 0 THEN <<"size", s>> ELSE <<m, i + (j - e)>>
    OBVIOUS
  <2>1. j - Len(stream) \in 1 .. k /\ j \in (Len(stream) + 1) .. (Len(stream) + k)
    BY <1>4
  <2>2. /\ i + (j - Len(stream)) = 1 <=> i + (j - e) = 0
        /\ i + (j - Len(stream)) - 1 = i + (j - e)
    BY <1>4
  <2>3. u[j - Len(stream)] = IF i + (j - Len(stream)) = 1 THEN <<"size", s>>
                             ELSE <<m, i + (j - Len(stream)) - 1>>
    BY <1>0, <1>2, <2>1
  <2> QED BY <1>3, <2>1, <2>2, <2>3
<1>6. m \in Nat
  BY <1>0 DEF SizesKept
<1>7. PICK m2 : m2 = [j \in 1 .. (e + k) |-> IF j <= e THEN msg[j]
                                             ELSE IF i + (j - e) <= s THEN m ELSE m + 1]
  OBVIOUS
<1>8. PICK i2 : i2 = [j \in 1 .. (e + k) |-> IF j <= e THEN idx[j]
                                             ELSE IF i + (j - e) <= s THEN i + (j - e) ELSE 0]
  OBVIOUS
<1>9. \A j \in 1 .. e : m2[j] = msg[j] /\ i2[j] = idx[j] /\ msg[j] \in Nat /\ idx[j] \in Nat
  <2>1. \A j \in 1 .. e : j \in 1 .. (e + k) /\ j <= e /\ j \in 1 .. (Len(stream) + 1)
    BY <1>4
  <2> QED BY <1>0, <1>7, <1>8, <2>1
<1>10. \A j \in e .. (e + k) :
           IF i + (j - e) <= s THEN m2[j] = m /\ i2[j] = i + (j - e)
                               ELSE m2[j] = m + 1 /\ i2[j] = 0
  <2> SUFFICES ASSUME NEW j \in e .. (e + k)
      PROVE IF i + (j - e) <= s THEN m2[j] = m /\ i2[j] = i + (j - e)
                                ELSE m2[j] = m + 1 /\ i2[j] = 0
    OBVIOUS
  <2>1. CASE j = e
    <3>1. i + (j - e) = i /\ i <= s /\ e \in 1 .. e
      BY <1>2, <1>4, <2>1
    <3> QED BY <1>0, <1>1, <1>9, <2>1, <3>1
  <2>2. CASE j # e
    <3>1. j \in 1 .. (e + k) /\ ~(j <= e)
      BY <1>4, <2>2
    <3> QED BY <1>7, <1>8, <3>1
  <2> QED BY <2>1, <2>2
<1>11. m2 \in [1 .. (e + k) -> Nat] /\ i2 \in [1 .. (e + k) -> Nat]
  <2>1. ASSUME NEW j \in 1 .. (e + k) PROVE m2[j] \in Nat /\ i2[j] \in Nat
    <3>1. CASE j \in 1 .. e
      BY <1>9, <3>1
    <3>2. CASE j \in e .. (e + k)
      <4>1. i + (j - e) \in Nat
        BY <1>4, <3>2
      <4> QED BY <1>6, <1>10, <3>2, <4>1
    <3> QED BY <3>1, <3>2, <1>4
  <2>2. m2 = [j \in 1 .. (e + k) |-> m2[j]] /\ i2 = [j \in 1 .. (e + k) |-> i2[j]]
    BY <1>7, <1>8
  <2> QED BY <2>1, <2>2
<1>12. i + k <= s + 1 /\ msg[e] = m /\ idx[e] = i
  BY <1>0, <1>1, <1>2
<1>13. Placed(m2, i2)'
  <2>1. \A j \in 1 .. (e - 1) : stream'[j] = stream[j]
    BY <1>3, <1>4
  <2>2. \A j \in 1 .. e : m2[j] = msg[j] /\ i2[j] = idx[j]
    BY <1>9
  <2>3. /\ Placed(msg, idx) /\ SendInv /\ SizesKept /\ m \in 1 .. Sent' /\ SizeOf(m)' = s
    BY <1>0
  <2>4. Extends(e, k, m, i, s, msg, idx, m2, i2)
    BY <1>4, <1>5, <1>10, <1>12, <2>1, <2>2, <2>3 DEF Extends
  <2> QED BY <2>3, <2>4, ExtensionIsPlaced
<1>14. m2[1] = msg[1] /\ i2[1] = idx[1]
  BY <1>4, <1>9
<1>15. IF i + Len(u) <= s
       THEN m2[Len(stream') + 1] = m /\ i2[Len(stream') + 1] = i + Len(u)
       ELSE m2[Len(stream') + 1] = m + 1 /\ i2[Len(stream') + 1] = 0
  <2>1. e + k \in e .. (e + k) /\ i + ((e + k) - e) = i + k
    BY <1>4
  <2>2. IF i + k <= s THEN m2[e + k] = m /\ i2[e + k] = i + k ELSE m2[e + k] = m + 1 /\ i2[e + k] = 0
    BY <1>10, <2>1
  <2> QED BY <1>2, <1>4, <2>2
<1>16. ASSUME NEW j \in 1 .. (Len(stream') + 1)
       PROVE  \/ j \in 1 .. (Len(stream) + 1) /\ m2[j] = msg[j]
              \/ m2[j] = m
              \/ m2[j] = m + 1 /\ i + Len(u) > s
  <2>1. CASE j \in 1 .. e
    <3>1. j \in 1 .. (Len(stream) + 1)
      BY <1>4, <2>1
    <3> QED BY <1>9, <2>1, <3>1
  <2>2. CASE j \in e .. (e + k)
    <3>1. i + (j - e) <= i + k
      BY <1>4, <2>2
    <3>2. CASE i + (j - e) <= s
      BY <1>10, <2>2, <3>2
    <3>3. CASE ~(i + (j - e) <= s)
      <4>1. i + k > s
        BY <1>4, <2>2, <3>1, <3>3
      <4> QED BY <1>2, <1>10, <2>2, <3>3, <4>1
    <3> QED BY <3>2, <3>3
  <2> QED BY <1>4, <2>1, <2>2
<1> QED
  <2>1. m2 \in [1 .. (Len(stream') + 1) -> Nat] /\ i2 \in [1 .. (Len(stream') + 1) -> Nat]
    BY <1>4, <1>11
  <2>2. Reaches(m2, msg, u, m, i, s)
    BY <1>16 DEF Reaches
  <2> QED BY <1>13, <1>14, <1>15, <2>1, <2>2 DEF PlacedBehind

\* What has been received stays as it was sent, whatever else is sent.
LEMMA ReceivedStays ==
    ASSUME SendInv, SizesKept, ReceivedInv, AsSent, UNCHANGED receiver, stream' \in Seq(Units)
    PROVE  ReceivedInv' /\ AsSent'
<1>1. rpc' = rpc /\ torecv' = torecv /\ data' = data /\ received' = received
  BY DEF receiver
<1>2. Len(received) \in Nat /\ DOMAIN received = 1 .. Len(received) /\ Len(received) <= Sent
  BY DEF ReceivedInv
<1>3. Sent \in Nat /\ Sent' \in Nat /\ Sent <= Sent' /\ \A m \in 1 .. Sent : SizeOf(m)' = SizeOf(m)
  BY SizesAreNumbers DEF SizesKept
<1>4. ReceivedInv'
  BY <1>1, <1>2, <1>3 DEF ReceivedInv
<1>5. ASSUME NEW m \in DOMAIN received'
      PROVE  /\ \A i \in DOMAIN received'[m] : received'[m][i] = <<m, i>>
             /\ Len(received'[m]) = SizeOf(m)'
  <2>1. m \in 1 .. Sent /\ m \in DOMAIN received
    BY <1>1, <1>2, <1>3
  <2>2. /\ \A i \in DOMAIN received[m] : received[m][i] = <<m, i>>
        /\ Len(received[m]) = SizeOf(m)
    BY <2>1 DEF AsSent, SizeOf
  <2> QED BY <1>1, <1>3, <2>1, <2>2
<1>6. AsSent'
  BY <1>5 DEF AsSent, SizeOf
<1> QED BY <1>4, <1>6

\* Only sendData changes which messages are within its reach.
LEMMA WithinKept ==
    ASSUME UNCHANGED <<spc, left, answers>>
    PROVE  \A k \in Nat : Within(k) => Within(k)'
BY DEF Within, Message

\* It reaches further by the bytes it sends alone; an answer of 0 is given before the last
\* byte of its message.
LEMMA WithinStays ==
    ASSUME SendInv,
           \/ Open \/ Cut \/ Close \/ UNCHANGED vars
           \/ \E n \in Sizes : SendCall(n)
           \/ SendHeaderIgnored \/ SendHeaderTls \/ SendBodyFails \/ SendBodyTls \/ SendDone
    PROVE  \A k \in Nat : Within(k) => Within(k)'
<1>1. CASE UNCHANGED <<spc, left, answers>>
  BY <1>1, WithinKept
<1>2. ASSUME NEW n \in Sizes, SendCall(n) PROVE \A k \in Nat : Within(k) => Within(k)'
  BY <1>2 DEF SendCall, Within, Message
<1>3. CASE UNCHANGED answers /\ spc = "header"
  BY <1>3 DEF Within, Message
<1>4. CASE UNCHANGED answers /\ spc = "body" /\ left # 0
  BY <1>4 DEF Within, Message
<1>5. ASSUME NEW a \in {0, 1}, Answers(a), a = 0 => ~(spc = "body" /\ left = 0)
      PROVE  \A k \in Nat : Within(k) => Within(k)'
  <2> DEFINE rec == [size |-> size, answer |-> a, given |-> given]
  <2>1. answers \in Seq([size : Nat, answer : {0, 1}, given : Nat]) /\ {size, given} \subseteq Nat
    BY DEF SendInv
  <2>2. rec \in [size : Nat, answer : {0, 1}, given : Nat] /\ rec.answer = a
    BY <2>1
  <2>3. answers' = Append(answers, rec) /\ spc' = "idle"
    BY <1>5 DEF Answers
  <2>4. /\ Len(answers) \in Nat /\ Len(answers') = Len(answers) + 1
        /\ \A m \in DOMAIN answers' : \/ m \in DOMAIN answers /\ answers'[m] = answers[m]
                                      \/ m = Len(answers) + 1 /\ answers'[m] = rec
    <3> HIDE DEF rec
    <3> QED BY <2>1, <2>2, <2>3
  <2> QED BY <1>5, <2>2, <2>3, <2>4 DEF Within, Message
<1>6. CASE SendHeaderIgnored \/ SendHeaderTls
  BY <1>3, <1>5, <1>6 DEF SendHeaderIgnored, SendHeaderTls
<1>7. CASE SendBodyFails \/ SendBodyTls
  <2>1. left # 0
    BY <1>7 DEF SendBodyFails, SendBodyTls, SendInv
  <2> QED BY <1>4, <1>5, <1>7, <2>1 DEF SendBodyFails, SendBodyTls
<1>8. CASE SendDone
  BY <1>5, <1>8 DEF SendDone
<1>9. CASE Open \/ Cut \/ Close \/ UNCHANGED vars
  <2>1. UNCHANGED <<spc, left, answers>>
    BY <1>9 DEF Open, NewServer, NewServerTls, NewClientFails, Connect, ConnectUnseen, Accept,
       AcceptTls, RefuseTls,
     AcceptUnverified, UseFreed, HandshakeFails, Cut, Close, vars, sender
  <2> QED BY <1>1, <2>1
<1> QED BY <1>2, <1>6, <1>7, <1>8, <1>9

\* A step that only may cut off the stream: the places in it stay.
LEMMA StreamStays ==
    ASSUME SendInv, SizesKept, StreamInv, stream \in Seq(Units),
           NEW n \in 0 .. Len(stream), stream' = SubSeq(stream, 1, n),
           conn' \in {"none", "up"} =>
               /\ conn \in {"none", "up"} /\ n = Len(stream)
               /\ \A m, i \in Nat : SenderAt(m, i) => SenderAt(m, i)',
           rpc' # "end" => rpc # "end" /\ \A m, i \in Nat : ReceiverAt(m, i) => ReceiverAt(m, i)',
           \A k \in Nat : Within(k) => Within(k)'
    PROVE  StreamInv'
<1>1. PICK msg \in [1 .. (Len(stream) + 1) -> Nat], idx \in [1 .. (Len(stream) + 1) -> Nat] :
          /\ Placed(msg, idx)
          /\ \A j \in 1 .. (Len(stream) + 1) : Within(msg[j])
          /\ conn \in {"none", "up"} => SenderAt(msg[Len(stream) + 1], idx[Len(stream) + 1])
          /\ rpc # "end" => ReceiverAt(msg[1], idx[1])
  BY DEF StreamInv
<1>2. PICK m2 \in [1 .. (Len(stream') + 1) -> Nat], i2 \in [1 .. (Len(stream') + 1) -> Nat] :
          /\ Placed(m2, i2)'
          /\ \A j \in 1 .. (n + 1) : m2[j] = msg[j] /\ i2[j] = idx[j]
  BY <1>1, PlacedStays, ZenonT(30)
<1>5. n \in Nat /\ Len(stream') = n /\ 1 \in 1 .. (n + 1) /\ n + 1 \in 1 .. (n + 1)
  OBVIOUS
<1>6. /\ m2[1] = msg[1] /\ i2[1] = idx[1] /\ m2[n + 1] = msg[n + 1] /\ i2[n + 1] = idx[n + 1]
      /\ {m2[1], i2[1], m2[n + 1], i2[n + 1]} \subseteq Nat
  BY <1>2, <1>5
<1>7. conn' \in {"none", "up"} => SenderAt(m2[n + 1], i2[n + 1])'
  BY <1>1, <1>6
<1>8. rpc' # "end" => ReceiverAt(m2[1], i2[1])'
  BY <1>1, <1>6
<1>9. ASSUME NEW j \in 1 .. (Len(stream') + 1) PROVE Within(m2[j])'
  <2>1. j \in 1 .. (n + 1) /\ j \in 1 .. (Len(stream) + 1)
    BY <1>5
  <2>2. m2[j] = msg[j] /\ msg[j] \in Nat /\ Within(msg[j])
    BY <1>1, <1>2, <2>1
  <2>3. Within(msg[j])'
    BY <2>2
  <2> QED BY <2>2, <2>3
<1> QED BY <1>2, <1>5, <1>7, <1>8, <1>9 DEF StreamInv

\* The size that is received is that of the next message.
LEMMA HeaderIsReceived ==
    ASSUME InStep, SizesKept, RecvHeader, ~astray, ~astray'
    PROVE  ReceivedInv' /\ StreamInv' /\ AsSent'
<1>1. SendInv /\ ReceivedInv /\ StreamInv /\ AsSent
  BY DEF InStep
<1>2. /\ rpc = "header" /\ rpc' = "body" /\ stream # <<>>
      /\ torecv' = stream[1][2] /\ stream' = Tail(stream)
      /\ UNCHANGED <<conn, spc, size, left, given, answers, data, received>>
  <2>1. /\ rpc = "header" /\ rpc' = "body" /\ stream # <<>> /\ stream' = Tail(stream)
        /\ torecv' = IF Head(stream)[2] < RecvRoom THEN Head(stream)[2] ELSE RecvRoom
        /\ ~(Head(stream)[2] > RecvRoom)
        /\ UNCHANGED <<conn, spc, size, left, given, answers, data, received>>
    BY DEF RecvHeader, sender
  <2>2. Head(stream) = stream[1] /\ stream[1] \in Units
    BY <1>1, <2>1 DEF ReceivedInv
  <2>3. stream[1][2] \in Nat /\ RecvRoom \in Nat
    BY <2>2, TransportOK DEF Units
  <2> QED BY <2>1, <2>2, <2>3
<1>3. /\ stream \in Seq(Units) /\ data = <<>> /\ received \in Seq(Seq(Units))
      /\ Len(received) <= Sent
  BY <1>1, <1>2 DEF ReceivedInv
<1>4. /\ Len(stream) \in Nat /\ Len(stream) >= 1
      /\ stream' = SubSeq(stream, 1 + 1, Len(stream)) /\ stream' \in Seq(Units)
  BY <1>2, <1>3
<1>5. PICK msg \in [1 .. (Len(stream) + 1) -> Nat], idx \in [1 .. (Len(stream) + 1) -> Nat] :
          /\ Placed(msg, idx)
          /\ \A j \in 1 .. (Len(stream) + 1) : Within(msg[j])
          /\ conn \in {"none", "up"} => SenderAt(msg[Len(stream) + 1], idx[Len(stream) + 1])
          /\ ReceiverAt(msg[1], idx[1])
  BY <1>1, <1>2 DEF StreamInv
<1>6. PICK m2 \in [1 .. (Len(stream') + 1) -> Nat], i2 \in [1 .. (Len(stream') + 1) -> Nat] :
          /\ Placed(m2, i2)'
          /\ Len(stream') = Len(stream) - 1
          /\ \A j \in 1 .. (Len(stream) - 1 + 1) : m2[j] = msg[j + 1] /\ i2[j] = idx[j + 1]
  <2>1. PICK k : k = 1
    OBVIOUS
  <2>2. k \in 1 .. Len(stream) /\ stream' = SubSeq(stream, k + 1, Len(stream))
    BY <1>4, <2>1
  <2>3. \E m2, i2 \in [1 .. (Len(stream') + 1) -> Nat] :
          /\ Placed(m2, i2)'
          /\ Len(stream') = Len(stream) - k
          /\ \A j \in 1 .. (Len(stream) - k + 1) : m2[j] = msg[j + k] /\ i2[j] = idx[j + k]
    BY <1>1, <1>3, <1>5, <2>2, PlacedShifts, ZenonT(30)
  <2> QED BY <2>1, <2>3
<1>7. PICK r : r = Len(received) + 1
  OBVIOUS
<1>8. msg[1] = r /\ idx[1] = 0 /\ r \in Nat
  BY <1>2, <1>3, <1>5, <1>7 DEF ReceiverAt
<1>9. /\ r \in 1 .. Sent /\ SizeOf(r) \in Nat /\ SizeOf(r)' = SizeOf(r)
      /\ stream[1] = <<"size", SizeOf(r)>>
      /\ 0 = SizeOf(r) => msg[2] = r + 1 /\ idx[2] = 0
      /\ 1 <= SizeOf(r) => msg[2] = r /\ idx[2] = 1
  <2>1. 1 \in 1 .. Len(stream) /\ 2 \in 1 .. (Len(stream) + 1) /\ idx[1] + (2 - 1) = 1
    BY <1>4, <1>8
  <2>2. /\ msg[1] \in 1 .. Sent
        /\ stream[1] = IF idx[1] = 0 THEN <<"size", SizeOf(msg[1])>> ELSE <<msg[1], idx[1]>>
        /\ idx[1] = SizeOf(msg[1]) => msg[1 + 1] = msg[1] + 1 /\ idx[1 + 1] = 0
        /\ idx[1] + (2 - 1) <= SizeOf(msg[1]) => msg[2] = msg[1] /\ idx[2] = idx[1] + (2 - 1)
    BY <1>5, <2>1 DEF Placed
  <2> QED BY <1>1, <1>8, <2>1, <2>2, SizesAreNumbers DEF SizesKept
<1>10. torecv' = SizeOf(r)
  BY <1>2, <1>9
<1>11. Sent' \in Nat /\ r <= Sent' /\ Len(received) <= Sent'
  BY <1>1, <1>3, <1>7, <1>9, SizesAreNumbers DEF SizesKept
<1>12. ReceivedInv'
  <2>1. Len(data) + torecv' = SizeOf(r)'
    BY <1>3, <1>9, <1>10
  <2> QED BY <1>2, <1>3, <1>4, <1>7, <1>9, <1>10, <1>11, <2>1 DEF ReceivedInv
<1>13. AsSent'
  <2>1. UNCHANGED <<size, answers, received>>
    BY <1>2
  <2> QED BY <1>1, <2>1 DEF AsSent, Message
<1>14. StreamInv'
  <2>1. conn' \in {"none", "up"} => SenderAt(m2[Len(stream) + 1], i2[Len(stream) + 1])'
    <3>1. m2[Len(stream') + 1] = msg[Len(stream) + 1] /\ i2[Len(stream') + 1] = idx[Len(stream) + 1]
      BY <1>4, <1>6, SMTT(30)
    <3> QED BY <1>2, <1>5, <3>1 DEF SenderAt, Message
  <2>2. ReceiverAt(m2[1], i2[1])'
    <3>1. m2[1] = msg[2] /\ i2[1] = idx[2]
      BY <1>4, <1>6
    <3>2. Len(data) = 0
      BY <1>3
    <3> QED BY <1>2, <1>7, <1>9, <1>10, <3>1, <3>2 DEF ReceiverAt
  <2>3. ASSUME NEW j \in 1 .. (Len(stream') + 1) PROVE Within(m2[j])'
    <3>1. j \in 1 .. (Len(stream) - 1 + 1) /\ j + 1 \in 1 .. (Len(stream) + 1)
      BY <1>4, <1>6
    <3>2. m2[j] = msg[j + 1] /\ msg[j + 1] \in Nat /\ Within(msg[j + 1])
      BY <1>5, <1>6, <3>1
    <3> QED BY <1>2, <3>2, WithinKept
  <2> QED BY <1>6, <2>1, <2>2, <2>3 DEF StreamInv
<1> QED BY <1>12, <1>13, <1>14

\* In step, what is read as a size is that of the next message; when it does not fit, the
\* receiver has gone astray.
LEMMA HeaderIsTooLarge ==
    ASSUME InStep, SizesKept, RecvHeader, ~astray, astray'
    PROVE  Strayed'
<1>1. SendInv /\ ReceivedInv /\ StreamInv
  BY DEF InStep
<1>2. /\ rpc = "header" /\ stream # <<>> /\ Head(stream)[2] > RecvRoom /\ received' = received
  BY DEF RecvHeader
<1>3. stream \in Seq(Units) /\ received \in Seq(Seq(Units)) /\ Head(stream) = stream[1]
  BY <1>1, <1>2 DEF ReceivedInv
<1>4. Len(stream) \in Nat /\ Len(stream) >= 1 /\ Len(received) \in Nat
  BY <1>2, <1>3
<1>5. PICK msg \in [1 .. (Len(stream) + 1) -> Nat], idx \in [1 .. (Len(stream) + 1) -> Nat] :
          Placed(msg, idx) /\ ReceiverAt(msg[1], idx[1])
  BY <1>1, <1>2 DEF StreamInv
<1>6. PICK k : k = Len(received) + 1
  OBVIOUS
<1>7. msg[1] = k /\ idx[1] = 0
  BY <1>2, <1>5, <1>6 DEF ReceiverAt
<1>8. k \in 1 .. Sent /\ stream[1] = <<"size", SizeOf(k)>>
  <2>1. 1 \in 1 .. Len(stream)
    BY <1>4
  <2> QED BY <1>5, <1>7, <2>1 DEF Placed
<1>9. SizeOf(k) > RecvRoom /\ SizeOf(k)' = SizeOf(k) /\ k \in 1 .. Sent'
  BY <1>1, <1>2, <1>3, <1>8, SizesAreNumbers DEF SizesKept
<1>10. k <= Len(received) + 1
  BY <1>4, <1>6
<1> QED BY <1>2, <1>9, <1>10 DEF Strayed

\* The bytes that are received are the next of their message.
LEMMA BodyIsReceived ==
    ASSUME InStep, SizesKept, NEW k, RecvBody(k)
    PROVE  ReceivedInv' /\ StreamInv' /\ AsSent'
<1>1. SendInv /\ ReceivedInv /\ StreamInv /\ AsSent
  BY DEF InStep
<1>2. /\ rpc = "body" /\ rpc' = "body" /\ k \in 1 .. torecv /\ k <= Len(stream)
      /\ data' = data \o SubSeq(stream, 1, k)
      /\ stream' = SubSeq(stream, k + 1, Len(stream)) /\ torecv' = torecv - k
      /\ UNCHANGED <<conn, spc, size, left, given, answers, received>>
  BY DEF RecvBody, sender
<1>3. PICK r : r = Len(received) + 1
  OBVIOUS
<1>4. /\ stream \in Seq(Units) /\ data \in Seq(Units) /\ received \in Seq(Seq(Units))
      /\ torecv \in Nat /\ r <= Sent /\ Len(data) + torecv = SizeOf(r)
      /\ \A i \in DOMAIN data : data[i] = <<r, i>>
  BY <1>1, <1>2, <1>3 DEF ReceivedInv
<1>5. /\ Len(stream) \in Nat /\ Len(data) \in Nat /\ Len(received) \in Nat /\ r \in Nat
      /\ k \in Nat /\ k > 0 /\ k <= torecv /\ k \in 1 .. Len(stream)
      /\ stream' \in Seq(Units)
  BY <1>2, <1>3, <1>4
<1>6. PICK msg \in [1 .. (Len(stream) + 1) -> Nat], idx \in [1 .. (Len(stream) + 1) -> Nat] :
          /\ Placed(msg, idx)
          /\ \A j \in 1 .. (Len(stream) + 1) : Within(msg[j])
          /\ conn \in {"none", "up"} => SenderAt(msg[Len(stream) + 1], idx[Len(stream) + 1])
          /\ ReceiverAt(msg[1], idx[1])
  BY <1>1, <1>2 DEF StreamInv
<1>7. PICK m2 \in [1 .. (Len(stream') + 1) -> Nat], i2 \in [1 .. (Len(stream') + 1) -> Nat] :
          /\ Placed(m2, i2)'
          /\ Len(stream') = Len(stream) - k
          /\ \A j \in 1 .. (Len(stream) - k + 1) : m2[j] = msg[j + k] /\ i2[j] = idx[j + k]
  BY <1>1, <1>2, <1>4, <1>5, <1>6, PlacedShifts
<1>8. msg[1] = r /\ idx[1] = Len(data) + 1
  <2>1. torecv > 0
    BY <1>4, <1>5
  <2> QED BY <1>2, <1>3, <1>6, <2>1 DEF ReceiverAt
<1>9. r \in 1 .. Sent /\ SizeOf(r) \in Nat /\ SizeOf(r)' = SizeOf(r)
  BY <1>1, <1>3, <1>4, <1>5, SizesAreNumbers DEF SizesKept
<1>10. \A l \in 1 .. (Len(stream) + 1) :
           Len(data) + l <= SizeOf(r) => msg[l] = r /\ idx[l] = Len(data) + l
  <2> SUFFICES ASSUME NEW l \in 1 .. (Len(stream) + 1), Len(data) + l <= SizeOf(r)
      PROVE  msg[l] = r /\ idx[l] = Len(data) + l
    OBVIOUS
  <2>1. 1 \in 1 .. Len(stream) /\ idx[1] + (l - 1) = Len(data) + l
    BY <1>5, <1>8
  <2>2. idx[1] + (l - 1) <= SizeOf(msg[1]) => msg[l] = msg[1] /\ idx[l] = idx[1] + (l - 1)
    BY <1>6, <2>1 DEF Placed
  <2> QED BY <1>8, <2>1, <2>2
<1>11. \A l \in 1 .. k : Len(data) + l <= SizeOf(r) /\ l \in 1 .. Len(stream)
  BY <1>4, <1>5
<1>12. \A l \in 1 .. k : stream[l] = <<r, Len(data) + l>>
  <2> SUFFICES ASSUME NEW l \in 1 .. k PROVE stream[l] = <<r, Len(data) + l>>
    OBVIOUS
  <2>1. msg[l] = r /\ idx[l] = Len(data) + l /\ idx[l] # 0 /\ l \in 1 .. Len(stream)
    BY <1>5, <1>10, <1>11
  <2>2. stream[l] = IF idx[l] = 0 THEN <<"size", SizeOf(msg[l])>> ELSE <<msg[l], idx[l]>>
    BY <1>6, <2>1 DEF Placed
  <2> QED BY <2>1, <2>2
<1>13. /\ data' \in Seq(Units) /\ Len(data') = Len(data) + k
       /\ \A i \in DOMAIN data' : data'[i] = <<r, i>>
  <2>1. PICK b : b = SubSeq(stream, 1, k)
    OBVIOUS
  <2>2. b \in Seq(Units) /\ Len(b) = k /\ \A l \in 1 .. k : b[l] = stream[l]
    BY <1>4, <1>5, <2>1, SMTT(30)
  <2>3. data' \in Seq(Units) /\ data' = data \o b
    BY <1>2, <1>4, <2>1, <2>2
  <2>4. /\ Len(data') = Len(data) + k
        /\ \A j \in 1 .. Len(data) : data'[j] = data[j]
        /\ \A j \in (Len(data) + 1) .. (Len(data) + k) : data'[j] = b[j - Len(data)]
    BY <1>4, <2>2, <2>3, Appended, ZenonT(30)
  <2>5. ASSUME NEW i \in 1 .. (Len(data) + k) PROVE data'[i] = <<r, i>>
    <3>1. CASE i \in 1 .. Len(data)
      BY <1>4, <2>4, <3>1, SMTT(30)
    <3>2. CASE i \in (Len(data) + 1) .. (Len(data) + k)
      <4>1. i - Len(data) \in 1 .. k /\ Len(data) + (i - Len(data)) = i
        BY <1>5, <3>2
      <4> QED BY <1>12, <2>2, <2>4, <3>2, <4>1
    <3> QED BY <1>5, <3>1, <3>2
  <2>6. DOMAIN data' = 1 .. (Len(data) + k)
    BY <2>3, <2>4
  <2> QED BY <2>3, <2>4, <2>5, <2>6
<1>14. ReceivedInv'
  <2>1. Sent' \in Nat /\ r <= Sent' /\ Len(received) <= Sent'
    BY <1>1, <1>3, <1>5, <1>9, SizesAreNumbers DEF SizesKept
  <2>2. torecv' \in Nat /\ Len(data') + torecv' = SizeOf(r)'
    BY <1>2, <1>4, <1>5, <1>9, <1>13
  <2> QED BY <1>2, <1>3, <1>4, <1>5, <1>13, <2>1, <2>2 DEF ReceivedInv
<1>15. AsSent'
  <2>1. UNCHANGED <<size, answers, received>>
    BY <1>2
  <2> QED BY <1>1, <2>1 DEF AsSent, Message
<1>16. StreamInv'
  <2>1. conn' \in {"none", "up"} => SenderAt(m2[Len(stream) + 1], i2[Len(stream) + 1])'
    <3>1. /\ Len(stream) - k + 1 \in 1 .. (Len(stream) - k + 1)
          /\ Len(stream') + 1 = Len(stream) - k + 1 /\ (Len(stream) - k + 1) + k = Len(stream) + 1
      BY <1>5, <1>7
    <3>2. m2[Len(stream') + 1] = msg[Len(stream) + 1] /\ i2[Len(stream') + 1] = idx[Len(stream) + 1]
      BY <1>7, <3>1
    <3> QED BY <1>2, <1>6, <3>2 DEF SenderAt, Message
  <2>2. ReceiverAt(m2[1], i2[1])'
    <3>1. m2[1] = msg[k + 1] /\ i2[1] = idx[k + 1]
      BY <1>5, <1>7
    <3>2. CASE k < torecv
      <4>1. torecv' > 0 /\ Len(data) + (k + 1) <= SizeOf(r) /\ k + 1 \in 1 .. (Len(stream) + 1)
        BY <1>2, <1>4, <1>5, <3>2
      <4>2. m2[1] = r /\ i2[1] = Len(data') + 1
        BY <1>5, <1>10, <1>13, <3>1, <4>1
      <4> QED BY <1>2, <1>3, <4>1, <4>2 DEF ReceiverAt
    <3>3. CASE k = torecv
      <4>1. ~(torecv' > 0) /\ Len(data) + k = SizeOf(r)
        BY <1>2, <1>4, <1>5, <3>3
      <4>2. msg[k] = r /\ idx[k] = SizeOf(r)
        BY <1>5, <1>10, <1>11, <4>1
      <4>3. idx[k] = SizeOf(msg[k]) => msg[k + 1] = msg[k] + 1 /\ idx[k + 1] = 0
        BY <1>5, <1>6 DEF Placed
      <4> QED BY <1>2, <1>3, <3>1, <4>1, <4>2, <4>3 DEF ReceiverAt
    <3> QED BY <1>4, <1>5, <3>2, <3>3
  <2>3. rpc' # "end" => ReceiverAt(m2[1], i2[1])'
    BY <2>2
  <2>4. ASSUME NEW j \in 1 .. (Len(stream') + 1) PROVE Within(m2[j])'
    <3>1. j \in 1 .. (Len(stream) - k + 1) /\ j + k \in 1 .. (Len(stream) + 1)
      BY <1>5, <1>7
    <3>2. m2[j] = msg[j + k] /\ msg[j + k] \in Nat /\ Within(msg[j + k])
      BY <1>6, <1>7, <3>1
    <3> QED BY <1>2, <3>2, WithinKept
  <2> QED BY <1>7, <2>1, <2>3, <2>4 DEF StreamInv
<1> QED BY <1>14, <1>15, <1>16

\* The size of a message that is sent is placed behind the message before.
LEMMA HeaderIsSent ==
    ASSUME InStep, SizesKept, SendHeader
    PROVE  ReceivedInv' /\ StreamInv' /\ AsSent'
<1>0. PICK s : s = size
  OBVIOUS
<1>1. SendInv /\ ReceivedInv /\ StreamInv /\ AsSent
  BY DEF InStep
<1>2. /\ spc = "header" /\ spc' = "body" /\ conn = "up" /\ conn' = "up"
      /\ stream' = Append(stream, <<"size", size>>)
      /\ UNCHANGED <<size, left, given, answers, rpc, torecv, data, astray, received>>
  BY DEF SendHeader, receiver
<1>3. /\ size \in Nat /\ given = 0 /\ left = size /\ Len(answers) \in Nat
      /\ stream \in Seq(Units)
  BY <1>1, <1>2 DEF SendInv, ReceivedInv
<1>4. Message \in Nat /\ Message \in 1 .. Sent' /\ SizeOf(Message)' = size /\ Message' = Message
  BY <1>2, <1>3 DEF Message, Sent, SizeOf
<1>5. PICK u : u = << <<"size", size>> >>
  OBVIOUS
<1>6. /\ u \in Seq(Units) /\ Len(u) = 1 /\ u # <<>> /\ stream' = stream \o u
      /\ u[1] = <<"size", size>>
  <2>1. PICK x : x = <<"size", size>>
    OBVIOUS
  <2>2. x \in Units /\ u = <<x>> /\ stream' = Append(stream, x)
    BY <1>2, <1>3, <1>5, <2>1 DEF Units
  <2>3. stream' = stream \o u /\ u \in Seq(Units) /\ Len(u) = 1 /\ u # <<>> /\ u[1] = x
    BY <1>3, <2>2
  <2> QED BY <2>1, <2>3
<1>7. PICK msg \in [1 .. (Len(stream) + 1) -> Nat], idx \in [1 .. (Len(stream) + 1) -> Nat] :
          /\ Placed(msg, idx)
          /\ \A j \in 1 .. (Len(stream) + 1) : Within(msg[j])
          /\ SenderAt(msg[Len(stream) + 1], idx[Len(stream) + 1])
          /\ rpc # "end" => ReceiverAt(msg[1], idx[1])
  BY <1>1, <1>2 DEF StreamInv
<1>8. PICK m : m = Message
  OBVIOUS
<1>9. msg[Len(stream) + 1] = m /\ idx[Len(stream) + 1] = 0
  BY <1>2, <1>7, <1>8 DEF SenderAt
<1>10. SizeOf(m)' = size
  BY <1>2, <1>4, <1>8 DEF SizeOf
<1>11. PICK i : i = 0
  OBVIOUS
<1>12. Appends(u, msg, idx, m, i, s)
  <2>1. i + Len(u) <= s + 1 /\ m \in 1 .. Sent' /\ i \in Nat /\ s \in Nat
    BY <1>0, <1>3, <1>4, <1>6, <1>8, <1>11
  <2>2. \A j \in 1 .. Len(u) : u[j] = IF i + j = 1 THEN <<"size", s>> ELSE <<m, i + j - 1>>
    BY <1>0, <1>6, <1>11
  <2> QED BY <1>0, <1>6, <1>7, <1>9, <1>10, <1>11, <2>1, <2>2 DEF Appends
<1>13. PICK m2 \in [1 .. (Len(stream') + 1) -> Nat], i2 \in [1 .. (Len(stream') + 1) -> Nat] :
          /\ Placed(m2, i2)'
          /\ m2[1] = msg[1] /\ i2[1] = idx[1]
          /\ Reaches(m2, msg, u, m, i, s)
          /\ IF i + Len(u) <= s
             THEN m2[Len(stream') + 1] = m /\ i2[Len(stream') + 1] = i + Len(u)
             ELSE m2[Len(stream') + 1] = m + 1 /\ i2[Len(stream') + 1] = 0
  <2>1. PICK a, b : PlacedBehind(a, b, msg, idx, u, m, i, s)
    BY <1>1, <1>3, <1>0, <1>12, PlacedExtends
  <2> QED BY <2>1 DEF PlacedBehind
<1>14. SenderAt(m2[Len(stream) + 1], i2[Len(stream) + 1])'
  <2>1. left' = size /\ given' = 0 /\ Message' = m
    BY <1>2, <1>3, <1>4, <1>8
  <2> QED BY <1>0, <1>2, <1>3, <1>6, <1>13, <1>11, <2>1 DEF SenderAt
<1>15. rpc' # "end" => ReceiverAt(m2[1], i2[1])'
  BY <1>2, <1>7, <1>13 DEF ReceiverAt
<1>16. StreamInv'
  <2>1. ASSUME NEW j \in 1 .. (Len(stream') + 1) PROVE Within(m2[j])'
    <3>1. i + Len(u) = 1 /\ left' = size /\ Message' = m /\ m \in Nat
      BY <1>2, <1>3, <1>4, <1>6, <1>8, <1>11
    <3>2. m2[j] \in Nat /\ (m2[j] <= m \/ (m2[j] = m + 1 /\ left' = 0))
      <4>1. CASE j \in 1 .. (Len(stream) + 1) /\ m2[j] = msg[j]
        <5>1. msg[j] \in Nat /\ Within(msg[j])
          BY <1>7, <4>1
        <5> QED BY <1>2, <1>8, <4>1, <5>1 DEF Within
      <4>2. CASE m2[j] = m
        BY <3>1, <4>2
      <4>3. CASE m2[j] = m + 1 /\ i + Len(u) > s
        BY <1>0, <1>3, <3>1, <4>3
      <4> QED BY <1>13, <4>1, <4>2, <4>3 DEF Reaches
    <3>3. \A l \in DOMAIN answers' : answers'[l].answer = 1
      BY <1>1, <1>2 DEF SendInv
    <3>4. m2[j] <= Message' + 1 /\ (~(spc' = "body" /\ left' = 0) => m2[j] <= Message')
      BY <1>2, <3>1, <3>2
    <3> QED BY <3>3, <3>4 DEF Within
  <2> QED BY <1>13, <1>14, <1>15, <2>1 DEF StreamInv
<1>17. stream' \in Seq(Units)
  BY <1>2, <1>3 DEF Units
<1> QED BY <1>1, <1>2, <1>16, <1>17, ReceivedStays DEF receiver

\* So are its bytes.
LEMMA BodyIsSent ==
    ASSUME InStep, SizesKept, NEW k, SendBody(k)
    PROVE  ReceivedInv' /\ StreamInv' /\ AsSent'
<1>0. PICK s : s = size
  OBVIOUS
<1>1. SendInv /\ ReceivedInv /\ StreamInv /\ AsSent
  BY DEF InStep
<1>2. /\ spc = "body" /\ spc' = "body" /\ conn = "up" /\ conn' = "up" /\ k \in 1 .. left
      /\ stream' = stream \o [i \in 1 .. k |-> <<Message, given + i>>]
      /\ left' = left - k /\ given' = given + k
      /\ UNCHANGED <<size, answers, rpc, torecv, data, astray, received>>
  BY DEF SendBody, setup, receiver
<1>3. /\ size \in Nat /\ given \in Nat /\ left \in Nat /\ given + left = size /\ Len(answers) \in Nat
      /\ stream \in Seq(Units)
  BY <1>1, <1>2 DEF SendInv, Counts, ReceivedInv
<1>4. Message \in Nat /\ Message \in 1 .. Sent' /\ Message' = Message
  BY <1>2, <1>3 DEF Message, Sent
<1>5. PICK m : m = Message
  OBVIOUS
<1>6. SizeOf(m)' = size
  BY <1>2, <1>4, <1>5 DEF SizeOf
<1>7. PICK u : u = [i \in 1 .. k |-> <<Message, given + i>>]
  OBVIOUS
<1>8. k \in Nat /\ k > 0 /\ k <= left
  BY <1>2, <1>3
<1>9. /\ u \in Seq(Units) /\ Len(u) = k /\ u # <<>> /\ stream' = stream \o u
      /\ \A j \in 1 .. k : u[j] = <<m, given + j>>
  <2>1. \A j \in 1 .. k : <<m, given + j>> \in Units
    BY <1>3, <1>4, <1>5 DEF Units
  <2>2. u \in Seq(Units) /\ Len(u) = k /\ \A j \in 1 .. k : u[j] = <<m, given + j>>
    BY <1>5, <1>7, <1>8, <2>1
  <2>3. stream' = stream \o u
    BY <1>2, <1>7
  <2> QED BY <1>8, <2>2, <2>3
<1>10. PICK msg \in [1 .. (Len(stream) + 1) -> Nat], idx \in [1 .. (Len(stream) + 1) -> Nat] :
          /\ Placed(msg, idx)
          /\ \A j \in 1 .. (Len(stream) + 1) : Within(msg[j])
          /\ SenderAt(msg[Len(stream) + 1], idx[Len(stream) + 1])
          /\ rpc # "end" => ReceiverAt(msg[1], idx[1])
  BY <1>1, <1>2 DEF StreamInv
<1>11. PICK i : i = given + 1
  OBVIOUS
<1>12. msg[Len(stream) + 1] = m /\ idx[Len(stream) + 1] = i
  <2>1. left > 0
    BY <1>3, <1>8
  <2> QED BY <1>2, <1>5, <1>10, <1>11, <2>1 DEF SenderAt
<1>13. Appends(u, msg, idx, m, i, s)
  <2>1. i + Len(u) <= s + 1 /\ m \in 1 .. Sent' /\ i \in Nat /\ s \in Nat
    BY <1>0, <1>3, <1>4, <1>5, <1>8, <1>9, <1>11
  <2>2. ASSUME NEW j \in 1 .. Len(u)
        PROVE  u[j] = IF i + j = 1 THEN <<"size", s>> ELSE <<m, i + j - 1>>
    <3>1. i + j # 1 /\ i + j - 1 = given + j /\ j \in 1 .. k
      BY <1>3, <1>9, <1>11
    <3> QED BY <1>9, <3>1
  <2> QED BY <1>0, <1>6, <1>9, <1>10, <1>12, <2>1, <2>2 DEF Appends
<1>14. PICK m2 \in [1 .. (Len(stream') + 1) -> Nat], i2 \in [1 .. (Len(stream') + 1) -> Nat] :
          /\ Placed(m2, i2)'
          /\ m2[1] = msg[1] /\ i2[1] = idx[1]
          /\ Reaches(m2, msg, u, m, i, s)
          /\ IF i + Len(u) <= s
             THEN m2[Len(stream') + 1] = m /\ i2[Len(stream') + 1] = i + Len(u)
             ELSE m2[Len(stream') + 1] = m + 1 /\ i2[Len(stream') + 1] = 0
  <2>1. PICK a, b : PlacedBehind(a, b, msg, idx, u, m, i, s)
    BY <1>1, <1>3, <1>0, <1>13, PlacedExtends
  <2> QED BY <2>1 DEF PlacedBehind
<1>15. SenderAt(m2[Len(stream) + 1], i2[Len(stream) + 1])'
  <2>1. Message' = m /\ i + Len(u) = given' + 1 /\ (i + Len(u) <= s <=> left' > 0)
    BY <1>0, <1>2, <1>3, <1>4, <1>5, <1>8, <1>9, <1>11
  <2> QED BY <1>2, <1>14, <2>1 DEF SenderAt
<1>16. rpc' # "end" => ReceiverAt(m2[1], i2[1])'
  BY <1>2, <1>10, <1>14 DEF ReceiverAt
<1>17. StreamInv'
  <2>1. ASSUME NEW j \in 1 .. (Len(stream') + 1) PROVE Within(m2[j])'
    <3>1. /\ i + Len(u) = given' + 1 /\ given' + left' = size /\ Message' = m /\ m \in Nat
          /\ left' \in Nat /\ left # 0
      BY <1>2, <1>3, <1>4, <1>5, <1>8, <1>9, <1>11
    <3>2. m2[j] \in Nat /\ (m2[j] <= m \/ (m2[j] = m + 1 /\ left' = 0))
      <4>1. CASE j \in 1 .. (Len(stream) + 1) /\ m2[j] = msg[j]
        <5>1. msg[j] \in Nat /\ Within(msg[j])
          BY <1>10, <4>1
        <5> QED BY <1>5, <3>1, <4>1, <5>1 DEF Within
      <4>2. CASE m2[j] = m
        BY <3>1, <4>2
      <4>3. CASE m2[j] = m + 1 /\ i + Len(u) > s
        BY <1>0, <1>2, <1>3, <1>8, <3>1, <4>3
      <4> QED BY <1>14, <4>1, <4>2, <4>3 DEF Reaches
    <3>3. \A l \in DOMAIN answers' : answers'[l].answer = 1
      BY <1>1, <1>2 DEF SendInv
    <3>4. m2[j] <= Message' + 1 /\ (~(spc' = "body" /\ left' = 0) => m2[j] <= Message')
      BY <1>2, <3>1, <3>2
    <3> QED BY <3>3, <3>4 DEF Within
  <2> QED BY <1>14, <1>15, <1>16, <2>1 DEF StreamInv
<1>18. stream' \in Seq(Units)
  BY <1>3, <1>9
<1> QED BY <1>1, <1>2, <1>17, <1>18, ReceivedStays DEF receiver

\* A receiver that calls, gives up or has the whole message leaves the stream alone.
LEMMA ReceiverSteps ==
    ASSUME InStep, SizesKept, RecvCall \/ RecvHeaderFails \/ RecvHeaderShort \/ RecvBodyFails \/ RecvDone
    PROVE  ReceivedInv' /\ StreamInv' /\ AsSent'
<1>1. SendInv /\ ReceivedInv /\ StreamInv /\ AsSent
  BY DEF InStep
<1>2. UNCHANGED <<conn, stream, spc, size, left, given, answers, torecv>>
  BY DEF RecvCall, RecvHeaderFails, RecvHeaderShort, RecvBodyFails, RecvDone, sender
<1>3. /\ stream \in Seq(Units) /\ data \in Seq(Units) /\ received \in Seq(Seq(Units))
      /\ torecv \in Nat /\ Len(received) <= Sent /\ Len(received) \in Nat
  BY <1>1 DEF ReceivedInv
<1>4. /\ Sent \in Nat /\ Sent' = Sent
      /\ \A m \in 1 .. Sent : SizeOf(m) \in Nat /\ SizeOf(m)' = SizeOf(m)
  BY <1>1, <1>2, SizesAreNumbers DEF SizesKept, Sent, Message
<1>5. ASSUME rpc' # "end" => rpc # "end" /\ \A m, i \in Nat : ReceiverAt(m, i) => ReceiverAt(m, i)'
      PROVE  StreamInv'
  <2>1. PICK n : n = Len(stream)
    OBVIOUS
  <2>2. n \in 0 .. Len(stream) /\ stream' = SubSeq(stream, 1, n)
    BY <1>2, <1>3, <2>1
  <2>3. \A m, i \in Nat : SenderAt(m, i) => SenderAt(m, i)'
    BY <1>2 DEF SenderAt, Message
  <2>4. \A k \in Nat : Within(k) => Within(k)'
    BY <1>2, WithinKept
  <2> QED BY <1>1, <1>2, <1>3, <1>5, <2>1, <2>2, <2>3, <2>4, StreamStays
<1>6. CASE RecvCall
  <2>1. rpc = "idle" /\ rpc' = "header" /\ data' = <<>> /\ received' = received
    BY <1>6 DEF RecvCall
  <2>2. ReceivedInv'
    BY <1>2, <1>3, <1>4, <2>1 DEF ReceivedInv
  <2>3. StreamInv'
    BY <1>5, <2>1 DEF ReceiverAt
  <2>4. AsSent'
    BY <1>1, <1>2, <2>1 DEF AsSent, Message
  <2> QED BY <2>2, <2>3, <2>4
<1>7. CASE RecvHeaderFails \/ RecvHeaderShort \/ RecvBodyFails
  <2>1. rpc' = "end" /\ data' = data /\ received' = received
    BY <1>7 DEF RecvHeaderFails, RecvHeaderShort, RecvBodyFails
  <2>2. ReceivedInv'
    BY <1>2, <1>3, <1>4, <2>1 DEF ReceivedInv
  <2>3. StreamInv'
    BY <1>5, <2>1
  <2>4. AsSent'
    BY <1>1, <1>2, <2>1 DEF AsSent, Message
  <2> QED BY <2>2, <2>3, <2>4
<1>8. CASE RecvDone
  <2>1. PICK r : r = Len(received) + 1
    OBVIOUS
  <2>2. /\ rpc = "body" /\ torecv = 0 /\ rpc' = "idle" /\ data' = data
        /\ received' = Append(received, data)
    BY <1>8 DEF RecvDone
  <2>3. /\ r \in 1 .. Sent /\ Len(data) = SizeOf(r) /\ \A i \in DOMAIN data : data[i] = <<r, i>>
    BY <1>1, <1>3, <1>4, <2>1, <2>2 DEF ReceivedInv
  <2>4. /\ received' \in Seq(Seq(Units)) /\ Len(received') = r /\ received'[r] = data
        /\ \A m \in 1 .. Len(received) : received'[m] = received[m]
    BY <1>3, <2>1, <2>2
  <2>5. ReceivedInv'
    BY <1>2, <1>3, <1>4, <2>2, <2>3, <2>4 DEF ReceivedInv
  <2>6. StreamInv'
    <3>1. \A m, i \in Nat : ReceiverAt(m, i) => ReceiverAt(m, i)'
      BY <1>3, <2>1, <2>2, <2>4 DEF ReceiverAt
    <3> QED BY <1>5, <2>2, <3>1
  <2>7. AsSent'
    <3>1. ASSUME NEW m \in DOMAIN received'
          PROVE  /\ \A i \in DOMAIN received'[m] : received'[m][i] = <<m, i>>
                 /\ Len(received'[m]) = SizeOf(m)'
      <4>1. CASE m = r
        BY <1>4, <2>3, <2>4, <4>1
      <4>2. CASE m \in 1 .. Len(received)
        <5>1. m \in DOMAIN received /\ m \in 1 .. Sent
          BY <1>3, <1>4, <4>2
        <5>2. /\ \A i \in DOMAIN received[m] : received[m][i] = <<m, i>>
              /\ Len(received[m]) = SizeOf(m)
          BY <1>1, <5>1 DEF AsSent, SizeOf
        <5> QED BY <1>4, <2>4, <4>2, <5>1, <5>2
      <4>3. m \in 1 .. r
        BY <2>4
      <4> QED BY <1>3, <2>1, <4>1, <4>2, <4>3
    <3> QED BY <3>1 DEF AsSent, SizeOf
  <2> QED BY <2>5, <2>6, <2>7
<1> QED BY <1>6, <1>7, <1>8

\* So do the steps on the sockets, the end of a connection, and a sendData that sends nothing;
\* a message that is answered is followed by the next.
LEMMA QuietSteps ==
    ASSUME InStep, SizesKept,
           \/ Open \/ Cut \/ Close \/ UNCHANGED vars
           \/ \E n \in Sizes : SendCall(n)
           \/ SendHeaderIgnored \/ SendHeaderTls \/ SendBodyFails \/ SendBodyTls \/ SendDone
    PROVE  ReceivedInv' /\ StreamInv' /\ AsSent'
<1> DEFINE Goes == conn' \in {"none", "up"} =>
                       conn \in {"none", "up"} /\ \A m, i \in Nat : SenderAt(m, i) => SenderAt(m, i)'
<1>1. SendInv /\ ReceivedInv /\ StreamInv /\ AsSent
  BY DEF InStep
<1>2. UNCHANGED receiver
  BY DEF Open, NewServer, NewServerTls, NewClientFails, Connect, ConnectUnseen, Accept,
     AcceptTls, RefuseTls,
     AcceptUnverified, UseFreed, HandshakeFails, Cut, Close, vars, SendCall, SendHeaderIgnored, SendHeaderTls,
     SendBodyFails, SendBodyTls, SendDone, Answers
<1>3. /\ stream \in Seq(Units) /\ Len(stream) \in Nat /\ Len(answers) \in Nat
      /\ stream = SubSeq(stream, 1, Len(stream))
  BY <1>1 DEF SendInv, ReceivedInv
<1>4. \A m, i \in Nat : ReceiverAt(m, i) => ReceiverAt(m, i)'
  BY <1>2 DEF receiver, ReceiverAt
<1>5. \/ stream' = stream /\ Goes
      \/ conn' = "reset" /\ \E n \in 0 .. Len(stream) : stream' = SubSeq(stream, 1, n)
  <2>1. CASE Open
    <3>1. UNCHANGED <<stream, sender>> /\ (conn' \in {"none", "up"} => conn \in {"none", "up"})
      BY <1>1, <2>1 DEF Open, NewServer, NewServerTls, NewClientFails, Connect, ConnectUnseen,
         Accept, AcceptTls, RefuseTls,
     AcceptUnverified, UseFreed, HandshakeFails, SendInv
    <3> QED BY <3>1 DEF sender, SenderAt, Message
  <2>2. CASE Cut
    BY <2>2 DEF Cut
  <2>3. CASE Close \/ UNCHANGED vars
    <3>1. UNCHANGED <<stream, conn, sender>>
      BY <2>3 DEF Close, vars
    <3> QED BY <3>1 DEF sender, SenderAt, Message
  <2>4. ASSUME NEW n \in Sizes, SendCall(n) PROVE stream' = stream /\ Goes
    BY <2>4 DEF SendCall, SenderAt, Message
  <2>5. CASE SendHeaderIgnored \/ SendHeaderTls \/ SendBodyFails \/ SendBodyTls
    BY <2>5 DEF SendHeaderIgnored, SendHeaderTls, SendBodyFails, SendBodyTls, Answers
  <2>6. CASE SendDone
    <3>1. /\ spc = "body" /\ ~(left > 0) /\ stream' = stream /\ conn' = conn /\ spc' = "idle"
          /\ answers' = Append(answers, [size |-> size, answer |-> 1, given |-> given])
      BY <2>6 DEF SendDone, Answers
    <3>2. Message' = Message + 1
      <4>1. answers \in Seq([size : Nat, answer : {0, 1}, given : Nat])
        BY <1>1 DEF SendInv
      <4>2. Len(answers') = Len(answers) + 1
        BY <3>1, <4>1
      <4> QED BY <4>2 DEF Message
    <3> QED BY <3>1, <3>2 DEF SenderAt
  <2> QED BY <2>1, <2>2, <2>3, <2>4, <2>5, <2>6
<1>6. PICK n \in 0 .. Len(stream) :
          stream' = SubSeq(stream, 1, n) /\ (conn' \in {"none", "up"} => n = Len(stream) /\ Goes)
  <2> HIDE DEF Goes
  <2>1. CASE stream' = stream /\ Goes
    <3>1. Len(stream) \in 0 .. Len(stream) /\ stream' = SubSeq(stream, 1, Len(stream))
      BY <1>3, <2>1
    <3> QED BY <2>1, <3>1
  <2>2. CASE conn' = "reset" /\ \E n \in 0 .. Len(stream) : stream' = SubSeq(stream, 1, n)
    BY <2>2
  <2> QED BY <1>5, <2>1, <2>2
<1>7. StreamInv'
  <2>1. \A k \in Nat : Within(k) => Within(k)'
    BY <1>1, WithinStays
  <2> HIDE DEF Goes
  <2>2. conn' \in {"none", "up"} =>
            /\ conn \in {"none", "up"} /\ n = Len(stream)
            /\ \A m, i \in Nat : SenderAt(m, i) => SenderAt(m, i)'
    BY <1>6 DEF Goes
  <2>3. rpc' # "end" => rpc # "end" /\ \A m, i \in Nat : ReceiverAt(m, i) => ReceiverAt(m, i)'
    BY <1>2, <1>4 DEF receiver
  <2> QED BY <1>1, <1>3, <1>6, <2>1, <2>2, <2>3, StreamStays
<1>8. stream' \in Seq(Units)
  <2>1. stream' = SubSeq(stream, 1, n)
    BY <1>6
  <2>2. SubSeq(stream, 1, n) \in Seq(Units)
    BY <1>3
  <2> QED BY <2>1, <2>2
<1> QED BY <1>1, <1>2, <1>7, <1>8, ReceivedStays

\* At first nothing is sent, and both go on at the size of the first message.
LEMMA DeliverInit == Init => DeliverInv
<1> SUFFICES ASSUME Init PROVE DeliverInv
  OBVIOUS
<1>1. SendInv
  BY MessageInit DEF MessageInv
<1>2. ReceivedInv /\ AsSent
  BY DEF Init, ReceivedInv, AsSent, Sent, Units
<1>3. StreamInv
  <2>1. stream = <<>> /\ answers = <<>> /\ spc = "idle" /\ rpc = "idle" /\ received = <<>>
    BY DEF Init
  <2>2. Len(stream) = 0 /\ Message = 1 /\ Len(received) + 1 = 1
    BY <2>1 DEF Message
  <2>3. PICK msg, idx : msg = [j \in 1 .. 1 |-> 1] /\ idx = [j \in 1 .. 1 |-> 0]
    OBVIOUS
  <2>4. /\ msg \in [1 .. (Len(stream) + 1) -> Nat] /\ idx \in [1 .. (Len(stream) + 1) -> Nat]
        /\ msg[Len(stream) + 1] = 1 /\ idx[Len(stream) + 1] = 0 /\ msg[1] = 1 /\ idx[1] = 0
    BY <2>2, <2>3
  <2>5. Placed(msg, idx)
    BY <2>2 DEF Placed
  <2>6. SenderAt(1, 0) /\ ReceiverAt(1, 0) /\ Within(1)
    BY <2>1, <2>2 DEF SenderAt, ReceiverAt, Within
  <2>7. \A j \in 1 .. (Len(stream) + 1) : Within(msg[j])
    BY <2>2, <2>3, <2>6
  <2> QED BY <2>4, <2>5, <2>6, <2>7 DEF StreamInv
<1>4. ~astray /\ ReceivedTypes /\ FirstAsSent
  BY <1>2 DEF Init, ReceivedInv, ReceivedTypes, FirstAsSent
<1> QED BY <1>1, <1>2, <1>3, <1>4 DEF DeliverInv

\* To append is to go on by one.
LEMMA AppendGoesOn ==
    ASSUME NEW S, NEW s \in Seq(S), NEW x \in S
    PROVE  Append(s, x) = [i \in 1 .. (Len(s) + 1) |-> IF i = Len(s) + 1 THEN x ELSE s[i]]
<1>1. PICK t : t = Append(s, x)
  OBVIOUS
<1>2. Len(s) \in Nat /\ t \in Seq(S) /\ Len(t) = Len(s) + 1 /\ t[Len(s) + 1] = x
  BY <1>1
<1>3. \A i \in 1 .. Len(s) : t[i] = s[i]
  BY <1>1
<1>4. t = [i \in 1 .. (Len(s) + 1) |-> t[i]]
  BY <1>2
<1>5. \A i \in 1 .. (Len(s) + 1) : t[i] = IF i = Len(s) + 1 THEN x ELSE s[i]
  BY <1>2, <1>3
<1> QED BY <1>1, <1>4, <1>5

\* The calls and the answers are sequences, of the sizes and of 1 or 0.
LEMMA ChannelSeqs ==
    ASSUME SendInv
    PROVE  /\ Calls \in Seq(Nat) /\ Len(Calls) = IF spc = "idle" THEN Len(answers) ELSE Message
           /\ Answered \in Seq({0, 1}) /\ Len(Answered) = Len(answers)
           /\ \A m \in 1 .. Len(Calls) : Calls[m] = SizeOf(m)
           /\ Len(answers) \in Nat /\ Message = Len(answers) + 1
<1>1. answers \in Seq([size : Nat, answer : {0, 1}, given : Nat]) /\ size \in Nat
  BY DEF SendInv
<1>2. PICK n : n = IF spc = "idle" THEN Len(answers) ELSE Message
  OBVIOUS
<1>3. Len(answers) \in Nat /\ Message = Len(answers) + 1 /\ n \in Nat /\ DOMAIN answers = 1 .. Len(answers)
  BY <1>1, <1>2 DEF Message
<1>4. \A m \in DOMAIN answers : answers[m].size \in Nat /\ answers[m].answer \in {0, 1}
  <2> DEFINE Record == [size : Nat, answer : {0, 1}, given : Nat]
  <2>1. \A r \in Record : r.size \in Nat /\ r.answer \in {0, 1}
    OBVIOUS
  <2>2. answers \in Seq(Record)
    BY <1>1
  <2> HIDE DEF Record
  <2>3. \A m \in DOMAIN answers : answers[m] \in Record
    BY <2>2
  <2> QED BY <2>1, <2>3
<1>5. \A m \in 1 .. n : SizeOf(m) \in Nat
  <2>1. PICK k : k = Len(answers)
    OBVIOUS
  <2>a. k \in Nat /\ (n = k \/ n = k + 1)
    BY <1>2, <1>3, <2>1
  <2>2. \A m \in 1 .. n : m = k + 1 \/ m \in 1 .. k
    BY <2>a
  <2>3. \A m \in 1 .. n : m = Message \/ m \in DOMAIN answers
    BY <1>3, <2>1, <2>2
  <2> QED BY <1>1, <1>4, <2>3 DEF SizeOf
<1>6. Calls = [m \in 1 .. n |-> SizeOf(m)]
  BY <1>2, Zenon DEF Calls, SizeOf
<1>7. Calls \in Seq(Nat) /\ Len(Calls) = n /\ \A m \in 1 .. n : Calls[m] = SizeOf(m)
  BY <1>3, <1>5, <1>6
<1>8. Answered = [m \in 1 .. Len(answers) |-> answers[m].answer]
  BY <1>3 DEF Answered
<1>9. Answered \in Seq({0, 1}) /\ Len(Answered) = Len(answers)
  BY <1>3, <1>4, <1>8
<1> QED BY <1>2, <1>3, <1>7, <1>9

\* Units stay units, whoever takes them for what.
LEMMA TypesStep ==
    ASSUME SendInv, ReceivedTypes, [Next]_vars
    PROVE  ReceivedTypes'
<1>1. /\ stream \in Seq(Units) /\ data \in Seq(Units) /\ received \in Seq(Seq(Units))
      /\ torecv \in Nat /\ size \in Nat /\ given \in Nat /\ Len(answers) \in Nat /\ RecvRoom \in Nat
  BY TransportOK DEF ReceivedTypes, SendInv
<1>2. CASE UNCHANGED <<stream, receiver>>
  BY <1>2 DEF receiver, ReceivedTypes
<1>3. CASE Open \/ Close \/ UNCHANGED vars \/ \E n \in Sizes : SendCall(n)
  BY <1>2, <1>3 DEF Open, NewServer, NewServerTls, NewClientFails, Connect, ConnectUnseen, Accept,
     AcceptTls, RefuseTls, AcceptUnverified, UseFreed, HandshakeFails, Close, SendCall, vars
<1>4. CASE Cut
  <2>1. UNCHANGED receiver /\ (stream' = stream \/ \E n \in 0 .. Len(stream) : stream' = SubSeq(stream, 1, n))
    BY <1>4 DEF Cut
  <2>2. \A n \in 0 .. Len(stream) : SubSeq(stream, 1, n) \in Seq(Units)
    BY <1>1
  <2> QED BY <1>1, <2>1, <2>2 DEF receiver, ReceivedTypes
<1>5. CASE Send
  <2>1. CASE SendHeader
    <3>1. <<"size", size>> \in Units
      BY <1>1 DEF Units
    <3>2. stream' = Append(stream, <<"size", size>>) /\ UNCHANGED receiver
      BY <2>1 DEF SendHeader
    <3> QED BY <1>1, <3>1, <3>2 DEF receiver, ReceivedTypes
  <2>2. ASSUME NEW k \in 1 .. Modulus, SendBody(k) PROVE ReceivedTypes'
    <3>1. Message \in Nat /\ k \in Nat
      BY <1>1, TransportOK DEF Message
    <3>2. PICK u : u = [i \in 1 .. k |-> <<Message, given + i>>]
      OBVIOUS
    <3>3. \A i \in 1 .. k : <<Message, given + i>> \in Units
      BY <1>1, <3>1 DEF Units
    <3>4. u \in Seq(Units)
      BY <3>1, <3>2, <3>3
    <3>5. stream' = stream \o u /\ UNCHANGED receiver
      BY <2>2, <3>2 DEF SendBody
    <3>6. stream' \in Seq(Units)
      BY <1>1, <3>4, <3>5
    <3> QED BY <1>1, <3>5, <3>6 DEF receiver, ReceivedTypes
  <2>3. CASE SendHeaderIgnored \/ SendHeaderTls \/ SendBodyFails \/ SendBodyTls \/ SendDone
    BY <1>2, <2>3 DEF SendHeaderIgnored, SendHeaderTls, SendBodyFails, SendBodyTls, SendDone, Answers
  <2> QED BY <1>5, <2>1, <2>2, <2>3 DEF Send
<1>6. CASE Receive
  <2>1. CASE RecvHeader
    <3>1. stream # <<>> /\ stream' = Tail(stream) /\ UNCHANGED <<data, received>>
      BY <2>1 DEF RecvHeader
    <3>2. Head(stream) \in Units /\ stream' \in Seq(Units)
      BY <1>1, <3>1
    <3>3. torecv' \in 0 .. RecvRoom \/ torecv' = Head(stream)[2] \/ torecv' = RecvRoom
      BY <2>1 DEF RecvHeader
    <3>4. torecv' \in Nat
      BY <1>1, <3>2, <3>3 DEF Units
    <3> QED BY <1>1, <3>1, <3>2, <3>4 DEF ReceivedTypes
  <2>2. ASSUME NEW k \in 1 .. Modulus, RecvBody(k) PROVE ReceivedTypes'
    <3>1. /\ k \in 1 .. torecv /\ k <= Len(stream) /\ data' = data \o SubSeq(stream, 1, k)
          /\ stream' = SubSeq(stream, k + 1, Len(stream)) /\ torecv' = torecv - k
          /\ received' = received
      BY <2>2 DEF RecvBody
    <3>2. SubSeq(stream, 1, k) \in Seq(Units) /\ stream' \in Seq(Units) /\ torecv' \in Nat
      BY <1>1, <3>1
    <3>3. data' \in Seq(Units)
      BY <1>1, <3>1, <3>2
    <3> QED BY <1>1, <3>1, <3>2, <3>3 DEF ReceivedTypes
  <2>3. CASE RecvDone
    BY <1>1, <2>3 DEF RecvDone, ReceivedTypes
  <2>4. CASE RecvCall
    BY <1>1, <2>4 DEF RecvCall, ReceivedTypes
  <2>5. CASE RecvHeaderFails \/ RecvHeaderShort \/ RecvBodyFails
    BY <1>1, <2>5 DEF RecvHeaderFails, RecvHeaderShort, RecvBodyFails, ReceivedTypes
  <2> QED BY <1>6, <2>1, <2>2, <2>3, <2>4, <2>5 DEF Receive
<1> QED BY <1>3, <1>4, <1>5, <1>6 DEF Next

\* A receiver goes astray when it reads a size, and for good.
LEMMA AstrayStep ==
    ASSUME [Next]_vars
    PROVE  (astray => astray') /\ (astray' => astray \/ RecvHeader)
<1>1. CASE UNCHANGED receiver
  BY <1>1 DEF receiver
<1>2. CASE Receive
  BY <1>2 DEF Receive, RecvCall, RecvHeader, RecvHeaderFails, RecvHeaderShort, RecvBody,
     RecvBodyFails, RecvDone
<1>3. CASE ~Receive
  BY <1>1, <1>3 DEF Next, vars, Open, NewServer, NewServerTls, NewClientFails, Connect,
     ConnectUnseen, Accept, AcceptTls, RefuseTls, AcceptUnverified, UseFreed, HandshakeFails, Cut,
     Close, SendCall, Send, SendHeader, SendHeaderIgnored, SendHeaderTls, SendBody, SendBodyFails,
     SendBodyTls, SendDone, Answers
<1> QED BY <1>2, <1>3

\* Only a message that is complete is added to what was received.
LEMMA ReceivedStep ==
    ASSUME [Next]_vars
    PROVE  received' = received \/ RecvDone
<1>1. CASE UNCHANGED receiver
  BY <1>1 DEF receiver
<1>2. CASE Receive
  BY <1>2 DEF Receive, RecvCall, RecvHeader, RecvHeaderFails, RecvHeaderShort, RecvBody, RecvBodyFails
<1>3. CASE ~Receive
  BY <1>1, <1>3 DEF Next, vars, Open, NewServer, NewServerTls, NewClientFails, Connect,
     ConnectUnseen, Accept, AcceptTls, RefuseTls, AcceptUnverified, UseFreed, HandshakeFails, Cut,
     Close, SendCall, Send, SendHeader, SendHeaderIgnored, SendHeaderTls, SendBody, SendBodyFails,
     SendBodyTls, SendDone, Answers
<1> QED BY <1>2, <1>3

\* The first messages stay as they were sent while nothing else is received.
LEMMA FirstStays ==
    ASSUME SendInv, SizesKept, ReceivedTypes, FirstAsSent, received' = received
    PROVE  FirstAsSent'
<1>1. /\ Sent \in Nat /\ Sent' \in Nat /\ Sent <= Sent'
      /\ \A m \in 1 .. Sent : m \in 1 .. Sent' /\ SizeOf(m)' = SizeOf(m)
  BY SizesAreNumbers DEF SizesKept
<1> QED BY <1>1 DEF FirstAsSent

\* So they do when the receiver, having gone astray, adds what it takes for a message.
LEMMA StrayedKeepsFirst ==
    ASSUME SendInv, SizesKept, ReceivedTypes, FirstAsSent, Strayed, RecvDone
    PROVE  FirstAsSent'
<1>1. /\ Sent \in Nat /\ Sent' \in Nat /\ Sent <= Sent'
      /\ \A m \in 1 .. Sent : m \in 1 .. Sent' /\ SizeOf(m)' = SizeOf(m)
  BY SizesAreNumbers DEF SizesKept
<1>2. /\ received' = Append(received, data) /\ data \in Seq(Units) /\ received \in Seq(Seq(Units))
  BY DEF RecvDone, ReceivedTypes
<1>3. /\ Len(received) \in Nat /\ DOMAIN received' = 1 .. (Len(received) + 1)
      /\ DOMAIN received = 1 .. Len(received) /\ \A m \in 1 .. Len(received) : received'[m] = received[m]
  BY <1>2
<1>4. SUFFICES ASSUME NEW m \in DOMAIN received'
      PROVE  \/ \E k \in 1 .. Sent' : k <= m /\ SizeOf(k)' > RecvRoom
             \/ /\ m \in 1 .. Sent' /\ Len(received'[m]) = SizeOf(m)'
                /\ \A i \in DOMAIN received'[m] : received'[m][i] = <<m, i>>
  BY DEF FirstAsSent
<1>5. CASE m \in DOMAIN received
  <2>1. \/ \E k \in 1 .. Sent : k <= m /\ SizeOf(k) > RecvRoom
        \/ /\ m \in 1 .. Sent /\ Len(received[m]) = SizeOf(m)
           /\ \A i \in DOMAIN received[m] : received[m][i] = <<m, i>>
    BY <1>5 DEF FirstAsSent
  <2> QED BY <1>1, <1>3, <1>5, <2>1
<1>6. CASE m = Len(received) + 1
  BY <1>1, <1>6 DEF Strayed
<1> QED BY <1>3, <1>5, <1>6

\* Every step of the program keeps the order of what is in the stream and of what was
\* received, as long as all fits, and what was received in that time ever after.
LEMMA DeliverStep == MessageInv /\ DeliverInv /\ [Next]_vars => DeliverInv'
<1> SUFFICES ASSUME MessageInv, DeliverInv, [Next]_vars PROVE DeliverInv'
  OBVIOUS
<1>1. SendInv'
  BY MessageStep DEF MessageInv
<1>2. SizesKept
  BY SizesStay DEF DeliverInv, SizesKept
<1>3. ReceivedTypes'
  BY TypesStep DEF DeliverInv
<1>4. CASE ~astray /\ ~astray'
  <2>0. InStep
    BY <1>4 DEF DeliverInv, InStep
  <2>1. ReceivedInv' /\ StreamInv' /\ AsSent'
    <3>1. CASE Open \/ Cut \/ Close \/ UNCHANGED vars \/ \E n \in Sizes : SendCall(n)
      BY <1>2, <2>0, <3>1, QuietSteps
    <3>2. CASE Receive
      BY <1>2, <1>4, <2>0, <3>2, ReceiverSteps, HeaderIsReceived, BodyIsReceived DEF Receive
    <3>3. CASE Send
      BY <1>2, <2>0, <3>3, QuietSteps, HeaderIsSent, BodyIsSent DEF Send
    <3> QED BY <3>1, <3>2, <3>3 DEF Next
  <2>2. FirstAsSent'
    <3>1. /\ DOMAIN received' = 1 .. Len(received') /\ Len(received') \in Nat
          /\ Len(received') <= Sent' /\ Sent' \in Nat
      BY <1>2, <2>1 DEF ReceivedInv, SizesKept
    <3>2. \A m \in DOMAIN received' : m \in 1 .. Sent'
      BY <3>1
    <3> QED BY <2>1, <3>2 DEF FirstAsSent, AsSent, SizeOf
  <2> QED BY <1>1, <1>3, <1>4, <2>1, <2>2 DEF DeliverInv
<1>5. CASE ~astray /\ astray'
  <2>1. RecvHeader /\ received' = received
    BY <1>5, AstrayStep DEF RecvHeader
  <2>2. Strayed'
    BY <1>2, <1>5, <2>1, HeaderIsTooLarge DEF DeliverInv, InStep
  <2>3. FirstAsSent'
    BY <1>2, <2>1, FirstStays DEF DeliverInv
  <2> QED BY <1>1, <1>3, <1>5, <2>2, <2>3 DEF DeliverInv
<1>6. CASE astray
  <2>1. astray' /\ SendInv /\ ReceivedTypes /\ FirstAsSent /\ Strayed
    BY <1>6, AstrayStep DEF DeliverInv
  <2>2. Len(received) \in Nat /\ Len(received') \in Nat /\ Len(received) <= Len(received')
    <3>1. received \in Seq(Seq(Units))
      BY <2>1 DEF ReceivedTypes
    <3>2. CASE received' = received
      BY <3>1, <3>2
    <3>3. CASE RecvDone
      <4>1. received' = Append(received, data) /\ data \in Seq(Units)
        BY <2>1, <3>3 DEF RecvDone, ReceivedTypes
      <4> QED BY <3>1, <4>1
    <3> QED BY <3>2, <3>3, ReceivedStep
  <2>3. Strayed'
    <3>1. PICK k \in 1 .. Sent : k <= Len(received) + 1 /\ SizeOf(k) > RecvRoom
      BY <2>1 DEF Strayed
    <3>2. k \in 1 .. Sent' /\ SizeOf(k)' = SizeOf(k) /\ k <= Len(received') + 1
      BY <1>2, <2>1, <2>2, <3>1, SizesAreNumbers DEF SizesKept
    <3> QED BY <3>1, <3>2 DEF Strayed
  <2>4. FirstAsSent'
    BY <1>2, <2>1, ReceivedStep, FirstStays, StrayedKeepsFirst
  <2> QED BY <1>1, <1>3, <2>1, <2>3, <2>4 DEF DeliverInv
<1> QED BY <1>4, <1>5, <1>6

\* The data come out exactly as they were sent, DeliveredAsSent: for messages of any size,
\* however the stream is cut into pieces or off, up to the first one for which the caller
\* of recvData has no room.
THEOREM DataComesOutAsSent == Spec => []DeliveredAsSent
<1>1. DeliverInv => DeliveredAsSent
  <2> SUFFICES ASSUME DeliverInv PROVE DeliveredAsSent
    OBVIOUS
  <2>1. SendInv /\ FirstAsSent
    BY DEF DeliverInv
  <2>2. DOMAIN Calls = 1 .. Len(Calls) /\ \A m \in 1 .. Len(Calls) : Calls[m] = SizeOf(m)
    BY <2>1, ChannelSeqs
  <2>3. \A m \in 1 .. Sent : m \in 1 .. Len(Calls)
    BY <2>1, ChannelSeqs DEF Sent
  <2> QED BY <2>1, <2>2, <2>3 DEF FirstAsSent, DeliveredAsSent
<1> QED BY MessageInit, MessageStep, DeliverInit, DeliverStep, <1>1, PTL DEF Spec

-----------------------------------------------------------------------------
(* A connection is a Channel.                                              *)

\* A message is not received before its last byte is given away; one that sendData answers
\* 0 for is not received at all, nor a later one.
Told ==
    /\ spc = "body" /\ left # 0 => Len(received) < Message
    /\ \A m \in DOMAIN answers : answers[m].answer = 0 => Len(received) < m

ToldInv == ~astray => Told

\* At first nothing is received.
LEMMA ToldInit == Init => ToldInv
BY DEF Init, ToldInv, Told

\* A message of which the last byte was received was given away whole, so that it is not
\* going to be answered 0, and was not.
LEMMA DeliveredIsGiven ==
    ASSUME InStep, RecvDone
    PROVE  /\ Len(received) + 1 \in 1 .. Sent
           /\ ~(spc = "body" /\ left = 0) => Len(received) + 1 < Message
           /\ \A m \in DOMAIN answers : answers[m].answer = 0 => Len(received) + 1 < m
           /\ Len(data) = SizeOf(Len(received) + 1)
           /\ \A i \in DOMAIN data : data[i] = <<Len(received) + 1, i>>
<1>1. SendInv /\ ReceivedInv /\ StreamInv /\ rpc = "body" /\ torecv = 0
  BY DEF InStep, RecvDone
<1>2. PICK r : r = Len(received) + 1
  OBVIOUS
<1>3. /\ r \in Nat /\ r <= Sent /\ Sent \in Nat /\ r > 0
      /\ Len(data) + 0 = SizeOf(r) /\ Len(data) \in Nat /\ \A i \in DOMAIN data : data[i] = <<r, i>>
  BY <1>1, <1>2, SizesAreNumbers DEF ReceivedInv
<1>4. PICK k \in Nat : Within(k) /\ k = r + 1
  <2>1. PICK msg \in [1 .. (Len(stream) + 1) -> Nat], idx \in [1 .. (Len(stream) + 1) -> Nat] :
            /\ \A j \in 1 .. (Len(stream) + 1) : Within(msg[j])
            /\ ReceiverAt(msg[1], idx[1])
    BY <1>1 DEF StreamInv
  <2>2. 1 \in 1 .. (Len(stream) + 1)
    BY <1>1 DEF ReceivedInv
  <2> QED BY <1>1, <1>2, <2>1, <2>2 DEF ReceiverAt
<1>5. Len(answers) \in Nat
  BY <1>1 DEF SendInv
<1> QED BY <1>2, <1>3, <1>4, <1>5 DEF Within, Message

\* An answer of 0 is that of a message of which bytes are missing.
LEMMA ToldAnswer ==
    ASSUME SendInv, ReceivedInv, Told, NEW a \in {0, 1}, Answers(a), spc # "idle",
           a = 0 => ~(spc = "body" /\ left = 0)
    PROVE  Told' /\ (a = 0 => Len(received) < Message)
<1>1. a = 0 => Len(received) < Message
  <2>1. Len(answers) \in Nat /\ Len(received) \in Nat /\ Len(received) <= Sent
    BY DEF SendInv, ReceivedInv
  <2> QED BY <2>1 DEF Sent, Told, Message
<1> DEFINE rec == [size |-> size, answer |-> a, given |-> given]
<1>2. answers \in Seq([size : Nat, answer : {0, 1}, given : Nat]) /\ {size, given} \subseteq Nat
  BY DEF SendInv
<1>3. rec \in [size : Nat, answer : {0, 1}, given : Nat] /\ rec.answer = a
  BY <1>2
<1>4. answers' = Append(answers, rec) /\ spc' = "idle" /\ received' = received
  BY DEF Answers, receiver
<1>5. \A m \in DOMAIN answers' : \/ m \in DOMAIN answers /\ answers'[m] = answers[m]
                                 \/ m = Message /\ answers'[m] = rec
  <2> HIDE DEF rec
  <2> QED BY <1>2, <1>3, <1>4 DEF Message
<1> QED BY <1>1, <1>3, <1>4, <1>5 DEF Told

\* Every step of the program keeps to what sendData has said.
LEMMA ToldStep == DeliverInv /\ ToldInv /\ [Next]_vars => ToldInv'
<1> SUFFICES ASSUME DeliverInv, ToldInv, [Next]_vars, ~astray, ~astray' PROVE Told'
  BY AstrayStep DEF ToldInv
<1>0. InStep /\ Told
  BY DEF DeliverInv, InStep, ToldInv
<1>1. SendInv /\ ReceivedInv
  BY <1>0 DEF InStep
<1>2. Len(answers) \in Nat /\ Len(received) \in Nat /\ Len(received) <= Sent
  BY <1>1 DEF SendInv, ReceivedInv
<1>3. ASSUME UNCHANGED <<answers, received>>,
             spc' = "body" /\ left' # 0 => spc = "header" \/ (spc = "body" /\ left # 0)
      PROVE  Told'
  BY <1>0, <1>2, <1>3 DEF Told, Sent, Message
<1>4. CASE Open \/ Cut \/ Close \/ UNCHANGED vars
  <2>1. UNCHANGED <<spc, left, answers, received>>
    BY <1>4 DEF Open, NewServer, NewServerTls, NewClientFails, Connect, ConnectUnseen, Accept,
       AcceptTls, RefuseTls,
     AcceptUnverified, UseFreed, HandshakeFails, Cut, Close, vars, sender, receiver
  <2> QED BY <1>3, <2>1
<1>5. ASSUME NEW n \in Sizes, SendCall(n) PROVE Told'
  BY <1>3, <1>5 DEF SendCall, receiver
<1>6. CASE Send
  <2>1. CASE SendHeader \/ SendHeaderIgnored
    BY <1>3, <2>1 DEF SendHeader, SendHeaderIgnored, receiver
  <2>2. ASSUME NEW k \in 1 .. Modulus, SendBody(k) PROVE Told'
    <3>1. left # 0
      BY <1>1, <2>2 DEF SendBody, SendInv
    <3> QED BY <1>3, <2>2, <3>1 DEF SendBody, receiver
  <2>3. CASE SendHeaderTls
    BY <1>0, <1>1, <1>3, <2>3, ToldAnswer DEF SendHeaderTls, receiver
  <2>4. CASE SendBodyFails \/ SendBodyTls
    <3>1. left # 0 /\ spc = "body"
      BY <1>1, <2>4 DEF SendBodyFails, SendBodyTls, SendInv
    <3> QED BY <1>0, <1>1, <1>3, <2>4, <3>1, ToldAnswer DEF SendBodyFails, SendBodyTls, receiver
  <2>5. CASE SendDone
    BY <1>0, <1>1, <2>5, ToldAnswer DEF SendDone
  <2> QED BY <1>6, <2>1, <2>2, <2>3, <2>4, <2>5 DEF Send
<1>7. CASE Receive
  <2>1. CASE RecvDone
    <3>1. UNCHANGED <<spc, left, answers>> /\ Len(received') = Len(received) + 1
      BY <1>1, <2>1 DEF RecvDone, ReceivedInv, sender
    <3> QED BY <1>0, <2>1, <3>1, DeliveredIsGiven DEF Told, Message
  <2>2. CASE ~RecvDone
    <3>1. UNCHANGED <<spc, left, answers, received>>
      BY <1>7, <2>2 DEF Receive, RecvCall, RecvHeader, RecvHeaderFails, RecvHeaderShort,
         RecvBody, RecvBodyFails, sender
    <3> QED BY <1>3, <3>1
  <2> QED BY <2>1, <2>2
<1> QED BY <1>4, <1>5, <1>6, <1>7 DEF Next

\* A step that is neither a call of sendData nor its answer changes neither of them.
LEMMA ChannelStays ==
    ASSUME UNCHANGED <<size, answers>>, spc = "idle" <=> spc' = "idle"
    PROVE  Calls' = Calls /\ Answered' = Answered
<1>1. Answered' = Answered
  BY DEF Answered
<1>2. Message' = Message
  BY DEF Message
<1> QED BY <1>1, <1>2 DEF Calls

\* A call of sendData is a call of the channel.
LEMMA CallsChannel ==
    ASSUME SendInv, NEW n \in Sizes, SendCall(n)
    PROVE  C!Call(n)
<1>1. /\ spc = "idle" /\ spc' = "header" /\ size' = n /\ answers' = answers /\ received' = received
  BY DEF SendCall, receiver
<1>2. n \in Nat
  BY TransportOK
<1>3. /\ Calls \in Seq(Nat) /\ Len(Calls) = Len(answers) /\ Len(Answered) = Len(answers)
      /\ Message = Len(Calls) + 1 /\ Message' = Message
  BY <1>1, ChannelSeqs DEF Message
<1>4. \A m \in 1 .. Len(Calls) : Calls[m] = answers[m].size
  <2>1. \A m \in 1 .. Len(Calls) : m # Message
    BY <1>3
  <2> QED BY <2>1, ChannelSeqs DEF SizeOf
<1>5. Calls' = [m \in 1 .. (Len(Calls) + 1) |-> IF m = Len(Calls) + 1 THEN n ELSE Calls[m]]
  <2>1. Calls' = [m \in 1 .. Message |-> IF m = Message THEN n ELSE answers[m].size]
    BY <1>1, <1>3 DEF Calls
  <2>2. Message = Len(Calls) + 1
    BY <1>3
  <2>3. \A m \in 1 .. (Len(Calls) + 1) : m # Len(Calls) + 1 => answers[m].size = Calls[m]
    BY <1>3, <1>4
  <2> QED BY <2>1, <2>2, <2>3
<1>6. Calls' = Append(Calls, n)
  BY <1>2, <1>3, <1>5, AppendGoesOn
<1>7. Answered' = Answered
  BY <1>1 DEF Answered
<1> QED BY <1>1, <1>3, <1>6, <1>7 DEF C!Call

\* An answer is an answer of the channel.
LEMMA AnswersChannel ==
    ASSUME SendInv, NEW a \in {0, 1}, Answers(a), spc # "idle",
           a = 0 => Len(received) < Message \/ C!Overrun(Len(received))
    PROVE  C!Answer(a)
<1> DEFINE rec == [size |-> size, answer |-> a, given |-> given]
<1>1. /\ answers \in Seq([size : Nat, answer : {0, 1}, given : Nat])
      /\ {size, given} \subseteq Nat
  BY DEF SendInv
<1>2. rec \in [size : Nat, answer : {0, 1}, given : Nat] /\ rec.answer = a /\ rec.size = size
  BY <1>1
<1>3. answers' = Append(answers, rec) /\ spc' = "idle" /\ size' = size /\ received' = received
  BY DEF Answers, receiver
<1>4. PICK k : k = Len(answers)
  OBVIOUS
<1>5. /\ k \in Nat /\ Message = k + 1 /\ Len(Calls) = k + 1 /\ Len(Answered) = k
      /\ Calls \in Seq(Nat) /\ Answered \in Seq({0, 1})
      /\ \A m \in 1 .. (k + 1) : Calls[m] = SizeOf(m)
  BY <1>4, ChannelSeqs
<1>6. /\ Len(answers') = k + 1 /\ DOMAIN answers' = 1 .. (k + 1)
      /\ answers'[k + 1] = rec /\ \A m \in 1 .. k : answers'[m] = answers[m]
  <2> HIDE DEF rec
  <2> QED BY <1>1, <1>2, <1>3, <1>4
<1>7. Message' = k + 2
  BY <1>5, <1>6 DEF Message
<1>8. Calls' = Calls
  <2>1. Calls' = [m \in 1 .. (k + 1) |-> IF m = k + 2 THEN size ELSE answers'[m].size]
    BY <1>3, <1>6, <1>7 DEF Calls
  <2>2. \A m \in 1 .. (k + 1) : (IF m = k + 2 THEN size ELSE answers'[m].size) = SizeOf(m)
    <3>1. \A m \in 1 .. (k + 1) : m # k + 2 /\ (m = k + 1 \/ (m \in 1 .. k /\ m # Message))
      BY <1>5
    <3> QED BY <1>2, <1>5, <1>6, <3>1 DEF SizeOf
  <2>3. Calls' = [m \in 1 .. (k + 1) |-> Calls[m]]
    BY <1>5, <2>1, <2>2
  <2>4. Calls = [m \in 1 .. (k + 1) |-> Calls[m]]
    BY <1>5
  <2> QED BY <2>3, <2>4
<1>9. Answered' = Append(Answered, a)
  <2>1. Answered' = [m \in 1 .. (k + 1) |-> answers'[m].answer]
    BY <1>6 DEF Answered
  <2>2. \A m \in 1 .. (k + 1) : answers'[m].answer = IF m = k + 1 THEN a ELSE Answered[m]
    <3>1. \A m \in 1 .. (k + 1) : m = k + 1 \/ (m \in 1 .. k /\ m \in DOMAIN answers)
      BY <1>1, <1>4, <1>5
    <3> QED BY <1>2, <1>5, <1>6, <3>1 DEF Answered
  <2>3. Answered' = [m \in 1 .. (k + 1) |-> IF m = k + 1 THEN a ELSE Answered[m]]
    BY <2>1, <2>2
  <2>4. PICK s : s = Answered
    OBVIOUS
  <2>5. s \in Seq({0, 1}) /\ Len(s) = k
    BY <1>5, <2>4
  <2>6. Append(s, a) = [m \in 1 .. (Len(s) + 1) |-> IF m = Len(s) + 1 THEN a ELSE s[m]]
    BY <2>5, AppendGoesOn
  <2>7. Append(Answered, a) = [m \in 1 .. (k + 1) |-> IF m = k + 1 THEN a ELSE Answered[m]]
    BY <2>4, <2>5, <2>6, Zenon
  <2> QED BY <2>3, <2>7
<1>10. a = 0 => Len(received) < Len(Calls) \/ C!Overrun(Len(received))
  BY <1>5
<1>11. Len(Answered) < Len(Calls)
  BY <1>5
<1> QED BY <1>3, <1>8, <1>9, <1>10, <1>11 DEF C!Answer

\* A receiver that has gone astray has received too large a message or is receiving it.
LEMMA StrayedOverruns ==
    ASSUME SendInv, ReceivedTypes, Strayed
    PROVE  /\ C!Overrun(Len(received) + 1)
           /\ Len(received) < Message \/ C!Overrun(Len(received))
<1>1. PICK k \in 1 .. Sent : k <= Len(received) + 1 /\ SizeOf(k) > RecvRoom
  BY DEF Strayed
<1>2. /\ Len(received) \in Nat /\ Len(answers) \in Nat /\ Message = Len(answers) + 1
      /\ DOMAIN Calls = 1 .. Len(Calls) /\ Len(Calls) = IF spc = "idle" THEN Len(answers) ELSE Message
  BY ChannelSeqs DEF ReceivedTypes
<1>3. k \in 1 .. Len(Calls) /\ k <= Message /\ k \in Nat
  BY <1>1, <1>2 DEF Sent
<1>4. Calls[k] > RecvRoom
  BY <1>1, <1>3, ChannelSeqs
<1> QED BY <1>1, <1>2, <1>3, <1>4 DEF C!Overrun

\* What is received when a message was too large is garbled.
LEMMA GarblesChannel ==
    ASSUME ReceivedTypes, RecvDone, C!Overrun(Len(received) + 1)
    PROVE  C!Garble
<1>1. received' = Append(received, data) /\ UNCHANGED <<spc, size, answers>>
  BY DEF RecvDone, sender
<1>2. Len(received') = Len(received) + 1 /\ \A m \in DOMAIN received : received'[m] = received[m]
  BY <1>1 DEF ReceivedTypes
<1>3. Calls' = Calls /\ Answered' = Answered
  BY <1>1, ChannelStays
<1> QED BY <1>2, <1>3 DEF C!Garble

\* A message that is received whole is delivered by the channel.
LEMMA DeliversChannel ==
    ASSUME InStep, RecvDone, ~C!Overrun(Len(received) + 1)
    PROVE  C!Deliver
<1>1. SendInv /\ ReceivedInv
  BY DEF InStep
<1>2. /\ received' = Append(received, data)
      /\ UNCHANGED <<spc, size, left, answers>>
  BY DEF RecvDone, sender
<1>3. PICK r : r = Len(received) + 1
  OBVIOUS
<1>4. /\ r \in 1 .. Sent /\ Len(data) = SizeOf(r) /\ \A i \in DOMAIN data : data[i] = <<r, i>>
      /\ \A m \in DOMAIN answers : answers[m].answer = 0 => r < m
  BY <1>3, DeliveredIsGiven
<1>5. Sent <= Len(Calls) /\ Sent \in Nat /\ Len(Calls) \in Nat /\ Len(received) \in Nat
  BY <1>1, ChannelSeqs DEF Sent, ReceivedInv
<1>6. Len(received) < Len(Calls) /\ r \in 1 .. Len(Calls) /\ r \in Nat
  BY <1>3, <1>4, <1>5
<1>7. Calls[r] = Len(data)
  BY <1>1, <1>4, <1>6, ChannelSeqs
<1>8. data = C!Whole(r)
  <2>1. data = [i \in 1 .. Len(data) |-> data[i]] /\ DOMAIN data = 1 .. Len(data)
    BY <1>1 DEF ReceivedInv
  <2>2. data = [i \in 1 .. Len(data) |-> <<r, i>>]
    BY <1>4, <2>1
  <2> QED BY <1>7, <2>2 DEF C!Whole
<1>9. r \in DOMAIN Answered => Answered[r] = 1
  <2>1. DOMAIN Answered = DOMAIN answers
    BY DEF Answered
  <2>2. r \in DOMAIN answers => answers[r].answer # 0
    BY <1>4, <1>6
  <2>3. r \in DOMAIN Answered => Answered[r] \in {0, 1}
    BY <1>1, ChannelSeqs
  <2> QED BY <2>1, <2>2, <2>3 DEF Answered
<1>10. Calls' = Calls /\ Answered' = Answered
  BY <1>2, ChannelStays
<1> QED BY <1>2, <1>3, <1>6, <1>8, <1>9, <1>10 DEF C!Deliver

\* At first nothing was called.
LEMMA ChannelInit == Init => C!Init
<1> SUFFICES ASSUME Init PROVE C!Init
  OBVIOUS
<1>1. SendInv /\ spc = "idle" /\ answers = <<>> /\ received = <<>>
  BY MessageInit DEF MessageInv, Init
<1>2. /\ Calls \in Seq(Nat) /\ Len(Calls) = 0 /\ Answered \in Seq({0, 1}) /\ Len(Answered) = 0
  BY <1>1, ChannelSeqs
<1> QED BY <1>1, <1>2 DEF C!Init

\* Every step of the connection is one of the channel, or none.
LEMMA ChannelStep == DeliverInv /\ ToldInv /\ [Next]_vars => [C!Next]_(C!cvars)
<1> SUFFICES ASSUME DeliverInv, ToldInv, [Next]_vars PROVE [C!Next]_(C!cvars)
  OBVIOUS
<1>1. SendInv /\ ReceivedTypes
  BY DEF DeliverInv
<1>2. ASSUME UNCHANGED <<size, answers, received>>, spc = "idle" <=> spc' = "idle"
      PROVE  UNCHANGED C!cvars
  BY <1>2, ChannelStays DEF C!cvars
<1>3. CASE Open \/ Cut \/ Close \/ UNCHANGED vars
  <2>1. UNCHANGED <<spc, size, answers, received>>
    BY <1>3 DEF Open, NewServer, NewServerTls, NewClientFails, Connect, ConnectUnseen, Accept,
       AcceptTls, RefuseTls,
     AcceptUnverified, UseFreed, HandshakeFails, Cut, Close, vars, sender, receiver
  <2> QED BY <1>2, <2>1
<1>4. ASSUME NEW n \in Sizes, SendCall(n) PROVE C!Next
  BY <1>1, <1>4, CallsChannel DEF C!Next
<1>5. CASE Send
  <2>1. ASSUME NEW a \in {0, 1}, Answers(a), spc # "idle", a = 0 => ~(spc = "body" /\ left = 0)
        PROVE  C!Next
    <3>1. a = 0 => Len(received) < Message \/ C!Overrun(Len(received))
      <4>1. CASE astray
        BY <1>1, <4>1, StrayedOverruns DEF DeliverInv
      <4>2. CASE ~astray
        BY <2>1, <4>2, ToldAnswer DEF DeliverInv, ToldInv
      <4> QED BY <4>1, <4>2
    <3> QED BY <1>1, <2>1, <3>1, AnswersChannel DEF C!Next
  <2>2. CASE SendHeader \/ SendHeaderIgnored \/ \E k \in 1 .. Modulus : SendBody(k)
    <3>1. UNCHANGED <<size, answers, received>> /\ spc # "idle" /\ spc' # "idle"
      BY <2>2 DEF SendHeader, SendHeaderIgnored, SendBody, receiver
    <3> QED BY <1>2, <3>1
  <2>3. CASE SendHeaderTls
    <3>1. CASE Answers(0)
      BY <2>1, <2>3, <3>1 DEF SendHeaderTls
    <3>2. CASE ~Answers(0)
      BY <1>2, <2>3, <3>2 DEF SendHeaderTls, receiver
    <3> QED BY <3>1, <3>2
  <2>4. CASE SendBodyFails \/ SendBodyTls
    <3>1. left # 0 /\ spc = "body"
      BY <1>1, <2>4 DEF SendBodyFails, SendBodyTls, SendInv
    <3>2. CASE Answers(0)
      BY <2>1, <3>1, <3>2
    <3>3. CASE ~Answers(0)
      BY <1>2, <2>4, <3>3 DEF SendBodyFails, SendBodyTls, receiver
    <3> QED BY <3>2, <3>3
  <2>5. CASE SendDone
    BY <2>1, <2>5 DEF SendDone
  <2> QED BY <1>5, <2>2, <2>3, <2>4, <2>5 DEF Send
<1>6. CASE Receive
  <2>1. CASE RecvDone
    <3>1. CASE C!Overrun(Len(received) + 1)
      BY <1>1, <2>1, <3>1, GarblesChannel DEF C!Next
    <3>2. CASE ~C!Overrun(Len(received) + 1)
      <4>1. InStep
        BY <1>1, <3>2, StrayedOverruns DEF DeliverInv, InStep
      <4> QED BY <2>1, <3>2, <4>1, DeliversChannel DEF C!Next
    <3> QED BY <3>1, <3>2
  <2>2. CASE ~RecvDone
    <3>1. UNCHANGED <<spc, size, answers, received>>
      BY <1>6, <2>2 DEF Receive, RecvCall, RecvHeader, RecvHeaderFails, RecvHeaderShort,
         RecvBody, RecvBodyFails, sender
    <3> QED BY <1>2, <3>1
  <2> QED BY <2>1, <2>2
<1> QED BY <1>3, <1>4, <1>5, <1>6 DEF Next

\* A connection is a channel: ImplementsChannel of the run "transport".  What comes out are
\* the messages of sendData, whole and in the order of the calls, and none of which it says,
\* before or after, that it was not sent; up to a message larger than the receiver's buffer,
\* behind which the code makes messages of what is left of it.
THEOREM ConnectionIsAChannel == Spec => ImplementsChannel
BY MessageInit, MessageStep, DeliverInit, DeliverStep, ToldInit, ToldStep, ChannelInit,
   ChannelStep, PTL DEF Spec, ImplementsChannel, C!Spec

-----------------------------------------------------------------------------
(* Descriptors.                                                            *)

Sockets == {<<"client", "socket">>, <<"peer", "socket">>}

\* No descriptor of one side, and the two of the connection.
Closed(sides) == \A d \in fds : d[1] \notin sides

\* A constructor that was not called has opened nothing; a client that failed has
\* closed its socket, unless the handshake failed, which there is with ip4tcps only.
DescriptorInv ==
    /\ \A d \in fds : d[1] \in {"client", "peer"} => d \in Sockets
    /\ server = "new" \/ (server = "failed" /\ Tls) => Closed({"server"})
    /\ client \in {"new", "gone"} \/ (client = "failed" /\ ~Tls) => Closed({"client", "peer"})
    /\ client = "handshake" => Tls

\* At first nothing is open.
LEMMA DescriptorInit == Init => DescriptorInv
BY DEF Init, DescriptorInv, Closed

\* What the server's constructor opens is the server's.
LEMMA OpenAtServer == \A step : \A d \in OpenAt(step) : d[1] = "server"
BY DEF OpenAt

\* Only the actions on sockets touch descriptors, and each keeps the balance.
LEMMA DescriptorStep == DescriptorInv /\ [Next]_vars => DescriptorInv'
<1> SUFFICES ASSUME DescriptorInv, [Next]_vars PROVE DescriptorInv'
  OBVIOUS
<1>1. ASSUME UNCHANGED setup PROVE DescriptorInv'
  BY <1>1 DEF setup, DescriptorInv, Closed, Tls
<1>2. CASE Open
  <2>1. ASSUME NEW s \in ServerSteps, NewServer(s) PROVE DescriptorInv'
    BY <2>1, OpenAtServer DEF NewServer, DescriptorInv, Closed, Tls
  <2>2. ASSUME NEW s \in ServerSteps, NewServerTls(s) PROVE DescriptorInv'
    BY <2>2, OpenAtServer DEF NewServerTls, DescriptorInv, Closed, Tls
  <2>3. CASE NewClientFails \/ HandshakeFails
    BY <2>3 DEF NewClientFails, HandshakeFails, DescriptorInv, Closed, Tls
  <2>4. CASE Connect \/ ConnectUnseen
    BY <2>4 DEF Connect, ConnectUnseen, DescriptorInv, Closed, Sockets, Tls
  <2>5. CASE Accept \/ AcceptTls \/ RefuseTls \/ AcceptUnverified \/ UseFreed
    BY <2>5 DEF Accept, AcceptTls, RefuseTls, AcceptUnverified, UseFreed, DescriptorInv, Closed, Sockets, Tls
  <2> QED BY <1>2, <2>1, <2>2, <2>3, <2>4, <2>5 DEF Open
<1>3. CASE Close
  BY <1>3 DEF Close, DescriptorInv, Closed, Sockets, Tls
<1>4. CASE Send
  BY <1>4, <1>1 DEF Send, SendHeader, SendHeaderIgnored, SendHeaderTls, SendBody,
     SendBodyFails, SendBodyTls, SendDone, Answers
<1>5. CASE Receive
  BY <1>5, <1>1 DEF Receive, RecvCall, RecvHeader, RecvHeaderFails, RecvHeaderShort,
     RecvBody, RecvBodyFails, RecvDone
<1>6. ASSUME NEW n \in Sizes, SendCall(n) PROVE DescriptorInv'
  BY <1>6, <1>1 DEF SendCall
<1>7. CASE Cut \/ UNCHANGED vars
  BY <1>7, <1>1 DEF Cut, vars
<1> QED BY <1>2, <1>3, <1>4, <1>5, <1>6, <1>7 DEF Next

\* DescriptorsClosed of the run "transport": the two ends of a connection that was closed
\* have no descriptor any more, nor has a constructor or newClient that failed, but for the
\* plain descriptors of a server that throws and the client of ip4tcps that lost its
\* handshake, which the code leaks.
THEOREM NothingStaysOpen == Spec => []DescriptorsClosed
<1>1. DescriptorInv => DescriptorsClosed
  BY DEF DescriptorInv, DescriptorsClosed, Closed
<1> QED BY DescriptorInit, DescriptorStep, <1>1, PTL DEF Spec

=============================================================================
