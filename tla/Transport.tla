----------------------------- MODULE Transport ------------------------------
(***************************************************************************)
(* One connection made by a transport plugin (plugins/ip4tcp-posix.cpp,    *)
(* ip6tcp-posix.cpp, ip4tcps-posix.cpp, and ip4tcp-windows.cpp as          *)
(* "ip4tcp-w32"): the server socket, the client's socket, and one direction*)
(* of the stream between them, on which messages are sent as a size and    *)
(* that many bytes.  The connection can be closed or reset at any moment.  *)
(***************************************************************************)
EXTENDS Naturals, Sequences, FiniteSets

CONSTANTS Kinds,      \* plugins to look at
          Sizes,      \* sizes of messages
          RecvRoom,   \* data->size of the caller of recvData: what it has room for
          MaxMsgs,    \* bound: messages sent
          Room,       \* bound: units the stream holds
          Modulus     \* stands for 2^32

ASSUME TransportOK ==
    /\ Kinds \subseteq {"ip4tcp", "ip6tcp", "ip4tcps", "ip4tcp-w32"}
    /\ Sizes \subseteq 0..(Modulus - 1) /\ IsFiniteSet(Sizes)
    /\ RecvRoom \in 0..(Modulus - 1)
    /\ MaxMsgs \in Nat /\ Room \in Nat \ {0} /\ Modulus \in Nat \ {0}

VARIABLES
    kind,          \* the plugin
    asked, bound,  \* parts of the source address: configured, and bound
    server, client,
    conn,          \* "none", "up", and then "closed" or "reset"; "freed": its peer is
                   \* made of a session that was freed
    fds,           \* descriptors: pairs <<side, what>>
    stream,        \* what was sent and not yet received
    spc, size, left, given,   \* sendData: where, data->size, tosend, bytes given away
    answers,                  \* what it has answered, and of which size
    rpc, torecv, data,        \* recvData: where, bytes missing, bytes received
    astray,                   \* a message did not fit: its rest is taken for sizes
    received                  \* the messages it has delivered

setup == <<kind, asked, bound, server, client, fds>>
sender == <<spc, size, left, given, answers>>
receiver == <<rpc, torecv, data, astray, received>>
vars == <<setup, conn, stream, sender, receiver>>

Tls == kind = "ip4tcps"
Windows == kind = "ip4tcp-w32"
Parts == {"IP", "port"}

Init ==
    /\ kind \in Kinds
    /\ asked \in SUBSET Parts /\ bound = {}
    /\ server = "new" /\ client = "new" /\ conn = "none"
    /\ fds = {}
    /\ stream = <<>>
    /\ spc = "idle" /\ size = 0 /\ left = 0 /\ given = 0 /\ answers = <<>>
    /\ rpc = "idle" /\ torecv = 0 /\ data = <<>> /\ astray = FALSE
    /\ received = <<>>

-----------------------------------------------------------------------------
(* The server socket.                                                      *)

\* What the constructor has opened when it throws at a step; the pipe for stop().
OpenAt(step) ==
    (IF Windows THEN {} ELSE {<<"server", "pipe">>}) \cup
    (IF step \in {"bind", "listen", "done"} THEN {<<"server", "socket">>} ELSE {})

\* The destructor of an object whose constructor throws does not run: ip4tcp and
\* ip6tcp have plain descriptors, which stay open.
NewServer(step) ==
    /\ server = "new" /\ ~Tls
    /\ fds' = fds \cup OpenAt(step)
    /\ server' = IF step = "done" THEN "listening" ELSE "failed"
    /\ UNCHANGED <<kind, asked, bound, client, conn, stream, sender, receiver>>

\* ip4tcps has them in members, which are destroyed.
NewServerTls(step) ==
    /\ server = "new" /\ Tls
    /\ fds' = IF step = "done" THEN fds \cup OpenAt(step) ELSE fds
    /\ server' = IF step = "done" THEN "listening" ELSE "failed"
    /\ UNCHANGED <<kind, asked, bound, client, conn, stream, sender, receiver>>

ServerSteps == {"config", "socket", "bind", "listen", "done"}

-----------------------------------------------------------------------------
(* The client's socket.                                                    *)

\* ip4tcp: without an IP the family stays AF_LOCAL and nothing is bound; with a port
\* the IP is overwritten.
Bound4 == IF "IP" \notin asked THEN {} ELSE IF "port" \in asked THEN {"port"} ELSE {"IP"}

\* ip6tcp: either is enough.
Bound6 == asked

\* ip4tcps: doBind.
BoundTls == asked

SourceAddress == CASE kind = "ip6tcp" -> Bound6 [] Tls -> BoundTls [] OTHER -> Bound4

\* newClient before connect: a part of the configuration is missing, there is no
\* socket, or bind fails; a socket that was made is closed.
NewClientFails ==
    /\ client = "new"
    /\ client' = "failed"
    /\ UNCHANGED <<kind, asked, bound, server, conn, fds, stream, sender, receiver>>

Connect ==
    /\ client = "new" /\ server = "listening"
    /\ client' = IF Tls THEN "handshake" ELSE "connected"
    /\ bound' = SourceAddress
    /\ fds' = fds \cup {<<"client", "socket">>}
    /\ UNCHANGED <<kind, asked, server, conn, stream, sender, receiver>>

\* On Windows the answer of connect is not looked at, and it does not set errno.
ConnectUnseen ==
    /\ client = "new" /\ Windows
    /\ client' = "connected" /\ conn' = "reset"
    /\ bound' = SourceAddress
    /\ fds' = fds \cup {<<"client", "socket">>}
    /\ UNCHANGED <<kind, asked, server, stream, sender, receiver>>

\* acceptClient of ip4tcp and ip6tcp.
Accept ==
    /\ client = "connected" /\ conn = "none" /\ ~Tls
    /\ conn' = "up" /\ fds' = fds \cup {<<"peer", "socket">>}
    /\ UNCHANGED <<kind, asked, bound, server, client, stream, sender, receiver>>

\* acceptClient of ip4tcps.
AcceptTls ==
    /\ client = "handshake"
    /\ client' = "connected"
    /\ conn' = "up" /\ fds' = fds \cup {<<"peer", "socket">>}
    /\ UNCHANGED <<kind, asked, bound, server, stream, sender, receiver>>

\* SSL_accept fails: the peer's socket is closed and the next client waited for; a client
\* that had done its part by then finds the connection ended.
RefuseTls ==
    /\ client = "handshake"
    /\ client' = "connected" /\ conn' \in {"closed", "reset"}
    /\ UNCHANGED <<kind, asked, bound, server, fds, stream, sender, receiver>>

\* The handshake is done, but its result is not verified: the socket is closed, the
\* session freed, and a peer made of it is returned all the same.
AcceptUnverified ==
    /\ client = "handshake"
    /\ client' = "connected" /\ conn' = "freed"
    /\ UNCHANGED <<kind, asked, bound, server, fds, stream, sender, receiver>>

\* Whatever that peer is asked for is undefined; its destructor closes the descriptor it
\* finds in the freed session.
UseFreed ==
    /\ conn = "freed"
    /\ fds' \in SUBSET fds
    /\ UNCHANGED <<kind, asked, bound, server, client, conn, stream, sender, receiver>>

\* SSL_connect fails: the socket was released to the session, which is forgotten.
HandshakeFails ==
    /\ client = "handshake"
    /\ client' = "failed"
    /\ UNCHANGED <<kind, asked, bound, server, conn, fds, stream, sender, receiver>>

\* Mutant: the peer's end stays open.
CloseClientOnly ==
    /\ conn \in {"closed", "reset"} /\ spc = "idle" /\ rpc = "end" /\ client # "gone"
    /\ client' = "gone" /\ fds' = fds \ {<<"client", "socket">>}
    /\ UNCHANGED <<kind, asked, bound, server, conn, stream, sender, receiver>>

\* Both peers are deleted.
Close ==
    /\ conn \in {"closed", "reset"} /\ spc = "idle" /\ rpc = "end" /\ client # "gone"
    /\ client' = "gone" /\ fds' = fds \ {<<"client", "socket">>, <<"peer", "socket">>}
    /\ UNCHANGED <<kind, asked, bound, server, conn, stream, sender, receiver>>

\* The peer closes, and what was sent still arrives; or the connection is reset, and
\* a part of it does not.
Cut ==
    /\ conn = "up"
    /\ \/ conn' = "closed" /\ UNCHANGED stream
       \/ conn' = "reset" /\ \E n \in 0..Len(stream) : stream' = SubSeq(stream, 1, n)
    /\ UNCHANGED <<setup, sender, receiver>>

-----------------------------------------------------------------------------
(* sendData.  An interrupted call is repeated and changes nothing.         *)

Message == Len(answers) + 1

SendCall(n) ==
    /\ conn \notin {"none", "freed"} /\ client # "gone" /\ spc = "idle" /\ Len(answers) < MaxMsgs
    /\ spc' = "header" /\ size' = n /\ left' = n /\ given' = 0
    /\ UNCHANGED <<setup, conn, stream, answers, receiver>>

Answers(a) ==
    /\ answers' = Append(answers, [size |-> size, answer |-> a, given |-> given])
    /\ spc' = "idle"
    /\ UNCHANGED <<setup, conn, stream, size, left, given, receiver>>

SendHeader ==
    /\ spc = "header" /\ conn = "up" /\ Len(stream) < Room
    /\ stream' = Append(stream, <<"size", size>>)
    /\ spc' = "body"
    /\ UNCHANGED <<setup, conn, size, left, given, answers, receiver>>

\* ip4tcp, ip6tcp: only EAGAIN and EINTR are looked at.
SendHeaderIgnored ==
    /\ spc = "header" /\ conn \in {"closed", "reset"} /\ ~Tls
    /\ spc' = "body"
    /\ UNCHANGED <<setup, conn, stream, size, left, given, answers, receiver>>

\* ip4tcps: -1 is an error, 0 is not.
SendHeaderTls ==
    /\ spc = "header" /\ conn \in {"closed", "reset"} /\ Tls
    /\ \/ Answers(0)
       \/ spc' = "body" /\ UNCHANGED <<setup, conn, stream, size, left, given, answers, receiver>>

SendBody(k) ==
    /\ spc = "body" /\ k \in 1..left /\ conn = "up" /\ Len(stream) + k <= Room
    /\ stream' = stream \o [i \in 1..k |-> <<Message, given + i>>]
    /\ left' = left - k /\ given' = given + k
    /\ UNCHANGED <<setup, conn, spc, size, answers, receiver>>

\* Mutant: what is missing is not looked at.
SendBodyAssumed ==
    /\ spc = "body" /\ left > 0 /\ conn \in {"closed", "reset"} /\ ~Tls
    /\ left' = 0
    /\ UNCHANGED <<setup, conn, stream, spc, size, given, answers, receiver>>

SendBodyFails ==
    /\ spc = "body" /\ left > 0 /\ conn \in {"closed", "reset"} /\ ~Tls
    /\ Answers(0)

\* ip4tcps: the answer of SSL_write is kept in an unsigned variable.  0 is an error,
\* -1 is 2^32 - 1 bytes sent: tosend grows by one, until it is 0 at last.
SendBodyTls ==
    /\ spc = "body" /\ left > 0 /\ conn \in {"closed", "reset"} /\ Tls
    /\ \/ Answers(0)
       \/ /\ left' = (left + 1) % Modulus
          /\ UNCHANGED <<setup, conn, stream, spc, size, given, answers, receiver>>

\* Mutant: a message that is given away whole is an error if the connection has ended since.
SendDoneChecked == spc = "body" /\ left = 0 /\ Answers(IF conn = "up" THEN 1 ELSE 0)

SendDone == spc = "body" /\ left = 0 /\ Answers(1)

-----------------------------------------------------------------------------
(* recvData.                                                               *)

RecvCall ==
    /\ conn \notin {"none", "freed"} /\ rpc = "idle"
    /\ rpc' = "header" /\ data' = <<>>
    /\ UNCHANGED <<setup, conn, stream, sender, torecv, received, astray>>

\* The whole size is waited for.  No more than the caller has room for is received of
\* the message; what is left of it is in the stream when the next size is read, and once
\* that has happened a size may be anything.
RecvHeader ==
    /\ rpc = "header" /\ stream # <<>>
    /\ rpc' = "body"
    /\ LET announced == Head(stream)[2] IN
       IF astray THEN torecv' \in 0..RecvRoom /\ UNCHANGED astray
       ELSE /\ torecv' = IF announced < RecvRoom THEN announced ELSE RecvRoom
            /\ astray' = (announced > RecvRoom)
    /\ stream' = Tail(stream)
    /\ UNCHANGED <<setup, conn, sender, data, received>>

RecvHeaderFails ==
    /\ rpc = "header" /\ stream = <<>> /\ conn \in {"closed", "reset"}
    /\ rpc' = "end"
    /\ UNCHANGED <<setup, conn, stream, sender, torecv, data, received, astray>>

\* Without MSG_WAITALL a size of which a part has come is taken for the end.
RecvHeaderShort ==
    /\ rpc = "header" /\ stream # <<>> /\ Windows
    /\ rpc' = "end"
    /\ UNCHANGED <<setup, conn, stream, sender, torecv, data, received, astray>>

RecvBody(k) ==
    /\ rpc = "body" /\ k \in 1..torecv /\ k <= Len(stream)
    /\ data' = data \o SubSeq(stream, 1, k)
    /\ stream' = SubSeq(stream, k + 1, Len(stream)) /\ torecv' = torecv - k
    /\ UNCHANGED <<setup, conn, sender, rpc, received, astray>>

\* recv answers 0 at the end of a stream that was closed, and the loop of all but
\* ip4tcps goes on for ever: no step.
EofIsSeen == Tls \/ conn = "reset"

\* Mutant: 0 is taken for a number of bytes.
RecvBodyErrorOnly ==
    /\ rpc = "body" /\ torecv > 0 /\ stream = <<>> /\ conn = "reset"
    /\ rpc' = "end"
    /\ UNCHANGED <<setup, conn, stream, sender, torecv, data, received, astray>>

RecvBodyFails ==
    /\ rpc = "body" /\ torecv > 0 /\ stream = <<>> /\ conn \in {"closed", "reset"}
    /\ EofIsSeen
    /\ rpc' = "end"
    /\ UNCHANGED <<setup, conn, stream, sender, torecv, data, received, astray>>

RecvDone ==
    /\ rpc = "body" /\ torecv = 0
    /\ received' = Append(received, data) /\ rpc' = "idle"
    /\ UNCHANGED <<setup, conn, stream, sender, torecv, data, astray>>

Open ==
    \/ \E s \in ServerSteps : NewServer(s) \/ NewServerTls(s)
    \/ NewClientFails \/ Connect \/ ConnectUnseen \/ Accept \/ AcceptTls
    \/ RefuseTls \/ AcceptUnverified \/ UseFreed \/ HandshakeFails

Send ==
    \/ SendHeader \/ SendHeaderIgnored \/ SendHeaderTls
    \/ \E k \in 1..Modulus : SendBody(k)
    \/ SendBodyFails \/ SendBodyTls \/ SendDone

Receive ==
    \/ RecvCall \/ RecvHeader \/ RecvHeaderFails \/ RecvHeaderShort
    \/ \E k \in 1..Modulus : RecvBody(k)
    \/ RecvBodyFails \/ RecvDone

Next == Open \/ Cut \/ Close \/ Send \/ Receive \/ \E n \in Sizes : SendCall(n)

Spec == Init /\ [][Next]_vars
FairSpec == Spec /\ WF_vars(Send) /\ WF_vars(Receive)

-----------------------------------------------------------------------------
(* Properties.                                                             *)

TypeOK ==
    /\ kind \in Kinds /\ asked \subseteq Parts /\ bound \subseteq asked
    /\ server \in {"new", "failed", "listening"}
    /\ client \in {"new", "failed", "handshake", "connected", "gone"}
    /\ conn \in {"none", "up", "closed", "reset", "freed"} /\ astray \in BOOLEAN
    /\ fds \subseteq {"server", "client", "peer"} \X {"pipe", "socket"}
    /\ Len(stream) <= Room
    /\ spc \in {"idle", "header", "body"} /\ rpc \in {"idle", "header", "body", "end"}
    /\ {size, left, given, torecv} \subseteq 0..(Modulus - 1)
    /\ astray \/ Len(received) <= Message

\* The messages sendData was called with, as their sizes, and its answers.
Calls == [m \in 1..(IF spc = "idle" THEN Len(answers) ELSE Message) |->
             IF m = Message THEN size ELSE answers[m].size]
Answered == [m \in DOMAIN answers |-> answers[m].answer]

\* "The data MUST come out EXACTLY same as were sent", as long as the receiver has room
\* for them: the messages received before one that did not fit are the first ones that
\* were sent, each whole and in order, wherever the stream is cut into pieces or off.
DeliveredAsSent ==
    \A m \in DOMAIN received :
        \/ \E k \in DOMAIN Calls : k <= m /\ Calls[k] > RecvRoom
        \/ /\ m \in DOMAIN Calls /\ Len(received[m]) = Calls[m]
           /\ \A i \in DOMAIN received[m] : received[m][i] = <<m, i>>

\* A sendData that answers 1 has given every byte to the stream.  Not so for ip4tcps
\* when the connection has ended, where the count of missing bytes wraps around.
SuccessIsWhole ==
    \A m \in DOMAIN answers :
        answers[m].answer = 1 /\ (Tls => conn = "up") => answers[m].given = answers[m].size

\* A connection is a Channel, wherever its stream is cut, up to a message larger than the
\* receiver's buffer: in particular no message is received of which sendData says that it
\* was not sent, neither before it says so nor later, so one that is sent again does not
\* arrive twice.
C == INSTANCE Channel WITH Fits <- RecvRoom, calls <- Calls, answers <- Answered,
                           delivered <- received
ImplementsChannel == C!Spec

\* A connection that ends takes both calls with it, except that all but ip4tcps
\* stay in recvData when it is closed in the middle of a message.
CallsReturn ==
    /\ conn \in {"closed", "reset"} /\ spc # "idle" ~> spc = "idle"
    /\ conn \in {"closed", "reset"} ~> (rpc = "end" \/ (rpc = "body" /\ ~EofIsSeen))

\* Descriptors are open no longer than their owner exists.  Two owners leave theirs open:
\* a server whose constructor throws, unless it is of ip4tcps, and a client of ip4tcps
\* whose handshake fails; acceptClient of ip4tcps closes what it accepted when its own
\* side of the handshake fails.
DescriptorsClosed ==
    /\ server \in {"new", "failed"} /\ Tls => ~\E d \in fds : d[1] = "server"
    /\ client \in {"new", "failed", "gone"} /\ ~(Tls /\ client = "failed") =>
           ~\E d \in fds : d[1] \in {"client", "peer"}

=============================================================================
