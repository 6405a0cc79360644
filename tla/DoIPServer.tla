----------------------------- MODULE DoIPServer -----------------------------
(***************************************************************************)
(* libdoipserver/src/DoIPServer.cpp as examples/exampleDoIPServer.cpp runs *)
(* it: main starts a UDP, a TCP and a TLS listener and then announces the  *)
(* vehicle.  The four threads share serverAddress, clientAddress and the   *)
(* UDP socket without a lock.  An exception in a listener ends the         *)
(* process.                                                                *)
(***************************************************************************)
EXTENDS DoIPGenericHeader, Sequences

CONSTANTS
  Datagrams,     \* what testers may send to the UDP port
  MaxDatagrams,  \* bound: how many they send
  MaxClients,    \* bound: how many stream connections are requested
  QueueLength,   \* datagrams the UDP socket holds before it drops one
  AnnounceNum    \* A_DoIP_Announce_Num

(* A datagram: whether it has the eight bytes of a header, and the header.  *)
Datagram == [whole : BOOLEAN, pattern : BOOLEAN, code : Nat, len : Nat]

ASSUME DatagramsAssumption == Datagrams \subseteq Datagram
ASSUME ServerBoundsAssumption ==
  /\ MaxDatagrams \in Nat /\ MaxClients \in Nat
  /\ QueueLength \in Nat /\ AnnounceNum \in Nat

VARIABLES
  serverPort,     \* serverAddress.sin_port
  clientAddress,  \* port and address
  udpSocket,      \* "none", "open" or "failed"
  broadcast,      \* SO_BROADCAST is set on it
  bound,          \* the port of each socket
  lpc,            \* where each listener is
  mpc, announced, \* main, and the announcements it sent
  inbox,          \* datagrams that wait in the UDP socket
  reply, asker,   \* the answer in the making, and who sent the datagram
  answers,        \* who was answered with what, and where the answer went
  pending,        \* connection requests that wait at a port
  requested,      \* connections and datagrams requested so far (bounds)
  served,         \* which listener served clients of which port
  terminated

addressVars == <<serverPort, clientAddress>>
socketVars == <<udpSocket, broadcast, bound>>
mainVars == <<mpc, announced>>
udpVars == <<inbox, reply, asker, answers>>
streamVars == <<pending, requested, served>>
vars == <<addressVars, socketVars, lpc, mainVars, udpVars, streamVars, terminated>>

Streams == {"tcp", "tls"}
Listeners == Streams \cup {"udp"}

ServerPortTLS == 4433
ServerPortTcpUdp == 13400
AnnouncementPort == 13401
StreamPorts == {ServerPortTLS, ServerPortTcpUdp}
OwnPort(l) == IF l = "tls" THEN ServerPortTLS ELSE ServerPortTcpUdp

(* When an unbound socket sends, the kernel picks a port no one else uses. *)
Unbound == -1
AnyPort == 0
Port == StreamPorts \cup {AnnouncementPort, AnyPort}

(* A destination of zeroes ("any") is this host itself. *)
Destination == [port : Port, addr : {"any", "broadcast", "tester"}]

ListenerPc ==
  {"context", "socket", "port", "bind", "listen", "accept", "handshake",
   "recv", "answerPort", "answerAddr", "send"}
MainPc == {"port", "addr", "option", "announce", "join"}
NoReply == "none"
Asker == {"tester", "own response", "own nack"}

(* The listeners and main are at known places, the shared addresses hold    *)
(* one of the values the code writes, and the queue keeps its bound.        *)
TypeOK ==
  /\ serverPort \in Port /\ clientAddress \in Destination
  /\ udpSocket \in {"none", "open", "failed"} /\ broadcast \in BOOLEAN
  /\ bound \in [Listeners -> Port \cup {Unbound}]
  /\ lpc \in [Listeners -> ListenerPc]
  /\ mpc \in MainPc /\ announced \in 0 .. AnnounceNum
  /\ inbox \in Seq([msg : Datagram, from : Asker]) /\ Len(inbox) <= QueueLength
  /\ reply \in {NoReply, "NEGATIVEACK", "VEHICLEIDENTRESPONSE"}
  /\ asker \in Asker
  /\ answers \subseteq [kind : PayloadType, to : Destination, asker : Asker]
  /\ pending \in [StreamPorts -> 0 .. MaxClients]
  /\ requested \in [clients : 0 .. MaxClients, datagrams : 0 .. MaxDatagrams]
  /\ served \subseteq Streams \X StreamPorts
  /\ terminated \in BOOLEAN

(* server is a static object: everything is zero before main runs *)
Init ==
  /\ serverPort = AnyPort /\ clientAddress = [port |-> AnyPort, addr |-> "any"]
  /\ udpSocket = "none" /\ broadcast = FALSE
  /\ bound = [l \in Listeners |-> Unbound]
  /\ lpc = [l \in Listeners |-> IF l = "tls" THEN "context" ELSE "socket"]
  /\ mpc = "port" /\ announced = 0
  /\ inbox = <<>> /\ reply = NoReply /\ asker = "tester" /\ answers = {}
  /\ pending = [p \in StreamPorts |-> 0]
  /\ requested = [clients |-> 0, datagrams |-> 0]
  /\ served = {} /\ terminated = FALSE

ListenerGoto(l, from, to) ==
  /\ ~terminated
  /\ lpc[l] = from
  /\ lpc' = [lpc EXCEPT ![l] = to]

-----------------------------------------------------------------------------
(* The environment. *)

TesterSends(d) ==
  /\ ~terminated
  /\ bound["udp"] = ServerPortTcpUdp
  /\ requested.datagrams < MaxDatagrams
  /\ Len(inbox) < QueueLength
  /\ inbox' = Append(inbox, [msg |-> d, from |-> "tester"])
  /\ requested' = [requested EXCEPT !.datagrams = @ + 1]
  /\ UNCHANGED <<addressVars, socketVars, lpc, mainVars, reply, asker, answers,
                 pending, served, terminated>>

(* a client connects to a port on which somebody listens *)
ClientConnects(p) ==
  /\ ~terminated
  /\ \E s \in Streams : bound[s] = p /\ lpc[s] \in {"accept", "handshake"}
  /\ requested.clients < MaxClients
  /\ pending' = [pending EXCEPT ![p] = @ + 1]
  /\ requested' = [requested EXCEPT !.clients = @ + 1]
  /\ UNCHANGED <<addressVars, socketVars, lpc, mainVars, udpVars, served, terminated>>

-----------------------------------------------------------------------------
(* setupTcpOrTlsSocket.  The port is written to the shared serverAddress    *)
(* and read again by bind.                                                  *)

setupUnchanged == <<mainVars, udpVars, streamVars>>

(* An exception: nothing in a listener's thread catches it. *)
Throws(s, places) ==
  /\ ~terminated
  /\ lpc[s] \in places
  /\ terminated' = TRUE
  /\ UNCHANGED <<addressVars, socketVars, lpc, setupUnchanged>>

(* create_context and configure_context_client_auth read the certificates *)
ConfigureContext ==
  /\ ListenerGoto("tls", "context", "socket")
  /\ UNCHANGED <<addressVars, socketVars, setupUnchanged, terminated>>

ContextThrows == Throws("tls", {"context"})

OpenStream(s) ==
  /\ ListenerGoto(s, "socket", "port")
  /\ UNCHANGED <<addressVars, socketVars, setupUnchanged, terminated>>

WritePort(l) ==
  /\ ListenerGoto(l, "port", "bind")
  /\ serverPort' = OwnPort(l)
  /\ UNCHANGED <<clientAddress, socketVars, setupUnchanged, terminated>>

PortTaken(s) == \E t \in Streams \ {s} : bound[t] = serverPort

(* mutant: the stream sockets may share a port, as UDP sockets do *)
BindStreamReuse(s) ==
  /\ ListenerGoto(s, "bind", "listen")
  /\ bound' = [bound EXCEPT ![s] = serverPort]
  /\ UNCHANGED <<addressVars, udpSocket, broadcast, setupUnchanged, terminated>>

BindStream(s) ==
  /\ ListenerGoto(s, "bind", "listen")
  /\ ~PortTaken(s)
  /\ bound' = [bound EXCEPT ![s] = serverPort]
  /\ UNCHANGED <<addressVars, udpSocket, broadcast, setupUnchanged, terminated>>

Listen(s) ==
  /\ ListenerGoto(s, "listen", "accept")
  /\ UNCHANGED <<addressVars, socketVars, setupUnchanged, terminated>>

(* socket, bind or listen may fail, and a bind to a taken port does *)
SetupThrows(s) == Throws(s, {"socket", "bind", "listen"})

-----------------------------------------------------------------------------
(* listenTcpOrTls: accept, hand the connection to a thread of its own. *)

Serve(s, p) ==
  /\ served' = served \cup {<<s, p>>}
  /\ UNCHANGED requested

(* mutant: one thread accepts both kinds of clients *)
waitForTcpConnectionShared ==
  /\ ListenerGoto("tcp", "accept", "accept")
  /\ lpc["tls"] # "handshake"
  /\ pending[bound["tcp"]] > 0
  /\ pending' = [pending EXCEPT ![bound["tcp"]] = @ - 1]
  /\ Serve("tcp", bound["tcp"])
  /\ UNCHANGED <<addressVars, socketVars, mainVars, udpVars, terminated>>

waitForTcpConnection ==
  /\ ListenerGoto("tcp", "accept", "accept")
  /\ pending[bound["tcp"]] > 0
  /\ pending' = [pending EXCEPT ![bound["tcp"]] = @ - 1]
  /\ Serve("tcp", bound["tcp"])
  /\ UNCHANGED <<addressVars, socketVars, mainVars, udpVars, terminated>>

(* accept; then SSL_accept waits for the client *)
AcceptTls ==
  /\ ListenerGoto("tls", "accept", "handshake")
  /\ pending[bound["tls"]] > 0
  /\ pending' = [pending EXCEPT ![bound["tls"]] = @ - 1]
  /\ UNCHANGED <<addressVars, socketVars, mainVars, udpVars, requested, served,
                 terminated>>

waitForTlsConnection ==
  /\ ListenerGoto("tls", "handshake", "accept")
  /\ Serve("tls", bound["tls"])
  /\ UNCHANGED <<pending, addressVars, socketVars, mainVars, udpVars, terminated>>

AcceptThrows(s) == Throws(s, {"accept"})
HandshakeThrows == Throws("tls", {"handshake"})

-----------------------------------------------------------------------------
(* setupUdpSocket ignores every failure. *)

OpenUdp ==
  /\ ListenerGoto("udp", "socket", "port")
  /\ udpSocket' \in {"open", "failed"}
  /\ UNCHANGED <<addressVars, broadcast, bound, setupUnchanged, terminated>>

(* bind fails if another process has the port or if main's announcement     *)
(* already made the kernel bind the socket                                  *)
BindUdp ==
  /\ ListenerGoto("udp", "bind", "recv")
  /\ bound' \in IF udpSocket = "open" /\ bound["udp"] = Unbound
                  THEN {bound, [bound EXCEPT !["udp"] = serverPort]}
                  ELSE {bound}
  /\ UNCHANGED <<addressVars, udpSocket, broadcast, setupUnchanged, terminated>>

-----------------------------------------------------------------------------
(* UDP messages. *)

createVehicleIdentificationResponse ==
  [whole |-> TRUE, pattern |-> TRUE, code |-> 4, len |-> 32]
Nack == [whole |-> TRUE, pattern |-> TRUE, code |-> 0, len |-> 1]

UdpActions(d) ==
  IF d.whole THEN HeaderActions(d.pattern, d.code, d.len)
  ELSE [type : PayloadType, value : GarbageByte, payloadLength : Garbage]

(* mutant: an identification response is answered like an unknown message *)
reactToReceivedUdpMessageAll(type) ==
  IF type \in {"NEGATIVEACK", "VEHICLEIDENTRESPONSE"} THEN "NEGATIVEACK"
  ELSE IF type = "VEHICLEIDENTREQUEST" THEN "VEHICLEIDENTRESPONSE"
  ELSE NoReply

(* what a message of the given type is answered with *)
reactToReceivedUdpMessage(type) ==
  IF type = "NEGATIVEACK" THEN "NEGATIVEACK"
  ELSE IF type = "VEHICLEIDENTREQUEST" THEN "VEHICLEIDENTRESPONSE"
  ELSE NoReply

React(d, from) ==
  \E a \in UdpActions(d) :
    /\ reply' = reactToReceivedUdpMessage(a.type)
    /\ lpc' = [lpc EXCEPT !["udp"] = IF reply' = NoReply THEN "recv" ELSE "answerPort"]
    /\ asker' = from

receiveUdpMessage ==
  /\ ~terminated
  /\ lpc["udp"] = "recv"
  /\ udpSocket = "open"
  /\ inbox # <<>>
  /\ inbox' = Tail(inbox)
  /\ React(Head(inbox).msg, Head(inbox).from)
  /\ UNCHANGED <<addressVars, socketVars, mainVars, answers, streamVars, terminated>>

(* recvfrom fails at once and its result, -1, is parsed all the same *)
ReceiveUdpFails ==
  /\ ~terminated
  /\ lpc["udp"] = "recv"
  /\ udpSocket = "failed"
  /\ React([createVehicleIdentificationResponse EXCEPT !.whole = FALSE], "tester")
  /\ UNCHANGED <<addressVars, socketVars, mainVars, inbox, answers, streamVars,
                 terminated>>

(* sendUdpMessage copies serverAddress, field by field *)
AnswerPort ==
  /\ ListenerGoto("udp", "answerPort", "answerAddr")
  /\ clientAddress' = [clientAddress EXCEPT !.port = serverPort]
  /\ UNCHANGED <<serverPort, socketVars, mainVars, udpVars, streamVars, terminated>>

AnswerAddr ==
  /\ ListenerGoto("udp", "answerAddr", "send")
  /\ clientAddress' = [clientAddress EXCEPT !.addr = "any"]
  /\ UNCHANGED <<serverPort, socketVars, mainVars, udpVars, streamVars, terminated>>

(* sendto on the UDP socket: it needs the broadcast option for a broadcast, *)
(* binds an unbound socket, and reaches this very socket if the port is its *)
(* own; a full queue drops the datagram.                                    *)
Sendable == udpSocket = "open" /\ (clientAddress.addr = "broadcast" => broadcast)

SendTo(d, from) ==
  /\ bound' = IF Sendable /\ bound["udp"] = Unbound
                THEN [bound EXCEPT !["udp"] = AnyPort] ELSE bound
  /\ inbox' = IF /\ Sendable /\ Len(inbox) < QueueLength
                 /\ clientAddress.port = bound["udp"]
                THEN Append(inbox, [msg |-> d, from |-> from]) ELSE inbox

sendUdpMessage ==
  /\ ListenerGoto("udp", "send", "recv")
  /\ \/ /\ reply = "NEGATIVEACK"
        /\ SendTo(Nack, "own nack")
     \/ /\ reply = "VEHICLEIDENTRESPONSE"
        /\ SendTo(createVehicleIdentificationResponse, "own response")
  /\ answers' = IF Sendable
                  THEN answers \cup {[kind |-> reply, to |-> clientAddress,
                                      asker |-> asker]}
                  ELSE answers
  /\ reply' = NoReply
  /\ UNCHANGED <<addressVars, udpSocket, broadcast, mainVars, asker, streamVars,
                 terminated>>

-----------------------------------------------------------------------------
(* main: sendVehicleAnnouncement, then wait for the listeners for ever. *)

MainGoto(from, to) ==
  /\ ~terminated
  /\ mpc = from
  /\ mpc' = to

mainUnchanged == <<serverPort, lpc, reply, asker, answers, streamVars, terminated>>

AnnouncePort ==
  /\ MainGoto("port", "addr")
  /\ clientAddress' = [clientAddress EXCEPT !.port = AnnouncementPort]
  /\ UNCHANGED <<announced, socketVars, inbox, mainUnchanged>>

AnnounceAddr ==
  /\ MainGoto("addr", "option")
  /\ clientAddress' = [clientAddress EXCEPT !.addr = "broadcast"]
  /\ UNCHANGED <<announced, socketVars, inbox, mainUnchanged>>

(* without a socket the option cannot be set, and nothing is announced *)
AnnounceOption ==
  /\ MainGoto("option", IF udpSocket = "open" THEN "announce" ELSE "join")
  /\ broadcast' = (broadcast \/ udpSocket = "open")
  /\ UNCHANGED <<announced, clientAddress, udpSocket, bound, inbox, mainUnchanged>>

(* mutant: one announcement too many *)
sendVehicleAnnouncementOneMore ==
  /\ MainGoto("announce", "announce")
  /\ announced <= AnnounceNum
  /\ announced' = announced + 1
  /\ SendTo(createVehicleIdentificationResponse, "own response")
  /\ UNCHANGED <<clientAddress, udpSocket, broadcast, mainUnchanged>>

sendVehicleAnnouncement ==
  /\ MainGoto("announce", "announce")
  /\ announced < AnnounceNum
  /\ announced' = announced + 1
  /\ SendTo(createVehicleIdentificationResponse, "own response")
  /\ UNCHANGED <<clientAddress, udpSocket, broadcast, mainUnchanged>>

AnnounceDone ==
  /\ MainGoto("announce", "join")
  /\ announced = AnnounceNum
  /\ UNCHANGED <<announced, clientAddress, socketVars, inbox, mainUnchanged>>

-----------------------------------------------------------------------------
Environment ==
  \/ \E d \in Datagrams : TesterSends(d)
  \/ \E p \in StreamPorts : ClientConnects(p)
  \/ \E s \in Streams : SetupThrows(s) \/ AcceptThrows(s)
  \/ ContextThrows \/ HandshakeThrows

SetupStream(s) ==
  OpenStream(s) \/ WritePort(s) \/ BindStream(s) \/ Listen(s)

Main ==
  \/ AnnouncePort \/ AnnounceAddr \/ AnnounceOption
  \/ sendVehicleAnnouncement \/ AnnounceDone

listenUdp ==
  \/ OpenUdp \/ WritePort("udp") \/ BindUdp
  \/ receiveUdpMessage \/ ReceiveUdpFails
  \/ AnswerPort \/ AnswerAddr \/ sendUdpMessage

listenTcp == SetupStream("tcp") \/ waitForTcpConnection
listenTls == ConfigureContext \/ SetupStream("tls") \/ AcceptTls

Halted == terminated /\ UNCHANGED vars

(* the end of a handshake is up to the client *)
Next ==
  \/ Environment \/ Main \/ listenUdp \/ listenTcp \/ listenTls
  \/ waitForTlsConnection
  \/ Halted

(* The scheduler runs every thread; nothing is assumed of testers and       *)
(* clients, in particular not that a handshake ends.                        *)
Fairness ==
  WF_vars(Main) /\ WF_vars(listenUdp) /\ WF_vars(listenTcp) /\ WF_vars(listenTls)

Spec == Init /\ [][Next]_vars
FairSpec == Spec /\ Fairness

-----------------------------------------------------------------------------
(* Although the listeners race for serverAddress, a server that has come up *)
(* serves both ports: the two stream listeners hold 13400 and 4433 between  *)
(* them, or the process has ended.  Which of the two holds which the race   *)
(* leaves open: ListenersOnOwnPorts, below, does not hold.                  *)
PortsServed ==
  (\A s \in Streams : lpc[s] \in {"accept", "handshake"})
  => {bound[s] : s \in Streams} = StreamPorts

(* The server does not answer its own identification responses and          *)
(* announcements with a negative acknowledge when it receives them.         *)
OwnResponseNotRefused ==
  \A a \in answers : a.asker = "own response" => a.kind # "NEGATIVEACK"

(* A TLS client that connects and never completes its handshake does not    *)
(* keep the TCP listener from its clients.                                  *)
TcpClientsServed ==
  \A p \in StreamPorts :
    lpc["tcp"] = "accept" /\ bound["tcp"] = p ~> terminated \/ pending[p] = 0

(* In a server that has come up every listener is on the port that it wrote *)
(* to serverAddress: TCP and UDP on 13400, TLS on 4433.                     *)
ListenersOnOwnPorts ==
  (\A s \in Streams : lpc[s] \in {"accept", "handshake"}) /\ bound["udp"] # Unbound
  => \A l \in Listeners : bound[l] = OwnPort(l)
=============================================================================
