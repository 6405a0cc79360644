----------------------------- MODULE DoIPClient -----------------------------
(***************************************************************************)
(* libdoipclient/src/DoIPClient.cpp, the tester, on one TCP connection to  *)
(* a server that is made of the library's own handlers.  What travels is   *)
(* bytes: the client takes whatever one recv returns for one message.  The *)
(* application calls the client's methods, one at a time and in any order  *)
(* that makes sense: it sends and receives between startTcpConnection and  *)
(* closeTcpConnection, and asks for an activation before the first         *)
(* diagnostic message.                                                     *)
(***************************************************************************)
EXTENDS VehicleIdentification, RoutingActivationHandler, DiagnosticMessageHandler

CONSTANTS
  MaxRequests,  \* bound: requests the application sends
  MaxEnds,      \* bound: how often the server ends a connection
  ReadSizes,    \* bound: sizes a recv may return although more has arrived
  Datagrams     \* UDP datagrams that may arrive, as sequences of bytes

ASSUME ClientBoundsAssumption ==
  /\ MaxRequests \in Nat /\ MaxEnds \in Nat /\ ReadSizes \subseteq 1 .. MaxDataSize
  /\ Datagrams \subseteq Seq(Byte)

VARIABLES
  sockFd, sockFd_udp,    \* "none", "open", or "failed": socket() returned -1
  link,                  \* the connection behind sockFd
  connecting,            \* inside the loop of startTcpConnection
  emptyMessageCounter,
  serverAddr,            \* _serverAddr.sin_addr, shared by TCP and UDP
  dialled,               \* the addresses connect was called with
  receivedData,          \* _receivedData, shared by TCP and UDP: 13 bytes of it
  sourceAddress,
  printed,               \* the acknowledge the client's last call printed
  asked,                 \* the application has asked for an activation
  automatic,             \* this connection was made by reconnectServer
  dead,                  \* SIGPIPE ended the client
  up, down,              \* requests and bytes on their way
  server,                \* "up" or "down"
  route,                 \* the address the server has activated, as a set
  objections,            \* what the server did not like (history)
  sent, ends             \* counters for the bounds

tcpVars == <<sockFd, link, connecting, emptyMessageCounter, dialled>>
udpVars == <<sockFd_udp, sourceAddress>>
readVars == <<receivedData, printed>>
appVars == <<asked, automatic, dead, sent>>
serverVars == <<server, route, objections, ends>>
wireVars == <<up, down>>
vars == <<tcpVars, udpVars, serverAddr, readVars, appVars, serverVars, wireVars>>

(* The kernel's view.  "reset": the error is not reported yet; "ended":     *)
(* recv returns 0; "written": and something was written since.              *)
Link == {"unconnected", "up", "reset", "ended", "written"}
Over == {"reset", "ended", "written"}
Hosts == {"none", "any", "loopback", "vehicle"}

(* receiveMessage reads no byte behind this one *)
CodeIndex == 12

(* what an acknowledge tells *)
Ack == [type : {"DIAGNOSTICPOSITIVEACK", "DIAGNOSTICNEGATIVEACK"}, code : Byte]

(* A byte from the server: whether a message begins with it, and, if that   *)
(* is an acknowledge, which.                                                *)
WireByte == [byte : Byte, first : BOOLEAN, ack : SUBSET Ack]

(* why the server refused a request, the payload type of the request, and   *)
(* whether it came on a connection made by reconnectServer                  *)
Objection ==
  [why : {"unknown type", "malformed", "denied", "unrouted", "wrong source"},
   type : Word, automatic : BOOLEAN]

(* The counter stays below its limit of five between two calls, and every   *)
(* other variable has a value of its kind.                                  *)
TypeOK ==
  /\ sockFd \in {"none", "open", "failed"} /\ sockFd_udp \in {"none", "open"}
  /\ link \in Link /\ connecting \in BOOLEAN /\ emptyMessageCounter \in 0 .. 4
  /\ serverAddr \in Hosts /\ dialled \subseteq Hosts
  /\ receivedData \in Bytes(CodeIndex + 1) /\ sourceAddress \in Word
  /\ printed \subseteq Ack
  /\ asked \in BOOLEAN /\ automatic \in BOOLEAN /\ dead \in BOOLEAN
  /\ up \in Seq(Seq(Byte)) /\ down \in Seq(WireByte)
  /\ server \in {"up", "down"} /\ route \subseteq Word
  /\ objections \subseteq Objection
  /\ sent \in 0 .. MaxRequests /\ ends \in 0 .. MaxEnds

(* what memory holds that nobody wrote *)
Unwritten == CHOOSE g \in GarbageByte : TRUE

Init ==
  /\ sockFd = "none" /\ sockFd_udp = "none" /\ link = "unconnected"
  /\ connecting = FALSE /\ emptyMessageCounter = 0
  /\ serverAddr = "none" /\ dialled = {}
  /\ receivedData = [i \in 0 .. CodeIndex |-> Unwritten]
  /\ sourceAddress = Unwritten /\ printed = {}
  /\ asked = FALSE /\ automatic = FALSE /\ dead = FALSE
  /\ up = <<>> /\ down = <<>>
  /\ server = "up" /\ route = {} /\ objections = {}
  /\ sent = 0 /\ ends = 0

-----------------------------------------------------------------------------
(* The messages, as sequences of bytes. *)

TwoBytes(n) == <<n \div 256, n % 256>>
Number(b1, b2) == b1 * 256 + b2

(* a header made by createGenericHeader and a payload *)
Framed(header, payload) ==
  [i \in 1 .. GenericHeaderLength |-> header[i - 1]] \o payload
Wire(type, payload) ==
  Framed(CHOOSE h \in createGenericHeader(type, Len(payload)) : TRUE, payload)

TesterAddress == 3584        \* 0x0E00 in both requests
AliveCheckResponseType == 8
DiagnosticMessageType == 32769   \* 0x8001
UserData == <<34>>

(* mutant: activation type 2 *)
buildRoutingActivationRequestTyped ==
  <<2, 253, 0, 5, 0, 0, 0, 7, 14, 0, 2, 0, 0, 0, 0>>

buildRoutingActivationRequest ==
  <<2, 253, 0, 5, 0, 0, 0, 7, 14, 0, 0, 0, 0, 0, 0>>

DiagnosticMessage(source, target) ==
  Wire("DIAGNOSTICMESSAGE", TwoBytes(source) \o TwoBytes(target) \o UserData)

(* what one message looks like on its way to the client *)
Tagged(message, ack) ==
  [i \in DOMAIN message |-> [byte |-> message[i], first |-> i = 1, ack |-> ack]]

-----------------------------------------------------------------------------
(* The server: a DoIPConnection, with the handlers it calls. *)

GatewayAddress == 40         \* LOGICAL_ADDRESS of the example, 0x28

AckMessage(a, target) ==
  Tagged(Wire(a.type, TwoBytes(GatewayAddress) \o TwoBytes(target) \o <<a.code>>),
         {a})

ObjectTo(request, why) ==
  objections' = objections \cup
    {[why |-> why, type |-> Number(request[3], request[4]), automatic |-> automatic]}

EndConnection(how) ==
  /\ ends < MaxEnds
  /\ link' = how /\ ends' = ends + 1

serverUnchanged ==
  <<sockFd, connecting, emptyMessageCounter, dialled, udpVars, serverAddr,
    readVars, appVars>>

(* A request whose header is not known is refused; only a wrong pattern or  *)
(* length ends the connection.                                              *)
ServerNacks(request, value) ==
  /\ down' = down \o Tagged(Wire("NEGATIVEACK", <<value>>), {})
  /\ IF value = UnknownPayloadTypeCode
       THEN ObjectTo(request, "unknown type") /\ UNCHANGED <<link, ends>>
       ELSE ObjectTo(request, "malformed") /\ EndConnection("ended")
  /\ UNCHANGED route

ServerActivates(request) ==
  LET sa == Number(request[9], request[10])
      code == parseRoutingActivation(sa, request[11])
  IN  /\ down' = down \o Tagged(Wire("ROUTINGACTIVATIONRESPONSE",
           TwoBytes(sa) \o TwoBytes(GatewayAddress) \o <<code, 0, 0, 0, 0>>), {})
      /\ IF code = SuccessfullyRoutedCode
           THEN route' = {sa} /\ UNCHANGED <<objections, link, ends>>
           ELSE /\ ObjectTo(request, "denied")
                /\ EndConnection("ended") /\ UNCHANGED route

(* The application confirms the target address or does not.  Confirmed data *)
(* of the activated tester reach it, and it may answer.                     *)
ServerConfirms(request) ==
  LET sa == Number(request[9], request[10])
      to == IF route = {} THEN Unwritten ELSE CHOOSE a \in route : TRUE
      ok == [type |-> "DIAGNOSTICPOSITIVEACK", code |-> ValidDiagnosticMessageCode]
      no == [type |-> "DIAGNOSTICNEGATIVEACK", code |-> UnknownTargetAddressCode]
      data == Tagged(DiagnosticMessage(GatewayAddress, to), {})
      delivered ==
        parseDiagnosticMessage(to, sa, Len(request) - 8) = ValidDiagnosticMessageCode
  IN  /\ \/ down' = down \o AckMessage(no, to)
         \/ down' = down \o AckMessage(ok, to)
         \/ delivered /\ down' = down \o AckMessage(ok, to) \o data
      /\ IF route = {} THEN ObjectTo(request, "unrouted")
         ELSE IF delivered THEN UNCHANGED objections
         ELSE ObjectTo(request, "wrong source")
      /\ UNCHANGED <<route, link, ends>>

ServerReacts ==
  /\ server = "up" /\ link = "up" /\ up # <<>>
  /\ \E a \in parseGenericHeader([i \in 0 .. 7 |-> Head(up)[i + 1]], 8) :
       \/ a.type = "NEGATIVEACK" /\ ServerNacks(Head(up), a.value)
       \/ a.type = "ROUTINGACTIVATIONREQUEST" /\ ServerActivates(Head(up))
       \/ a.type = "DIAGNOSTICMESSAGE" /\ ServerConfirms(Head(up))
  /\ up' = Tail(up)
  /\ UNCHANGED <<serverUnchanged, server>>

(* a timeout, or the process goes down: with unread requests this resets *)
ServerEnds(goesDown) ==
  /\ server = "up" /\ link = "up"
  /\ EndConnection(IF up = <<>> THEN "ended" ELSE "reset")
  /\ server' = IF goesDown THEN "down" ELSE "up"
  /\ up' = <<>> /\ route' = {}
  /\ UNCHANGED <<serverUnchanged, objections, down>>

ServerStarts ==
  /\ server = "down" /\ server' = "up"
  /\ UNCHANGED <<tcpVars, udpVars, serverAddr, readVars, appVars, route,
                 objections, ends, wireVars>>

-----------------------------------------------------------------------------
(* startTcpConnection.  socket() may fail, and nobody is told. *)

(* mutant: the address is left to an earlier call *)
OpenSocketAnywhere ==
  /\ sockFd' = "open" /\ connecting' = TRUE
  /\ UNCHANGED serverAddr

OpenSocket ==
  \/ sockFd' = "open" /\ connecting' = TRUE /\ serverAddr' = "loopback"
  \/ sockFd' = "failed" /\ connecting' = FALSE /\ UNCHANGED serverAddr

(* nothing of the last connection survives in the new socket *)
FreshSocket ==
  /\ link' = "unconnected" /\ up' = <<>> /\ down' = <<>> /\ route' = {}

Idle == ~dead /\ ~connecting
Quiet == printed' = {}

startTcpConnection ==
  /\ Idle /\ sockFd # "open"
  /\ OpenSocket /\ FreshSocket
  /\ asked' = FALSE /\ automatic' = FALSE
  /\ Quiet
  /\ UNCHANGED <<emptyMessageCounter, dialled, udpVars, receivedData, dead,
                 sent, server, objections, ends>>

(* a turn of the loop that succeeds; the others change nothing *)
Connect ==
  /\ ~dead /\ connecting /\ server = "up"
  /\ dialled' = dialled \cup {serverAddr}
  /\ connecting' = FALSE /\ link' = "up"
  /\ UNCHANGED <<sockFd, emptyMessageCounter, udpVars, serverAddr, readVars,
                 appVars, serverVars, wireVars>>

closeTcpConnection ==
  /\ Idle /\ sockFd = "open"
  /\ sockFd' = "none" /\ FreshSocket /\ Quiet
  /\ UNCHANGED <<connecting, emptyMessageCounter, dialled, udpVars, serverAddr,
                 receivedData, appVars, server, objections, ends>>

-----------------------------------------------------------------------------
(* The senders: one write each, whose result nobody looks at.  The first    *)
(* write after the end is answered with a reset, a later one may raise      *)
(* SIGPIPE.                                                                 *)
Write(request) ==
  /\ Idle /\ sockFd # "none"
  /\ sent < MaxRequests /\ sent' = sent + 1
  /\ up' = IF link = "up" THEN Append(up, request) ELSE up
  /\ link' = IF link = "reset" THEN "ended"
             ELSE IF link = "ended" THEN "written" ELSE link
  /\ dead' \in IF link = "written" THEN BOOLEAN ELSE {FALSE}
  /\ Quiet
  /\ UNCHANGED <<sockFd, connecting, emptyMessageCounter, dialled, udpVars,
                 serverAddr, receivedData, automatic, serverVars, down>>

sendRoutingActivationRequest ==
  Write(buildRoutingActivationRequest) /\ asked' = TRUE

sendDiagnosticMessage(targetAddress) ==
  /\ asked
  /\ Write(DiagnosticMessage(TesterAddress, targetAddress)) /\ UNCHANGED asked

sendAliveCheckResponse ==
  Write(Wire("ALIVECHECKRESPONSE", TwoBytes(sourceAddress))) /\ UNCHANGED asked

-----------------------------------------------------------------------------
(* receiveMessage *)

receiveUnchanged ==
  <<udpVars, asked, dead, sent, server, objections, ends>>

Receives == Idle /\ sockFd # "none"

(* mutant: the code is taken from the byte before *)
AcknowledgeShifted(data, readedBytes) ==
  {IF a.type \in {"DIAGNOSTICPOSITIVEACK", "DIAGNOSTICNEGATIVEACK"}
     THEN {[type |-> a.type, code |-> data[CodeIndex - 1]]} ELSE {} :
   a \in parseGenericHeader(data, readedBytes)}

(* What it prints for the bytes in the buffer.  The code is taken from byte *)
(* 12 of the buffer, whether the read has filled it or not.                 *)
Acknowledge(data, readedBytes) ==
  {IF a.type \in {"DIAGNOSTICPOSITIVEACK", "DIAGNOSTICNEGATIVEACK"}
     THEN {[type |-> a.type, code |-> data[CodeIndex]]} ELSE {} :
   a \in parseGenericHeader(data, readedBytes)}

ReceiveData(n) ==
  /\ Receives /\ n <= Len(down)
  /\ receivedData' = Received(receivedData, [i \in 0 .. n - 1 |-> down[i + 1].byte], n)
  /\ printed' \in Acknowledge(receivedData', n)
  /\ down' = SubSeq(down, n + 1, Len(down))
  /\ UNCHANGED <<receiveUnchanged, tcpVars, serverAddr, automatic, up, route>>

(* recv returns -1: after a reset, and always without a socket; the header  *)
(* parser then returns an action that nobody has filled in                  *)
ReceiveError ==
  /\ Receives /\ down = <<>>
  /\ link = "reset" \/ sockFd = "failed"
  /\ printed' \in Acknowledge(receivedData, -1)
  /\ link' = IF link = "reset" THEN "ended" ELSE link
  /\ UNCHANGED <<receiveUnchanged, sockFd, connecting, emptyMessageCounter,
                 dialled, serverAddr, automatic, receivedData, wireVars, route>>

(* recv returns 0: the fifth time in all the client reconnects *)
MaxEmptyMessages == 5

reconnectServer ==
  /\ OpenSocket /\ FreshSocket
  /\ automatic' = TRUE
  /\ UNCHANGED dialled

(* mutant: the counter goes on (the mutant stops counting at six) *)
CountEmptyMessageOn ==
  LET counter == emptyMessageCounter + 1
  IN  /\ emptyMessageCounter' = IF counter > 6 THEN 6 ELSE counter
      /\ IF counter = MaxEmptyMessages THEN reconnectServer
         ELSE UNCHANGED <<sockFd, link, connecting, dialled, serverAddr,
                          automatic, wireVars, route>>

CountEmptyMessage ==
  LET counter == emptyMessageCounter + 1
  IN  IF counter = MaxEmptyMessages
        THEN emptyMessageCounter' = 0 /\ reconnectServer
        ELSE /\ emptyMessageCounter' = counter
             /\ UNCHANGED <<sockFd, link, connecting, dialled, serverAddr,
                            automatic, wireVars, route>>

ReceiveEmpty ==
  /\ Receives /\ down = <<>> /\ link \in {"ended", "written"}
  /\ CountEmptyMessage
  /\ Quiet
  /\ UNCHANGED <<receiveUnchanged, receivedData>>

Shortest(a, b) == IF a < b THEN a ELSE b

receiveMessage ==
  \/ \E n \in ReadSizes \cup {Shortest(Len(down), MaxDataSize)} :
       n > 0 /\ ReceiveData(n)
  \/ ReceiveError
  \/ ReceiveEmpty

-----------------------------------------------------------------------------
(* UDP, as far as it shares state with TCP; what the client makes of an     *)
(* identification response is in VehicleIdentification.                     *)

udpUnchanged == <<tcpVars, appVars, serverVars, wireVars>>

(* when socket() fails everything stays as it is *)
startUdpConnection ==
  /\ Idle /\ sockFd_udp = "none"
  /\ sockFd_udp' = "open" /\ serverAddr' = "any"
  /\ Quiet
  /\ UNCHANGED <<udpUnchanged, sourceAddress, receivedData>>

(* inet_aton leaves the address alone when it cannot read the argument *)
sendVehicleIdentificationRequest(address) ==
  /\ Idle /\ sockFd_udp = "open"
  /\ serverAddr' = IF address = "none" THEN serverAddr ELSE address
  /\ Quiet
  /\ UNCHANGED <<udpUnchanged, udpVars, receivedData>>

ReceiveUdp(datagram) ==
  /\ Idle /\ sockFd_udp = "open"
  /\ receivedData' = Received(receivedData,
       [i \in 0 .. Len(datagram) - 1 |-> datagram[i + 1]], Len(datagram))
  /\ Quiet
  /\ UNCHANGED <<udpUnchanged, udpVars, serverAddr>>

closeUdpConnection ==
  /\ Idle /\ sockFd_udp = "open"
  /\ sockFd_udp' = "none"
  /\ Quiet
  /\ UNCHANGED <<udpUnchanged, sourceAddress, serverAddr, receivedData>>

setSourceAddress(address) ==
  /\ Idle /\ sourceAddress' = address
  /\ Quiet
  /\ UNCHANGED <<udpUnchanged, sockFd_udp, serverAddr, receivedData>>

-----------------------------------------------------------------------------
Udp ==
  \/ startUdpConnection \/ closeUdpConnection
  \/ \E address \in {"vehicle", "none"} : sendVehicleIdentificationRequest(address)
  \/ \E d \in Datagrams : ReceiveUdp(d)
  \/ setSourceAddress(TesterAddress + 1)

Tcp ==
  \/ startTcpConnection \/ Connect \/ closeTcpConnection
  \/ sendRoutingActivationRequest \/ sendAliveCheckResponse
  \/ sendDiagnosticMessage(1)
  \/ receiveMessage

Server ==
  \/ ServerReacts \/ ServerStarts
  \/ \E goesDown \in BOOLEAN : ServerEnds(goesDown)

Next == Udp \/ Tcp \/ Server

(* The application polls with receiveMessage, the loop of                   *)
(* startTcpConnection goes on, and a server that went down comes back.      *)
Spec ==
  /\ Init /\ [][Next]_vars
  /\ WF_vars(receiveMessage) /\ WF_vars(Connect) /\ WF_vars(ServerStarts)

-----------------------------------------------------------------------------
(* What the client promises. *)

(* The requests of an application that asks for an activation before its    *)
(* first diagnostic message suit the server: they are well formed, the      *)
(* activation is granted, and diagnostic messages come from the activated   *)
(* address.  There are two exceptions.  The server's header parser does not *)
(* know the payload type of the client's alive check response and refuses   *)
(* every one.  And on a connection that reconnectServer made a diagnostic   *)
(* message may meet no activation: the client does not ask again, and the   *)
(* application, which is not told, goes on.                                 *)
Excused(o) ==
  \/ o.why = "unknown type" /\ o.type = AliveCheckResponseType
  \/ o.why = "unrouted" /\ o.type = DiagnosticMessageType /\ o.automatic
TesterServed == \A o \in objections : Excused(o)

(* A read that begins with a whole message prints that message's            *)
(* acknowledge if it is one, and nothing otherwise, whatever was received   *)
(* before it into the same buffer or comes behind it in the same read.      *)
BeginsWhole(n) ==
  /\ down[1].first
  /\ n = Len(down) \/ \E i \in 2 .. n + 1 : down[i].first
AcksReported ==
  [][\A n \in 1 .. Len(down) :
       (down' = SubSeq(down, n + 1, Len(down)) /\ link' = link /\ BeginsWhole(n))
         => printed' = down[1].ack]_vars

(* The one server the client ever dials is the local one, also when it      *)
(* reconnects by itself after an identification request has put a vehicle's *)
(* address into the shared _serverAddr.                                     *)
DialsLoopback == dialled \subseteq {"loopback"}

(* A polling application gets its connection back whenever the server ends  *)
(* it, the second time as the first.  Excepted: it closes the connection    *)
(* itself, socket() fails, or it writes often enough to be killed.          *)
ReconnectsEventually ==
  (link \in Over) ~> (link = "up" \/ sockFd # "open" \/ dead)
=============================================================================
