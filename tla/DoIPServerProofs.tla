------------------------- MODULE DoIPServerProofs -------------------------
(***************************************************************************)
(* What survives the listeners' races for serverAddress and the UDP        *)
(* answers a server sends to itself, for any number of clients, datagrams  *)
(* and announcements.                                                      *)
(***************************************************************************)
EXTENDS DoIPServer, DoIPGenericHeaderProofs

(* The places of a listener whose socket has been bound. *)
Bound == {"listen", "accept", "handshake"}

(* the steps of a stream listener before its first client, and exceptions *)
SetupStep(s) ==
  \/ SetupStream(s)
  \/ s = "tls" /\ ConfigureContext
  \/ \E places : Throws(s, places)

LEMMA NextSteps ==
  ASSUME [Next]_vars
  PROVE  \/ \E d \in Datagrams : TesterSends(d)
         \/ \E p \in StreamPorts : ClientConnects(p)
         \/ \E s \in Streams : SetupStep(s)
         \/ waitForTcpConnection \/ AcceptTls \/ waitForTlsConnection
         \/ listenUdp \/ Main \/ UNCHANGED vars
<1>1. "tcp" \in Streams /\ "tls" \in Streams
  BY DEF Streams
<1>2. ASSUME Environment
      PROVE  \/ \E d \in Datagrams : TesterSends(d)
             \/ \E p \in StreamPorts : ClientConnects(p)
             \/ \E s \in Streams : SetupStep(s)
  BY <1>1, <1>2, Zenon
     DEF Environment, SetupThrows, AcceptThrows, ContextThrows, HandshakeThrows,
         SetupStep
<1>3. CASE listenTcp \/ listenTls
  BY <1>1, <1>3, Zenon DEF listenTcp, listenTls, SetupStep
<1>4. CASE UNCHANGED vars \/ Halted
  BY <1>4, Zenon DEF Halted
<1>5. QED
  BY ONLY [Next]_vars, <1>2, <1>3, <1>4 DEF Next

(* Whoever wrote serverAddress last wrote one of the two ports, and bind     *)
(* refuses a port that is taken.                                             *)
PortInv ==
  /\ DOMAIN bound = Listeners /\ DOMAIN lpc = Listeners
  /\ \A l \in Listeners : lpc[l] = "bind" => serverPort \in StreamPorts
  /\ \A s \in Streams : lpc[s] \in Bound => bound[s] \in StreamPorts
  /\ (lpc["tcp"] \in Bound /\ lpc["tls"] \in Bound) => bound["tcp"] # bound["tls"]

(* A step that neither moves a listener to bind or beyond it nor touches     *)
(* the port or a stream socket keeps PortInv.                                *)
LEMMA PortFrame ==
  ASSUME PortInv, serverPort' = serverPort,
         DOMAIN bound' = Listeners, \A s \in Streams : bound'[s] = bound[s],
         DOMAIN lpc' = Listeners,
         \A l \in Listeners : \/ lpc'[l] = lpc[l]
                              \/ lpc'[l] # "bind" /\ lpc'[l] \notin Bound
                              \/ lpc'[l] # "bind" /\ lpc[l] \in Bound
  PROVE  PortInv'
  BY DEF PortInv, Listeners, Streams

(* SendTo leaves the stream sockets alone. *)
LEMMA SendToFrame ==
  ASSUME PortInv, NEW d, NEW from, SendTo(d, from)
  PROVE  DOMAIN bound' = Listeners /\ \A s \in Streams : bound'[s] = bound[s]
  BY DEF SendTo, PortInv, Listeners, Streams

LEMMA StreamPortInv ==
  ASSUME PortInv, NEW s \in Streams, SetupStep(s)
  PROVE  PortInv'
<1> s \in Listeners
  BY DEF Streams, Listeners
<1>1. CASE OpenStream(s)
  BY <1>1, PortFrame DEF OpenStream, ListenerGoto, addressVars, socketVars,
     PortInv, Bound
<1>2. CASE WritePort(s)
  BY <1>2 DEF WritePort, ListenerGoto, socketVars, PortInv, Bound, StreamPorts,
     OwnPort, Streams, Listeners
<1>3. CASE BindStream(s)
  <2>1. serverPort \in StreamPorts /\ serverPort' = serverPort
    BY <1>3 DEF BindStream, ListenerGoto, PortInv, addressVars
  <2>2. \A t \in Streams \ {s} : bound[t] # serverPort
    BY <1>3 DEF BindStream, PortTaken
  <2>3. /\ bound' = [bound EXCEPT ![s] = serverPort]
        /\ lpc' = [lpc EXCEPT ![s] = "listen"]
    BY <1>3 DEF BindStream, ListenerGoto
  <2>4. QED
    BY <2>1, <2>2, <2>3 DEF PortInv, Bound, Streams, Listeners
<1>4. CASE Listen(s)
  BY <1>4, PortFrame DEF Listen, ListenerGoto, addressVars, socketVars, PortInv,
     Bound
<1>5. CASE \E places : Throws(s, places)
  BY <1>5, PortFrame DEF Throws, addressVars, socketVars, PortInv
<1>6. CASE s = "tls" /\ ConfigureContext
  BY <1>6, PortFrame DEF ConfigureContext, ListenerGoto, addressVars, socketVars,
     PortInv, Bound
<1>7. QED
  BY <1>1, <1>2, <1>3, <1>4, <1>5, <1>6 DEF SetupStep, SetupStream

LEMMA AcceptPortInv ==
  ASSUME PortInv,
         waitForTcpConnection \/ AcceptTls \/ waitForTlsConnection
  PROVE  PortInv'
<1>1. CASE waitForTcpConnection
  BY <1>1, PortFrame DEF waitForTcpConnection, ListenerGoto, addressVars,
     socketVars, PortInv, Bound, Listeners, Streams
<1>2. CASE AcceptTls
  BY <1>2, PortFrame DEF AcceptTls, ListenerGoto, addressVars, socketVars,
     PortInv, Bound, Listeners, Streams
<1>3. CASE waitForTlsConnection
  BY <1>3, PortFrame DEF waitForTlsConnection, ListenerGoto, addressVars,
     socketVars, PortInv, Bound, Listeners, Streams
<1>4. QED
  BY <1>1, <1>2, <1>3

LEMMA UdpPortInv ==
  ASSUME PortInv, listenUdp
  PROVE  PortInv'
<1> "udp" \in Listeners /\ "udp" \notin Streams
  BY DEF Listeners, Streams
<1>1. CASE OpenUdp
  BY <1>1, PortFrame DEF OpenUdp, ListenerGoto, addressVars, PortInv, Bound
<1>2. CASE WritePort("udp")
  BY <1>2 DEF WritePort, ListenerGoto, socketVars, PortInv, Bound, StreamPorts,
     OwnPort, Streams, Listeners
<1>3. CASE BindUdp
  <2>1. bound' = bound \/ bound' = [bound EXCEPT !["udp"] = serverPort]
    BY <1>3 DEF BindUdp
  <2>2. DOMAIN bound' = Listeners /\ \A s \in Streams : bound'[s] = bound[s]
    BY <2>1 DEF PortInv, Listeners, Streams
  <2>3. QED
    BY <1>3, <2>2, PortFrame DEF BindUdp, ListenerGoto, addressVars, PortInv, Bound
<1>4. CASE receiveUdpMessage
  BY <1>4, PortFrame DEF receiveUdpMessage, React, addressVars, socketVars,
     PortInv, Bound
<1>5. CASE ReceiveUdpFails
  BY <1>5, PortFrame DEF ReceiveUdpFails, React, addressVars, socketVars,
     PortInv, Bound
<1>6. CASE AnswerPort
  BY <1>6, PortFrame DEF AnswerPort, ListenerGoto, socketVars, PortInv, Bound
<1>7. CASE AnswerAddr
  BY <1>7, PortFrame DEF AnswerAddr, ListenerGoto, socketVars, PortInv, Bound
<1>8. CASE sendUdpMessage
  <2>1. DOMAIN bound' = Listeners /\ \A s \in Streams : bound'[s] = bound[s]
    BY <1>8, SendToFrame DEF sendUdpMessage
  <2>2. QED
    BY <1>8, <2>1, PortFrame DEF sendUdpMessage, ListenerGoto, addressVars,
       PortInv, Bound
<1>9. QED
  BY <1>1, <1>2, <1>3, <1>4, <1>5, <1>6, <1>7, <1>8 DEF listenUdp

LEMMA MainPortInv ==
  ASSUME PortInv, Main
  PROVE  PortInv'
<1>1. CASE AnnouncePort \/ AnnounceAddr \/ AnnounceOption \/ AnnounceDone
  BY <1>1, PortFrame DEF AnnouncePort, AnnounceAddr, AnnounceOption,
     AnnounceDone, mainUnchanged, socketVars, PortInv
<1>2. CASE sendVehicleAnnouncement
  <2>1. DOMAIN bound' = Listeners /\ \A s \in Streams : bound'[s] = bound[s]
    BY <1>2, SendToFrame DEF sendVehicleAnnouncement
  <2>2. QED
    BY <1>2, <2>1, PortFrame DEF sendVehicleAnnouncement, mainUnchanged, PortInv
<1>3. QED
  BY <1>1, <1>2 DEF Main

LEMMA PortNext == PortInv /\ [Next]_vars => PortInv'
<1> SUFFICES ASSUME PortInv, [Next]_vars PROVE PortInv'
  OBVIOUS
<1>1. ASSUME NEW d \in Datagrams, TesterSends(d) PROVE PortInv'
  BY <1>1, PortFrame DEF TesterSends, addressVars, socketVars, PortInv
<1>2. ASSUME NEW p \in StreamPorts, ClientConnects(p) PROVE PortInv'
  BY <1>2, PortFrame DEF ClientConnects, addressVars, socketVars, PortInv
<1>3. CASE UNCHANGED vars
  BY <1>3, PortFrame DEF vars, addressVars, socketVars, PortInv
<1>4. QED
  BY <1>1, <1>2, <1>3, NextSteps, StreamPortInv, AcceptPortInv, UdpPortInv,
     MainPortInv

(* The listeners race for serverAddress, yet a server that has come up holds *)
(* both ports, one per stream listener, if not always the listener's own.    *)
THEOREM PortsCorrect == Spec => []PortsServed
<1>1. Init => PortInv
  BY DEF Init, PortInv, Bound, Listeners, Streams
<1>2. PortInv => PortsServed
  BY DEF PortInv, PortsServed, Bound, Streams, StreamPorts, ServerPortTLS,
     ServerPortTcpUdp
<1>3. QED
  BY <1>1, <1>2, PortNext, PTL DEF Spec

-----------------------------------------------------------------------------
(* The server's own identification responses. *)

(* What waits in the UDP socket in the server's own name is an               *)
(* identification response, and no refusal is in the making for one.         *)
OwnInv ==
  /\ inbox \in Seq([msg : Datagram, from : Asker])
  /\ \A i \in 1 .. Len(inbox) :
       inbox[i].from = "own response"
       => inbox[i].msg = createVehicleIdentificationResponse
  /\ reply = "NEGATIVEACK" => asker # "own response"
  /\ OwnResponseNotRefused

(* The parser recognises an identification response, and it is not answered. *)
LEMMA OwnResponseIgnored ==
  ASSUME NEW a \in UdpActions(createVehicleIdentificationResponse)
  PROVE  reactToReceivedUdpMessage(a.type) = NoReply
<1>1. 4 \in KnownCodes /\ TypeOfCode(4) = "VEHICLEIDENTRESPONSE"
  <2>1. [code |-> 4, type |-> "VEHICLEIDENTRESPONSE"] \in ReceivedTypes
    BY DEF ReceivedTypes
  <2>2. 4 \in KnownCodes
    BY <2>1 DEF KnownCodes
  <2>3. [code |-> 4, type |-> TypeOfCode(4)] \in ReceivedTypes
    BY <2>2, KnownCodeType
  <2>4. TypeOfCode(4) = "VEHICLEIDENTRESPONSE"
    BY <2>3 DEF ReceivedTypes
  <2>5. QED
    BY <2>2, <2>4
<1>2. LengthValid("VEHICLEIDENTRESPONSE", 32)
  BY DEF LengthValid
<1>3. a \in HeaderActions(TRUE, 4, 32)
  BY DEF UdpActions, createVehicleIdentificationResponse
<1>4. PICK v \in GarbageByte : a = Action("VEHICLEIDENTRESPONSE", v, 32)
  BY <1>1, <1>2, <1>3 DEF HeaderActions
<1>5. QED
  BY <1>4 DEF Action, reactToReceivedUdpMessage, NoReply

LEMMA OwnFrame ==
  ASSUME OwnInv, UNCHANGED udpVars
  PROVE  OwnInv'
  BY DEF OwnInv, udpVars, OwnResponseNotRefused

(* What Append does to the elements. *)
LEMMA AppendElements ==
  ASSUME NEW S, NEW q \in Seq(S), NEW x \in S
  PROVE  /\ Append(q, x) \in Seq(S) /\ Len(q) \in Nat
         /\ Len(Append(q, x)) = Len(q) + 1
         /\ \A i \in 1 .. Len(q) : Append(q, x)[i] = q[i]
         /\ Append(q, x)[Len(q) + 1] = x
  OBVIOUS

(* A datagram may be appended that is no own response, or is one. *)
LEMMA InboxAppend ==
  ASSUME OwnInv, NEW d \in Datagram, NEW from \in Asker,
         from = "own response" => d = createVehicleIdentificationResponse,
         \/ inbox' = inbox
         \/ inbox' = Append(inbox, [msg |-> d, from |-> from])
  PROVE  /\ inbox' \in Seq([msg : Datagram, from : Asker])
         /\ \A i \in 1 .. Len(inbox') :
              inbox'[i].from = "own response"
              => inbox'[i].msg = createVehicleIdentificationResponse
<1>1. CASE inbox' = inbox
  BY <1>1 DEF OwnInv
<1>2. CASE inbox' = Append(inbox, [msg |-> d, from |-> from])
  <2> DEFINE Entry == [msg : Datagram, from : Asker]
             e == [msg |-> d, from |-> from]
  <2>1. inbox \in Seq(Entry) /\ e \in Entry
    BY DEF OwnInv
  <2> e.from = from /\ e.msg = d
    OBVIOUS
  <2> HIDE DEF Entry, e
  <2>2. inbox' = Append(inbox, e)
    BY <1>2 DEF e
  <2>3. /\ inbox' \in Seq(Entry) /\ Len(inbox) \in Nat
        /\ Len(inbox') = Len(inbox) + 1
        /\ \A i \in 1 .. Len(inbox) : inbox'[i] = inbox[i]
        /\ inbox'[Len(inbox) + 1] = e
    <3>1. /\ Append(inbox, e) \in Seq(Entry) /\ Len(inbox) \in Nat
          /\ Len(Append(inbox, e)) = Len(inbox) + 1
          /\ \A i \in 1 .. Len(inbox) : Append(inbox, e)[i] = inbox[i]
          /\ Append(inbox, e)[Len(inbox) + 1] = e
      BY ONLY <2>1, AppendElements
    <3>2. QED
      BY ONLY <3>1, <2>2, Zenon
  <2>4. ASSUME NEW i \in 1 .. Len(inbox'), inbox'[i].from = "own response"
        PROVE  inbox'[i].msg = createVehicleIdentificationResponse
    <3>1. CASE i \in 1 .. Len(inbox)
      BY <3>1, <2>3, <2>4 DEF OwnInv
    <3>2. CASE i = Len(inbox) + 1
      BY <3>2, <2>3, <2>4
    <3>3. QED
      BY ONLY <3>1, <3>2, <2>3, i \in 1 .. Len(inbox')
  <2>5. QED
    BY <2>3, <2>4 DEF Entry
<1>3. QED
  BY <1>1, <1>2

LEMMA OwnDatagrams ==
  Nack \in Datagram /\ createVehicleIdentificationResponse \in Datagram
  BY DEF Nack, createVehicleIdentificationResponse, Datagram

LEMMA ReceiveOwnInv ==
  ASSUME OwnInv, receiveUdpMessage
  PROVE  OwnInv'
<1> DEFINE Entry == [msg : Datagram, from : Asker]
<1>1. inbox \in Seq(Entry) /\ inbox # <<>> /\ inbox' = Tail(inbox)
  BY DEF OwnInv, receiveUdpMessage
<1> HIDE DEF Entry
<1>2. /\ inbox' \in Seq(Entry) /\ Len(inbox) \in Nat
      /\ Len(inbox') = Len(inbox) - 1 /\ 1 \in 1 .. Len(inbox)
      /\ \A i \in 1 .. Len(inbox') : inbox'[i] = inbox[i + 1]
      /\ Head(inbox) = inbox[1]
  BY <1>1
<1>3. \A i \in 1 .. Len(inbox') :
        inbox'[i].from = "own response"
        => inbox'[i].msg = createVehicleIdentificationResponse
  <2>1. \A i \in 1 .. Len(inbox') : i + 1 \in 1 .. Len(inbox)
    BY <1>2
  <2>2. QED
    BY <1>2, <2>1 DEF OwnInv
<1>4. PICK a \in UdpActions(Head(inbox).msg) :
        /\ reply' = reactToReceivedUdpMessage(a.type)
        /\ asker' = Head(inbox).from
  BY DEF receiveUdpMessage, React
<1>5. asker' = "own response" => reply' = NoReply
  <2> SUFFICES ASSUME asker' = "own response" PROVE reply' = NoReply
    OBVIOUS
  <2>1. Head(inbox).msg = createVehicleIdentificationResponse
    BY <1>2, <1>4 DEF OwnInv
  <2>2. QED
    BY <2>1, <1>4, OwnResponseIgnored
<1>6. answers' = answers
  BY DEF receiveUdpMessage
<1>7. QED
  BY <1>2, <1>3, <1>5, <1>6 DEF OwnInv, OwnResponseNotRefused, NoReply, Entry

LEMMA SendOwnInv ==
  ASSUME OwnInv, sendUdpMessage
  PROVE  OwnInv'
<1>1. /\ inbox' \in Seq([msg : Datagram, from : Asker])
      /\ \A i \in 1 .. Len(inbox') :
           inbox'[i].from = "own response"
           => inbox'[i].msg = createVehicleIdentificationResponse
  <2>1. CASE SendTo(Nack, "own nack")
    BY <2>1, InboxAppend, OwnDatagrams DEF SendTo, Asker
  <2>2. CASE SendTo(createVehicleIdentificationResponse, "own response")
    BY <2>2, InboxAppend, OwnDatagrams DEF SendTo, Asker
  <2>3. QED
    BY <2>1, <2>2 DEF sendUdpMessage
<1>2. OwnResponseNotRefused'
  <2>1. answers' \subseteq answers \cup {[kind |-> reply, to |-> clientAddress,
                                          asker |-> asker]}
    BY DEF sendUdpMessage
  <2>2. ASSUME NEW a \in answers', a.asker = "own response", a.kind = "NEGATIVEACK"
        PROVE  FALSE
    <3>1. CASE a \in answers
      BY <3>1, <2>2 DEF OwnInv, OwnResponseNotRefused
    <3>2. CASE a = [kind |-> reply, to |-> clientAddress, asker |-> asker]
      <4>1. a.asker = asker /\ a.kind = reply
        BY <3>2
      <4>2. QED
        BY <4>1, <2>2 DEF OwnInv
    <3>3. QED
      BY <2>1, <3>1, <3>2
  <2>3. QED
    BY <2>2 DEF OwnResponseNotRefused
<1>3. reply' = NoReply
  BY DEF sendUdpMessage
<1>4. QED
  BY <1>1, <1>2, <1>3 DEF OwnInv, NoReply

LEMMA OwnNext == OwnInv /\ [Next]_vars => OwnInv'
<1> SUFFICES ASSUME OwnInv, [Next]_vars PROVE OwnInv'
  OBVIOUS
<1>1. ASSUME NEW d \in Datagrams, TesterSends(d) PROVE OwnInv'
  <2>1. d \in Datagram /\ "tester" \in Asker
    BY DatagramsAssumption DEF Asker
  <2>2. inbox' = Append(inbox, [msg |-> d, from |-> "tester"])
    BY <1>1 DEF TesterSends
  <2>3. UNCHANGED <<reply, asker, answers>>
    BY <1>1 DEF TesterSends
  <2>4. QED
    BY <2>1, <2>2, <2>3, InboxAppend DEF OwnInv, OwnResponseNotRefused
<1>2. CASE sendVehicleAnnouncement
  <2>1. \/ inbox' = inbox
        \/ inbox' = Append(inbox, [msg |-> createVehicleIdentificationResponse,
                                   from |-> "own response"])
    BY <1>2 DEF sendVehicleAnnouncement, SendTo
  <2>2. UNCHANGED <<reply, asker, answers>>
    BY <1>2 DEF sendVehicleAnnouncement, mainUnchanged
  <2>3. "own response" \in Asker
    BY DEF Asker
  <2>4. QED
    BY <2>1, <2>2, <2>3, InboxAppend, OwnDatagrams
       DEF OwnInv, OwnResponseNotRefused
<1>3. CASE ReceiveUdpFails
  <2>1. asker' = "tester"
    BY <1>3 DEF ReceiveUdpFails, React
  <2>2. UNCHANGED <<inbox, answers>>
    BY <1>3 DEF ReceiveUdpFails
  <2>3. QED
    BY <2>1, <2>2 DEF OwnInv, OwnResponseNotRefused
<1>4. ASSUME NEW p \in StreamPorts, ClientConnects(p) PROVE OwnInv'
  BY <1>4, OwnFrame DEF ClientConnects
<1>5. ASSUME NEW s \in Streams, SetupStep(s) PROVE OwnInv'
  BY <1>5, OwnFrame DEF SetupStep, SetupStream, OpenStream, WritePort, BindStream,
     Listen, ConfigureContext, Throws, setupUnchanged
<1>6. CASE waitForTcpConnection \/ AcceptTls \/ waitForTlsConnection
  BY <1>6, OwnFrame DEF waitForTcpConnection, AcceptTls, waitForTlsConnection
<1>7. CASE OpenUdp \/ WritePort("udp") \/ BindUdp \/ AnswerPort \/ AnswerAddr
  BY <1>7, OwnFrame DEF OpenUdp, WritePort, BindUdp, AnswerPort, AnswerAddr,
     setupUnchanged
<1>8. CASE AnnouncePort \/ AnnounceAddr \/ AnnounceOption \/ AnnounceDone
  BY <1>8, OwnFrame DEF AnnouncePort, AnnounceAddr, AnnounceOption, AnnounceDone,
     mainUnchanged, udpVars
<1>9. CASE UNCHANGED vars
  BY <1>9, OwnFrame DEF vars
<1>10. QED
  BY <1>1, <1>2, <1>3, <1>4, <1>5, <1>6, <1>7, <1>8, <1>9, ReceiveOwnInv,
     SendOwnInv, NextSteps
     DEF Main, listenUdp

(* However announcements, answers and the listeners' writes to the addresses *)
(* interleave, the server never refuses its own identification response.     *)
THEOREM OwnResponseCorrect == Spec => []OwnResponseNotRefused
<1>1. Init => OwnInv
  BY DEF Init, OwnInv, OwnResponseNotRefused, NoReply
<1>2. OwnInv => OwnResponseNotRefused
  BY DEF OwnInv
<1>3. QED
  BY <1>1, <1>2, OwnNext, PTL DEF Spec

-----------------------------------------------------------------------------
(* Every variable keeps its kind.  TypeOK is not inductive: that a stream    *)
(* listener is bound to one of the two ports comes from PortInv, and that a  *)
(* port's queue stays within its bound from the number of requests made.     *)

Entry == [msg : Datagram, from : Asker]
Answer == [kind : PayloadType, to : Destination, asker : Asker]

AddressType == serverPort \in Port /\ clientAddress \in Destination
SocketType ==
  /\ udpSocket \in {"none", "open", "failed"} /\ broadcast \in BOOLEAN
  /\ bound \in [Listeners -> Port \cup {Unbound}]
PlaceType ==
  /\ lpc \in [Listeners -> ListenerPc] /\ mpc \in MainPc
  /\ announced \in 0 .. AnnounceNum /\ terminated \in BOOLEAN
UdpType ==
  /\ inbox \in Seq(Entry) /\ Len(inbox) <= QueueLength
  /\ reply \in {NoReply, "NEGATIVEACK", "VEHICLEIDENTRESPONSE"}
  /\ asker \in Asker /\ answers \subseteq Answer
StreamType ==
  /\ pending \in [StreamPorts -> 0 .. MaxClients]
  /\ requested \in [clients : 0 .. MaxClients, datagrams : 0 .. MaxDatagrams]
  /\ served \subseteq Streams \X StreamPorts
  /\ \A p \in StreamPorts : pending[p] <= requested.clients

TypeInv ==
  /\ AddressType /\ SocketType /\ PlaceType /\ UdpType /\ StreamType
  /\ PortInv

LEMMA AddressFrame ==
  ASSUME AddressType, UNCHANGED addressVars PROVE AddressType'
  BY DEF AddressType, addressVars
LEMMA SocketFrame ==
  ASSUME SocketType, UNCHANGED socketVars PROVE SocketType'
  BY DEF SocketType, socketVars
LEMMA UdpFrame ==
  ASSUME UdpType, UNCHANGED udpVars PROVE UdpType'
  BY DEF UdpType, udpVars
LEMMA StreamFrame ==
  ASSUME StreamType, UNCHANGED streamVars PROVE StreamType'
  BY DEF StreamType, streamVars
LEMMA MainFrame ==
  ASSUME PlaceType, lpc' \in [Listeners -> ListenerPc], UNCHANGED mainVars,
         terminated' = terminated
  PROVE  PlaceType'
  BY DEF PlaceType, mainVars

(* a listener moves *)
LEMMA GotoType ==
  ASSUME PlaceType, NEW l \in Listeners, NEW from, NEW to \in ListenerPc,
         ListenerGoto(l, from, to), UNCHANGED mainVars, terminated' = terminated
  PROVE  PlaceType'
<1>1. lpc' \in [Listeners -> ListenerPc]
  BY DEF PlaceType, ListenerGoto
<1>2. QED
  BY <1>1, MainFrame

LEMMA PortKinds ==
  /\ StreamPorts \subseteq Port /\ AnyPort \in Port /\ AnnouncementPort \in Port
  /\ \A l : OwnPort(l) \in Port
  BY DEF Port, OwnPort, StreamPorts

LEMMA BoundKind ==
  ASSUME SocketType, NEW l \in Listeners, NEW p \in Port,
         bound' = bound \/ bound' = [bound EXCEPT ![l] = p],
         UNCHANGED <<udpSocket, broadcast>>
  PROVE  SocketType'
<1>1. bound' \in [Listeners -> Port \cup {Unbound}]
  BY DEF SocketType
<1>2. QED
  BY <1>1 DEF SocketType

LEMMA StreamListenerType ==
  ASSUME TypeInv, NEW s \in Streams, SetupStep(s)
  PROVE  AddressType' /\ SocketType' /\ PlaceType' /\ UdpType' /\ StreamType'
<1> /\ s \in Listeners
    /\ AddressType /\ SocketType /\ PlaceType /\ UdpType /\ StreamType
  BY DEF Streams, Listeners, TypeInv
<1>1. UNCHANGED <<mainVars, udpVars, streamVars>>
  BY DEF SetupStep, SetupStream, OpenStream, WritePort, BindStream, Listen,
         ConfigureContext, Throws, setupUnchanged
<1>2. AddressType'
  <2>1. CASE WritePort(s)
    BY <2>1, PortKinds DEF WritePort, AddressType
  <2>2. CASE ~WritePort(s)
    BY <2>2, AddressFrame
       DEF SetupStep, SetupStream, OpenStream, BindStream, Listen,
           ConfigureContext, Throws
  <2>3. QED
    BY <2>1, <2>2
<1>3. SocketType'
  <2>1. CASE BindStream(s)
    BY <2>1, BoundKind DEF BindStream, AddressType
  <2>2. CASE ~BindStream(s)
    BY <2>2, SocketFrame
       DEF SetupStep, SetupStream, OpenStream, WritePort, Listen,
           ConfigureContext, Throws
  <2>3. QED
    BY <2>1, <2>2
<1>4. PlaceType'
  <2>1. CASE \E places : Throws(s, places)
    <3>1. lpc' = lpc /\ mpc' = mpc /\ announced' = announced /\ terminated' = TRUE
      BY <1>1, <2>1 DEF Throws, mainVars
    <3>2. QED
      BY ONLY <3>1, PlaceType, Zenon DEF PlaceType
  <2>2. CASE OpenStream(s)
    BY <1>1, <2>2, GotoType DEF OpenStream, ListenerPc
  <2>3. CASE WritePort(s)
    BY <1>1, <2>3, GotoType DEF WritePort, ListenerPc
  <2>4. CASE BindStream(s)
    BY <1>1, <2>4, GotoType DEF BindStream, ListenerPc
  <2>5. CASE Listen(s)
    BY <1>1, <2>5, GotoType DEF Listen, ListenerPc
  <2>6. CASE s = "tls" /\ ConfigureContext
    BY <1>1, <2>6, GotoType DEF ConfigureContext, ListenerPc
  <2>7. QED
    BY <2>1, <2>3, <2>2, <2>5, <2>4, <2>6 DEF SetupStep, SetupStream
<1>5. QED
  BY <1>1, <1>2, <1>3, <1>4, UdpFrame, StreamFrame

(* a client leaves the queue of a port *)
LEMMA ClientAccepted ==
  ASSUME StreamType, NEW p \in StreamPorts, pending[p] > 0,
         pending' = [pending EXCEPT ![p] = @ - 1], UNCHANGED requested,
         served' \subseteq Streams \X StreamPorts
  PROVE  StreamType'
<1>1. \A q \in StreamPorts : pending[q] \in 0 .. MaxClients
  BY DEF StreamType
<1>2. pending[p] - 1 \in 0 .. MaxClients /\ pending[p] - 1 <= pending[p]
  BY <1>1, ServerBoundsAssumption
<1>3. pending' \in [StreamPorts -> 0 .. MaxClients]
  BY <1>2 DEF StreamType
<1>4. requested.clients \in Nat
  BY ServerBoundsAssumption DEF StreamType
<1>5. ASSUME NEW q \in StreamPorts PROVE pending'[q] <= requested.clients
  <2>1. pending'[q] = IF q = p THEN pending[p] - 1 ELSE pending[q]
    BY DEF StreamType
  <2>2. pending[q] <= requested.clients /\ pending[p] <= requested.clients
    BY DEF StreamType
  <2>3. QED
    BY <1>1, <1>4, <2>1, <2>2, ServerBoundsAssumption
<1>6. QED
  BY <1>3, <1>5 DEF StreamType

LEMMA AcceptType ==
  ASSUME TypeInv, waitForTcpConnection \/ AcceptTls \/ waitForTlsConnection
  PROVE  AddressType' /\ SocketType' /\ PlaceType' /\ UdpType' /\ StreamType'
<1> /\ AddressType /\ SocketType /\ PlaceType /\ UdpType /\ StreamType /\ PortInv
    /\ Streams \subseteq Listeners
  BY DEF Listeners, TypeInv
<1>1. /\ UNCHANGED <<addressVars, socketVars, mainVars, udpVars>>
      /\ terminated' = terminated
  BY DEF waitForTcpConnection, AcceptTls, waitForTlsConnection
<1>2. ASSUME NEW s \in Streams, lpc[s] \in Bound
      PROVE  bound[s] \in StreamPorts
  BY <1>2 DEF PortInv
<1>3. CASE waitForTcpConnection
  <2>1. bound["tcp"] \in StreamPorts
    BY <1>2, <1>3 DEF waitForTcpConnection, ListenerGoto, Bound, Streams
  <2>2. served' \subseteq Streams \X StreamPorts
    BY <1>3, <2>1 DEF waitForTcpConnection, Serve, StreamType, Streams
  <2>3. StreamType'
    BY <1>3, <2>1, <2>2, ClientAccepted DEF waitForTcpConnection, Serve
  <2>4. PlaceType'
    BY <1>1, <1>3, GotoType DEF waitForTcpConnection, ListenerPc, Streams
  <2>5. QED
    BY <1>1, <2>3, <2>4, AddressFrame, SocketFrame, UdpFrame
<1>4. CASE AcceptTls
  <2>1. bound["tls"] \in StreamPorts
    BY <1>2, <1>4 DEF AcceptTls, ListenerGoto, Bound, Streams
  <2>2. StreamType'
    BY <1>4, <2>1, ClientAccepted DEF AcceptTls, StreamType
  <2>3. PlaceType'
    BY <1>1, <1>4, GotoType DEF AcceptTls, ListenerPc, Streams
  <2>4. QED
    BY <1>1, <2>2, <2>3, AddressFrame, SocketFrame, UdpFrame
<1>5. CASE waitForTlsConnection
  <2>1. bound["tls"] \in StreamPorts
    BY <1>2, <1>5 DEF waitForTlsConnection, ListenerGoto, Bound, Streams
  <2>2. served' \subseteq Streams \X StreamPorts
    BY <1>5, <2>1 DEF waitForTlsConnection, Serve, StreamType, Streams
  <2>3. StreamType'
    BY <1>5, <2>2 DEF waitForTlsConnection, Serve, StreamType
  <2>4. PlaceType'
    BY <1>1, <1>5, GotoType DEF waitForTlsConnection, ListenerPc, Streams
  <2>5. QED
    BY <1>1, <2>3, <2>4, AddressFrame, SocketFrame, UdpFrame
<1>6. QED
  BY <1>3, <1>4, <1>5

(* the shared client address is written one field at a time *)
LEMMA ClientAddressKind ==
  ASSUME AddressType, NEW p \in Port, NEW a \in {"any", "broadcast", "tester"}
  PROVE  /\ [clientAddress EXCEPT !.port = p] \in Destination
         /\ [clientAddress EXCEPT !.addr = a] \in Destination
  BY DEF AddressType, Destination

(* what is made of a datagram *)
LEMMA ReactType ==
  ASSUME PlaceType, NEW d, NEW from \in Asker, React(d, from),
         UNCHANGED mainVars, terminated' = terminated
  PROVE  /\ PlaceType' /\ asker' \in Asker
         /\ reply' \in {NoReply, "NEGATIVEACK", "VEHICLEIDENTRESPONSE"}
<1>1. PICK a \in UdpActions(d) :
        /\ reply' = reactToReceivedUdpMessage(a.type)
        /\ lpc' = [lpc EXCEPT !["udp"] =
                     IF reply' = NoReply THEN "recv" ELSE "answerPort"]
        /\ asker' = from
  BY DEF React
<1>2. reply' \in {NoReply, "NEGATIVEACK", "VEHICLEIDENTRESPONSE"}
  BY <1>1 DEF reactToReceivedUdpMessage
<1>3. lpc' \in [Listeners -> ListenerPc]
  BY <1>1 DEF PlaceType, ListenerPc
<1>4. QED
  BY <1>1, <1>2, <1>3, MainFrame

(* a sent datagram may come back to the server's own queue *)
LEMMA SendToType ==
  ASSUME UdpType, SocketType, NEW d \in Datagram, NEW from \in Asker,
         SendTo(d, from), UNCHANGED <<udpSocket, broadcast>>
  PROVE  /\ inbox' \in Seq(Entry) /\ Len(inbox') <= QueueLength
         /\ SocketType'
<1>1. SocketType'
  <2>1. "udp" \in Listeners /\ AnyPort \in Port
    BY PortKinds DEF Listeners
  <2>2. bound' = bound \/ bound' = [bound EXCEPT !["udp"] = AnyPort]
    BY DEF SendTo
  <2>3. QED
    BY <2>1, <2>2, BoundKind
<1>2. CASE inbox' = inbox
  BY <1>1, <1>2 DEF UdpType
<1>3. CASE inbox' = Append(inbox, [msg |-> d, from |-> from]) /\ Len(inbox) < QueueLength
  <2>1. PICK e : e = [msg |-> d, from |-> from]
    OBVIOUS
  <2>2. e \in Entry /\ inbox \in Seq(Entry)
    BY <2>1 DEF Entry, UdpType
  <2>3. inbox' = Append(inbox, e)
    BY <1>3, <2>1
  <2>4. /\ Append(inbox, e) \in Seq(Entry) /\ Len(inbox) \in Nat
        /\ Len(Append(inbox, e)) = Len(inbox) + 1
    BY <2>2, AppendElements
  <2>5. QED
    BY <1>1, <1>3, <2>3, <2>4, ServerBoundsAssumption
<1>4. QED
  BY <1>2, <1>3 DEF SendTo

LEMMA UdpListenerType ==
  ASSUME TypeInv, listenUdp
  PROVE  AddressType' /\ SocketType' /\ PlaceType' /\ UdpType' /\ StreamType'
<1> /\ "udp" \in Listeners
    /\ AddressType /\ SocketType /\ PlaceType /\ UdpType /\ StreamType
  BY DEF Listeners, TypeInv
<1>1. UNCHANGED <<mainVars, streamVars>> /\ terminated' = terminated
  <2>1. CASE OpenUdp
    BY <2>1 DEF OpenUdp, setupUnchanged
  <2>2. CASE WritePort("udp")
    BY <2>2 DEF WritePort, setupUnchanged
  <2>3. CASE BindUdp
    BY <2>3 DEF BindUdp, setupUnchanged
  <2>4. CASE receiveUdpMessage
    BY <2>4 DEF receiveUdpMessage
  <2>5. CASE ReceiveUdpFails
    BY <2>5 DEF ReceiveUdpFails
  <2>6. CASE AnswerPort
    BY <2>6 DEF AnswerPort
  <2>7. CASE AnswerAddr
    BY <2>7 DEF AnswerAddr
  <2>8. CASE sendUdpMessage
    BY <2>8 DEF sendUdpMessage
  <2>9. QED
    BY <2>8, <2>7, <2>6, <2>5, <2>4, <2>3, <2>2, <2>1 DEF listenUdp
<1>2. StreamType'
  BY <1>1, StreamFrame
<1>3. CASE OpenUdp
  <2>1. UNCHANGED <<addressVars, udpVars>>
    BY <1>3 DEF OpenUdp, setupUnchanged
  <2>2. SocketType'
    BY <1>3 DEF OpenUdp, SocketType
  <2>3. PlaceType'
    BY <1>1, <1>3, GotoType DEF OpenUdp, ListenerPc
  <2>4. QED
    BY <1>2, <2>1, <2>2, <2>3, AddressFrame, UdpFrame
<1>4. CASE WritePort("udp")
  <2>1. UNCHANGED <<socketVars, udpVars>>
    BY <1>4 DEF WritePort, setupUnchanged
  <2>2. AddressType'
    BY <1>4, PortKinds DEF WritePort, AddressType
  <2>3. PlaceType'
    BY <1>1, <1>4, GotoType DEF WritePort, ListenerPc
  <2>4. QED
    BY <1>2, <2>1, <2>2, <2>3, SocketFrame, UdpFrame
<1>5. CASE BindUdp
  <2>1. UNCHANGED <<addressVars, udpVars, udpSocket, broadcast>>
    BY <1>5 DEF BindUdp, setupUnchanged
  <2>2. bound' = bound \/ bound' = [bound EXCEPT !["udp"] = serverPort]
    BY <1>5 DEF BindUdp
  <2>3. SocketType'
    BY <2>1, <2>2, BoundKind DEF AddressType
  <2>4. PlaceType'
    BY <1>1, <1>5, GotoType DEF BindUdp, ListenerPc
  <2>5. QED
    BY <1>2, <2>1, <2>3, <2>4, AddressFrame, UdpFrame
<1>6. CASE receiveUdpMessage
  <2>1. UNCHANGED <<addressVars, socketVars, answers>>
    BY <1>6 DEF receiveUdpMessage
  <2>2. inbox \in Seq(Entry) /\ inbox # <<>> /\ inbox' = Tail(inbox)
    BY <1>6 DEF receiveUdpMessage, UdpType
  <2>3. /\ inbox' \in Seq(Entry) /\ Len(inbox') = Len(inbox) - 1
        /\ Len(inbox) \in Nat /\ Head(inbox) \in Entry
    BY ONLY <2>2
  <2>4. Len(inbox') <= QueueLength
    BY <2>3, ServerBoundsAssumption DEF UdpType
  <2>5. Head(inbox).from \in Asker
    BY <2>3 DEF Entry
  <2>6. /\ PlaceType' /\ asker' \in Asker
        /\ reply' \in {NoReply, "NEGATIVEACK", "VEHICLEIDENTRESPONSE"}
    BY <1>1, <1>6, <2>5, ReactType DEF receiveUdpMessage
  <2>7. UdpType'
    BY <2>1, <2>3, <2>4, <2>6 DEF UdpType
  <2>8. QED
    BY <1>2, <2>1, <2>6, <2>7, AddressFrame, SocketFrame
<1>7. CASE ReceiveUdpFails
  <2>1. UNCHANGED <<addressVars, socketVars, inbox, answers>>
    BY <1>7 DEF ReceiveUdpFails
  <2>2. /\ PlaceType' /\ asker' \in Asker
        /\ reply' \in {NoReply, "NEGATIVEACK", "VEHICLEIDENTRESPONSE"}
    BY <1>1, <1>7, ReactType DEF ReceiveUdpFails, Asker
  <2>3. UdpType'
    BY <2>1, <2>2 DEF UdpType
  <2>4. QED
    BY <1>2, <2>1, <2>2, <2>3, AddressFrame, SocketFrame
<1>8. CASE AnswerPort
  <2>1. UNCHANGED <<socketVars, udpVars, serverPort>>
    BY <1>8 DEF AnswerPort
  <2>2. clientAddress' \in Destination
    BY <1>8, ClientAddressKind DEF AnswerPort, AddressType
  <2>3. AddressType'
    BY <2>1, <2>2 DEF AddressType
  <2>4. PlaceType'
    BY <1>1, <1>8, GotoType DEF AnswerPort, ListenerPc
  <2>5. QED
    BY <1>2, <2>1, <2>3, <2>4, SocketFrame, UdpFrame
<1>9. CASE AnswerAddr
  <2>1. UNCHANGED <<socketVars, udpVars, serverPort>>
    BY <1>9 DEF AnswerAddr
  <2>2. clientAddress' \in Destination
    BY <1>9, ClientAddressKind DEF AnswerAddr, AddressType
  <2>3. AddressType'
    BY <2>1, <2>2 DEF AddressType
  <2>4. PlaceType'
    BY <1>1, <1>9, GotoType DEF AnswerAddr, ListenerPc
  <2>5. QED
    BY <1>2, <2>1, <2>3, <2>4, SocketFrame, UdpFrame
<1>10. CASE sendUdpMessage
  <2>1. UNCHANGED <<addressVars, udpSocket, broadcast, asker>> /\ reply' = NoReply
    BY <1>10 DEF sendUdpMessage
  <2>2. inbox' \in Seq(Entry) /\ Len(inbox') <= QueueLength /\ SocketType'
    <3>1. CASE SendTo(Nack, "own nack")
      BY <2>1, <3>1, SendToType, OwnDatagrams DEF Asker
    <3>2. CASE SendTo(createVehicleIdentificationResponse, "own response")
      BY <2>1, <3>2, SendToType, OwnDatagrams DEF Asker
    <3>3. QED
      BY <1>10, <3>1, <3>2 DEF sendUdpMessage
  <2>3. [kind |-> reply, to |-> clientAddress, asker |-> asker] \in Answer
    <3>1. reply \in PayloadType
      BY <1>10 DEF sendUdpMessage, PayloadType
    <3>2. QED
      BY <3>1 DEF Answer, UdpType, AddressType
  <2>4. answers' \subseteq Answer
    BY <1>10, <2>3 DEF sendUdpMessage, UdpType
  <2>5. UdpType'
    BY <2>1, <2>2, <2>4 DEF UdpType
  <2>6. PlaceType'
    BY <1>1, <1>10, GotoType DEF sendUdpMessage, ListenerPc
  <2>7. QED
    BY <1>2, <2>1, <2>2, <2>5, <2>6, AddressFrame
<1>11. QED
  BY <1>3, <1>4, <1>5, <1>6, <1>7, <1>8, <1>9, <1>10 DEF listenUdp

LEMMA MainType ==
  ASSUME TypeInv, Main
  PROVE  AddressType' /\ SocketType' /\ PlaceType' /\ UdpType' /\ StreamType'
<1> AddressType /\ SocketType /\ PlaceType /\ UdpType /\ StreamType
  BY DEF TypeInv
<1>1. UNCHANGED <<serverPort, lpc, reply, asker, answers, streamVars, terminated>>
  BY DEF Main, AnnouncePort, AnnounceAddr, AnnounceOption,
     sendVehicleAnnouncement, AnnounceDone, mainUnchanged
<1>2. StreamType'
  BY <1>1, StreamFrame
<1>3. mpc' \in MainPc
  <2>1. CASE AnnouncePort
    BY <2>1 DEF AnnouncePort, MainGoto, MainPc
  <2>2. CASE AnnounceAddr
    BY <2>2 DEF AnnounceAddr, MainGoto, MainPc
  <2>3. CASE AnnounceOption
    BY <2>3 DEF AnnounceOption, MainGoto, MainPc
  <2>4. CASE sendVehicleAnnouncement
    BY <2>4 DEF sendVehicleAnnouncement, MainGoto, MainPc
  <2>5. CASE AnnounceDone
    BY <2>5 DEF AnnounceDone, MainGoto, MainPc
  <2>6. QED
    BY <2>5, <2>4, <2>3, <2>2, <2>1 DEF Main
<1>4. ASSUME announced' \in 0 .. AnnounceNum PROVE PlaceType'
  BY <1>1, <1>3, <1>4 DEF PlaceType
<1>5. ASSUME announced' = announced PROVE PlaceType'
  BY <1>4, <1>5 DEF PlaceType
<1>6. ASSUME inbox' = inbox PROVE UdpType'
  BY <1>1, <1>6, UdpFrame DEF udpVars
<1>7. ASSUME clientAddress' = clientAddress PROVE AddressType'
  BY <1>1, <1>7, AddressFrame DEF addressVars
<1>8. CASE AnnouncePort
  <2>1. announced' = announced /\ inbox' = inbox /\ UNCHANGED socketVars
    BY <1>8 DEF AnnouncePort
  <2>2. clientAddress' \in Destination
    BY <1>8, ClientAddressKind, PortKinds DEF AnnouncePort
  <2>3. AddressType'
    BY <1>1, <2>2 DEF AddressType
  <2>4. QED
    BY <1>2, <1>5, <1>6, <2>1, <2>3, SocketFrame
<1>9. CASE AnnounceAddr
  <2>1. announced' = announced /\ inbox' = inbox /\ UNCHANGED socketVars
    BY <1>9 DEF AnnounceAddr
  <2>2. clientAddress' \in Destination
    BY <1>9, ClientAddressKind, PortKinds DEF AnnounceAddr
  <2>3. AddressType'
    BY <1>1, <2>2 DEF AddressType
  <2>4. QED
    BY <1>2, <1>5, <1>6, <2>1, <2>3, SocketFrame
<1>10. CASE AnnounceOption
  <2>1. /\ announced' = announced /\ inbox' = inbox /\ udpSocket' = udpSocket
        /\ clientAddress' = clientAddress /\ bound' = bound
    BY <1>10 DEF AnnounceOption
  <2>2. broadcast' \in BOOLEAN
    <3>1. broadcast' = (broadcast \/ udpSocket = "open")
      BY <1>10 DEF AnnounceOption
    <3>2. QED
      BY ONLY <3>1, Zenon
  <2>3. SocketType'
    BY <2>1, <2>2 DEF SocketType
  <2>4. QED
    BY <1>2, <1>5, <1>6, <1>7, <2>1, <2>3
<1>11. CASE sendVehicleAnnouncement
  <2>1. clientAddress' = clientAddress /\ UNCHANGED <<udpSocket, broadcast>>
    BY <1>11 DEF sendVehicleAnnouncement
  <2>2. announced' \in 0 .. AnnounceNum
    <3>1. announced \in 0 .. AnnounceNum /\ AnnounceNum \in Nat
      BY ServerBoundsAssumption DEF PlaceType
    <3>2. announced < AnnounceNum /\ announced' = announced + 1
      BY <1>11 DEF sendVehicleAnnouncement
    <3>3. QED
      BY ONLY <3>1, <3>2
  <2>3. inbox' \in Seq(Entry) /\ Len(inbox') <= QueueLength /\ SocketType'
    BY <1>11, <2>1, SendToType, OwnDatagrams DEF sendVehicleAnnouncement, Asker
  <2>4. UdpType'
    BY <1>1, <2>3 DEF UdpType
  <2>5. QED
    BY <1>2, <1>4, <1>7, <2>1, <2>2, <2>3, <2>4
<1>12. CASE AnnounceDone
  <2>1. /\ announced' = announced /\ inbox' = inbox /\ UNCHANGED socketVars
        /\ clientAddress' = clientAddress
    BY <1>12 DEF AnnounceDone
  <2>2. QED
    BY <1>2, <1>5, <1>6, <1>7, <2>1, SocketFrame
<1>13. QED
  BY <1>8, <1>9, <1>10, <1>11, <1>12 DEF Main

LEMMA EnvironmentType ==
  ASSUME TypeInv,
         \/ \E d \in Datagrams : TesterSends(d)
         \/ \E p \in StreamPorts : ClientConnects(p)
  PROVE  AddressType' /\ SocketType' /\ PlaceType' /\ UdpType' /\ StreamType'
<1> /\ AddressType /\ SocketType /\ PlaceType /\ UdpType /\ StreamType
    /\ requested \in [clients : 0 .. MaxClients, datagrams : 0 .. MaxDatagrams]
  BY DEF TypeInv, StreamType
<1>1. UNCHANGED <<addressVars, socketVars, lpc, mainVars, terminated>>
  BY DEF TesterSends, ClientConnects
<1>2. AddressType' /\ SocketType' /\ PlaceType'
  <2>1. PlaceType'
    BY <1>1 DEF PlaceType, mainVars
  <2>2. QED
    BY <1>1, <2>1, AddressFrame, SocketFrame
<1>3. ASSUME NEW d \in Datagrams, TesterSends(d) PROVE UdpType' /\ StreamType'
  <2>1. UNCHANGED <<reply, asker, answers, pending, served>>
    BY <1>3 DEF TesterSends
  <2>2. PICK e : e = [msg |-> d, from |-> "tester"]
    OBVIOUS
  <2>3. e \in Entry /\ inbox \in Seq(Entry)
    BY <2>2, DatagramsAssumption DEF Entry, UdpType, Asker
  <2>4. inbox' = Append(inbox, e) /\ Len(inbox) < QueueLength
    BY <1>3, <2>2 DEF TesterSends
  <2>5. /\ Append(inbox, e) \in Seq(Entry) /\ Len(inbox) \in Nat
        /\ Len(Append(inbox, e)) = Len(inbox) + 1
    BY <2>3, AppendElements
  <2>6. UdpType'
    <3>1. inbox' \in Seq(Entry) /\ Len(inbox') <= QueueLength
      BY <2>4, <2>5, ServerBoundsAssumption
    <3>2. QED
      BY <2>1, <3>1 DEF UdpType
  <2>7. /\ requested' \in [clients : 0 .. MaxClients, datagrams : 0 .. MaxDatagrams]
        /\ requested'.clients = requested.clients
    <3>1. requested.datagrams + 1 \in 0 .. MaxDatagrams
      BY <1>3, ServerBoundsAssumption DEF TesterSends
    <3>2. requested' = [requested EXCEPT !.datagrams = requested.datagrams + 1]
      BY <1>3 DEF TesterSends
    <3>3. QED
      BY <3>1, <3>2
  <2>8. StreamType'
    BY <2>1, <2>7 DEF StreamType
  <2>9. QED
    BY <2>6, <2>8
<1>4. ASSUME NEW p \in StreamPorts, ClientConnects(p) PROVE UdpType' /\ StreamType'
  <2>1. UNCHANGED <<udpVars, served>>
    BY <1>4 DEF ClientConnects
  <2>2. requested.clients + 1 \in 0 .. MaxClients /\ requested.clients \in Nat
    BY <1>4, ServerBoundsAssumption DEF ClientConnects
  <2>3. requested' = [requested EXCEPT !.clients = requested.clients + 1]
    BY <1>4 DEF ClientConnects
  <2>4. /\ requested' \in [clients : 0 .. MaxClients, datagrams : 0 .. MaxDatagrams]
        /\ requested'.clients = requested.clients + 1
    BY <2>2, <2>3
  <2>5. \A q \in StreamPorts :
          pending[q] \in Nat /\ pending[q] <= requested.clients
    BY DEF StreamType
  <2>6. pending' = [pending EXCEPT ![p] = pending[p] + 1]
    BY <1>4 DEF ClientConnects
  <2>7. pending' \in [StreamPorts -> 0 .. MaxClients]
    <3>1. pending[p] + 1 \in 0 .. MaxClients
      BY <2>2, <2>5, ServerBoundsAssumption
    <3>2. QED
      BY <2>6, <3>1 DEF StreamType
  <2>8. ASSUME NEW q \in StreamPorts PROVE pending'[q] <= requested'.clients
    <3>1. pending'[q] = IF q = p THEN pending[p] + 1 ELSE pending[q]
      BY <2>6 DEF StreamType
    <3>2. QED
      BY <2>2, <2>4, <2>5, <3>1
  <2>9. QED
    BY <2>1, <2>4, <2>7, <2>8, UdpFrame DEF StreamType
<1>5. QED
  BY <1>2, <1>3, <1>4

LEMMA TypeNext == TypeInv /\ [Next]_vars => TypeInv'
<1> SUFFICES ASSUME TypeInv, [Next]_vars PROVE TypeInv'
  OBVIOUS
<1>1. PortInv'
  BY PortNext DEF TypeInv
<1>2. AddressType' /\ SocketType' /\ PlaceType' /\ UdpType' /\ StreamType'
  <2>1. CASE UNCHANGED vars
    <3>1. UNCHANGED <<addressVars, socketVars, lpc, mainVars, udpVars, streamVars,
                      terminated>>
      BY <2>1 DEF vars
    <3>2. PlaceType'
      BY <3>1 DEF PlaceType, TypeInv, mainVars
    <3>3. QED
      BY <3>1, <3>2, AddressFrame, SocketFrame, UdpFrame, StreamFrame DEF TypeInv
  <2>2. QED
    BY <2>1, NextSteps, EnvironmentType, StreamListenerType, AcceptType,
       UdpListenerType, MainType
<1>3. QED
  BY <1>1, <1>2 DEF TypeInv

(* The listeners and main stay at known places, the shared addresses hold    *)
(* values the code writes, and every queue stays within its bound, for any   *)
(* number of clients, datagrams and announcements.                           *)
THEOREM ServerTypeCorrect == Spec => []TypeOK
<1>1. Init => TypeInv
  <2> SUFFICES ASSUME Init PROVE TypeInv
    OBVIOUS
  <2>1. AddressType
    BY PortKinds DEF Init, AddressType, Destination
  <2>2. SocketType
    BY DEF Init, SocketType
  <2>3. PlaceType
    <3>1. 0 \in 0 .. AnnounceNum
      BY ServerBoundsAssumption
    <3>2. lpc \in [Listeners -> ListenerPc] /\ mpc \in MainPc
      BY DEF Init, ListenerPc, MainPc
    <3>3. QED
      BY <3>1, <3>2, Zenon DEF Init, PlaceType
  <2>4. UdpType
    BY ServerBoundsAssumption DEF Init, UdpType, Asker
  <2>5. StreamType
    BY ServerBoundsAssumption DEF Init, StreamType
  <2>6. PortInv
    BY DEF Init, PortInv, Bound, Listeners, Streams
  <2>7. QED
    BY <2>1, <2>2, <2>6, <2>3, <2>4, <2>5 DEF TypeInv
<1>2. TypeInv => TypeOK
  BY DEF TypeInv, TypeOK, AddressType, SocketType, PlaceType, UdpType,
     StreamType, Entry, Answer
<1>3. QED
  BY <1>1, <1>2, TypeNext, PTL DEF Spec
=============================================================================
