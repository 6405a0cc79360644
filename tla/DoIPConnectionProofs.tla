------------------------ MODULE DoIPConnectionProofs ------------------------
(***************************************************************************)
(* Theorems about DoIPConnection, for every set of requests, every bound   *)
(* and every inactivity time, with or without TLS.                         *)
(***************************************************************************)
EXTENDS DoIPConnection, DoIPGenericHeaderProofs

(* What a group of variables that a step leaves alone contributes to the    *)
(* type invariant.                                                          *)
LEMMA UnchangedTypes ==
  /\ SocketTypeOK /\ UNCHANGED socketVars => SocketTypeOK'
  /\ ClientTypeOK /\ UNCHANGED clientVars => ClientTypeOK'
  /\ ReceiverTypeOK /\ UNCHANGED receiverVars => ReceiverTypeOK'
  /\ CloseTypeOK /\ UNCHANGED closeVars => CloseTypeOK'
  /\ AppTypeOK /\ UNCHANGED appVars => AppTypeOK'
  /\ ErrorTypeOK /\ UNCHANGED errorVars => ErrorTypeOK'
  /\ TimerTypeOK /\ UNCHANGED timerVars => TimerTypeOK'
<1>1. SocketTypeOK /\ UNCHANGED socketVars => SocketTypeOK'
  BY DEF SocketTypeOK, socketVars
<1>2. ClientTypeOK /\ UNCHANGED clientVars => ClientTypeOK'
  BY DEF ClientTypeOK, clientVars
<1>3. ReceiverTypeOK /\ UNCHANGED receiverVars => ReceiverTypeOK'
  BY DEF ReceiverTypeOK, receiverVars
<1>4. CloseTypeOK /\ UNCHANGED closeVars => CloseTypeOK'
  BY DEF CloseTypeOK, closeVars
<1>5. AppTypeOK /\ UNCHANGED appVars => AppTypeOK'
  BY DEF AppTypeOK, appVars
<1>6. ErrorTypeOK /\ UNCHANGED errorVars => ErrorTypeOK'
  BY DEF ErrorTypeOK, errorVars
<1>7. TimerTypeOK /\ UNCHANGED timerVars => TimerTypeOK'
  BY DEF TimerTypeOK, timerVars
<1>8. QED
  BY <1>1, <1>2, <1>3, <1>4, <1>5, <1>6, <1>7

(* closeSocket, whoever runs it, keeps the types. *)
LEMMA CloseSocketTypes ==
  ASSUME TypeOK, NEW t \in Threads, closeSocket(t)
  PROVE  TypeOK'
<1> USE DEF TypeOK
<1>1. /\ ClientTypeOK' /\ ReceiverTypeOK' /\ AppTypeOK' /\ TimerTypeOK'
  BY UnchangedTypes
     DEF closeSocket, CloseCheck, CloseShutdown, CloseAwait, CloseFree, CloseNull,
         CloseDescriptor, CloseZero, closeUnchanged
<1>2. CloseTypeOK'
  BY DEF CloseTypeOK, ClosePc, CloseGoto, closeSocket, CloseCheck, CloseShutdown,
         CloseAwait, CloseFree, CloseNull, CloseDescriptor, CloseZero
<1>3. SocketTypeOK'
  <2>1. CASE CloseCheck(t) \/ CloseShutdown(t) \/ CloseAwait(t)
    BY <2>1, UnchangedTypes DEF CloseCheck, CloseShutdown, CloseAwait
  <2>2. CASE CloseFree(t) \/ CloseNull(t) \/ CloseZero(t)
    BY <2>2 DEF CloseFree, CloseNull, CloseZero, SocketTypeOK
  <2>3. CASE CloseDescriptor(t)
    BY <2>3 DEF CloseDescriptor, SocketTypeOK
  <2>4. QED
    BY <2>1, <2>2, <2>3 DEF closeSocket
<1>4. ErrorTypeOK'
  <2>1. CASE CloseCheck(t) \/ CloseNull(t) \/ CloseZero(t)
    BY <2>1, UnchangedTypes DEF CloseCheck, CloseNull, CloseZero
  <2>2. CASE CloseShutdown(t)
    BY <2>2 DEF CloseShutdown, ErrorTypeOK, StrayOperations, Faults, MayEnd
  <2>3. CASE CloseAwait(t) \/ CloseFree(t)
    BY <2>3 DEF CloseAwait, CloseFree, ErrorTypeOK, Faults, MayEnd
  <2>4. CASE CloseDescriptor(t)
    BY <2>4 DEF CloseDescriptor, ErrorTypeOK, StrayOperations, ForeignOperations
  <2>5. QED
    BY <2>1, <2>2, <2>3, <2>4 DEF closeSocket
<1>5. QED
  BY <1>1, <1>2, <1>3, <1>4

(* The value a received header is turned into has the type of cur. *)
LEMMA ReceivedHeaderType ==
  ASSUME NEW r \in Requests,
         NEW a \in HeaderActions(r.pattern, r.code, r.len)
  PROVE  [type |-> a.type, value |-> a.value, len |-> a.payloadLength,
          sa |-> r.sa, act |-> r.act, whole |-> a.payloadLength = 0] \in Current
<1>1. r \in Request
  BY RequestsAssumption
<1>2. /\ r.pattern \in BOOLEAN /\ r.code \in Nat /\ r.sa \in Nat /\ r.act \in Byte
      /\ r.len \in 0 .. UIntMax
  BY <1>1 DEF Request
<1>3. UIntMax \in Nat
  BY IntMaxAssumption DEF UIntMax
<1>4. r.len \in Nat
  BY <1>2, <1>3
<1>5. a \in GenericHeaderAction /\ a.payloadLength \in {0, r.len}
  BY <1>2, <1>4, HeaderActionsType
<1>6. a.payloadLength \in 0 .. UIntMax
  BY <1>2, <1>3, <1>5
<1>7. QED
  BY <1>2, <1>5, <1>6 DEF Current, GenericHeaderAction

(* sendMessage keeps the types of what it changes. *)
LEMMA SendMessageTypes ==
  ASSUME TypeOK, NEW m \in Message, NEW fs \in SUBSET Faults,
         sendMessage(m, fs),
         UNCHANGED <<client_sock, ssl, owner, stream, sent, routedClientAddress,
                     activated, refused, closeCalls>>,
         delivered' \subseteq Nat
  PROVE  SocketTypeOK' /\ ClientTypeOK' /\ AppTypeOK' /\ ErrorTypeOK'
<1> USE DEF TypeOK
<1>1. CASE /\ Channel \in {"ok", "conn"} /\ SendToClient(m)
           /\ faults' = faults \cup fs /\ UNCHANGED stray
  <2>1. SocketTypeOK'
    BY <1>1 DEF SocketTypeOK, SendToClient
  <2>2. ClientTypeOK'
    BY <1>1 DEF ClientTypeOK, SendToClient
  <2>3. AppTypeOK'
    BY <1>1 DEF AppTypeOK, SendToClient
  <2>4. ErrorTypeOK'
    BY <1>1 DEF ErrorTypeOK, SendToClient
  <2>5. QED
    BY <2>1, <2>2, <2>3, <2>4
<1>2. CASE /\ Channel \in {"failed", "closed"}
           /\ faults' = faults \cup fs
           /\ UNCHANGED <<out, peer, session, stray, dead>>
  BY <1>2 DEF SocketTypeOK, ClientTypeOK, AppTypeOK, ErrorTypeOK
<1>3. CASE /\ Channel = "freed"
           /\ MayEnd(fs \cup {"use_after_free"})
           /\ UNCHANGED <<out, peer, session, stray>>
  <2>1. SocketTypeOK' /\ ClientTypeOK' /\ AppTypeOK'
    BY <1>3 DEF SocketTypeOK, ClientTypeOK, AppTypeOK
  <2>2. ErrorTypeOK'
    BY <1>3 DEF ErrorTypeOK, MayEnd, Faults
  <2>3. QED
    BY <2>1, <2>2
<1>4. CASE /\ Channel \in {"stdin", "other"}
           /\ stray' = stray \cup {<<"write", Channel>>}
           /\ faults' = faults \cup fs
           /\ UNCHANGED <<out, peer, session, dead>>
  <2>1. SocketTypeOK' /\ ClientTypeOK' /\ AppTypeOK'
    BY <1>4 DEF SocketTypeOK, ClientTypeOK, AppTypeOK
  <2>2. ErrorTypeOK'
    <3>1. <<"write", Channel>> \in {"read", "write", "close"} \X {"stdin", "other"}
      BY <1>4
    <3>2. QED
      BY <1>4, <3>1 DEF ErrorTypeOK, StrayOperations, ForeignOperations
  <2>3. QED
    BY <2>1, <2>2
<1>5. CASE UseNullSsl(fs) /\ UNCHANGED <<out, peer, session, stray>>
  <2>1. SocketTypeOK' /\ ClientTypeOK' /\ AppTypeOK'
    BY <1>5 DEF SocketTypeOK, ClientTypeOK, AppTypeOK
  <2>2. ErrorTypeOK'
    BY <1>5 DEF ErrorTypeOK, UseNullSsl, Faults
  <2>3. QED
    BY <2>1, <2>2
<1>6. QED
  BY <1>1, <1>2, <1>3, <1>4, <1>5 DEF sendMessage

(* The environment's actions keep the types. *)
LEMMA EnvironmentTypes ==
  ASSUME TypeOK, Environment
  PROVE  TypeOK'
<1> USE DEF TypeOK
<1>1. ASSUME NEW r \in Requests, NEW part \in Parts, ClientSends(r, part)
      PROVE  TypeOK'
  <2>1. [req |-> r, part |-> part, begun |-> FALSE] \in Item
    BY PartsAssumption DEF Item
  <2>2. stream' \in Seq(Item)
    BY <1>1, <2>1 DEF ClientSends, ClientTypeOK
  <2>3. ClientTypeOK'
    BY <1>1, <2>2, MaxRequestsAssumption DEF ClientSends, ClientTypeOK
  <2>4. QED
    BY <1>1, <2>3, UnchangedTypes DEF ClientSends
<1>2. CASE ClientCompletes
  <2>1. stream # <<>> /\ stream \in Seq(Item)
    BY <1>2 DEF ClientCompletes, ClientTypeOK
  <2>2. Len(stream) \in 1 .. Len(stream) /\ stream[Len(stream)] \in Item
    BY <2>1
  <2>3. [stream[Len(stream)] EXCEPT !.part = "all"] \in Item
    BY <2>2 DEF Item
  <2>4. stream' \in Seq(Item)
    BY <1>2, <2>1, <2>2, <2>3 DEF ClientCompletes
  <2>5. ClientTypeOK'
    BY <1>2, <2>4 DEF ClientCompletes, ClientTypeOK
  <2>6. QED
    BY <1>2, <2>5, UnchangedTypes DEF ClientCompletes
<1>3. ASSUME NEW how \in {"notify", "fin", "rst"}, ClientCloses(how)
      PROVE  TypeOK'
  <2>1. ClientTypeOK'
    BY <1>3 DEF ClientCloses, ClientTypeOK
  <2>2. QED
    BY <1>3, <2>1, UnchangedTypes DEF ClientCloses
<1>4. ASSUME NEW d \in {0, Fd}, ReuseDescriptor(d)
      PROVE  TypeOK'
  <2>1. SocketTypeOK'
    BY <1>4 DEF ReuseDescriptor, SocketTypeOK
  <2>2. QED
    BY <1>4, <2>1, UnchangedTypes DEF ReuseDescriptor
<1>5. CASE ReceiveStray
  <2>1. ReceiverTypeOK'
    <3>1. ASSUME NEW r \in Requests
          PROVE  [cur EXCEPT !.sa = r.sa, !.act = r.act] \in Current
      <4>1. r.sa \in Nat /\ r.act \in Byte
        BY RequestsAssumption DEF Request
      <4>2. QED
        BY <4>1 DEF ReceiverTypeOK, Current
    <3>2. cur' \in Current
      BY <1>5, <3>1 DEF ReceiveStray, ReceiverTypeOK
    <3>3. QED
      BY <1>5, <3>2 DEF ReceiveStray, ReceiverTypeOK, ReceiverPc
  <2>2. CloseTypeOK'
    BY <1>5 DEF ReceiveStray, CloseTypeOK, closeVars, CallClose, ClosePc, Threads
  <2>3. ErrorTypeOK'
    <3>1. <<"read", "other">> \in StrayOperations
      BY DEF StrayOperations, ForeignOperations
    <3>2. QED
      BY <1>5, <3>1 DEF ReceiveStray, ErrorTypeOK
  <2>4. QED
    BY <1>5, <2>1, <2>2, <2>3, UnchangedTypes DEF ReceiveStray
<1>6. QED
  BY <1>1, <1>2, <1>3, <1>4, <1>5 DEF Environment

(* The message that the receiver has before it reads one. *)
LEMMA NoMessageType == NoMessage \in Current
  BY IntMaxAssumption DEF NoMessage, Current, PayloadType, Byte, UIntMax

(* The receiver's steps that only move its place keep the types. *)
LEMMA ReceiverMoveTypes ==
  ASSUME TypeOK,
         \/ LoopTest \/ CloseReturns \/ IgnoreMessage \/ DestroyCallbacks
         \/ JoinTimer
  PROVE  TypeOK'
<1> USE DEF TypeOK
<1>1. CASE CloseReturns \/ IgnoreMessage \/ DestroyCallbacks \/ JoinTimer
  <2>1. ReceiverTypeOK'
    BY <1>1 DEF ReceiverTypeOK, ReceiverPc, CloseReturns, IgnoreMessage,
                DestroyCallbacks, JoinTimer
  <2>2. QED
    BY <1>1, <2>1, UnchangedTypes
       DEF CloseReturns, IgnoreMessage, DestroyCallbacks, JoinTimer
<1>2. CASE LoopTest
  <2>1. ReceiverTypeOK'
    BY <1>2, NoMessageType DEF LoopTest, ReceiverTypeOK, ReceiverPc
  <2>2. AppTypeOK'
    BY <1>2 DEF LoopTest, AppTypeOK
  <2>3. QED
    BY <1>2, <2>1, <2>2, UnchangedTypes DEF LoopTest
<1>3. QED
  BY <1>1, <1>2

(* The receiver's steps that also change the timer or a callback count keep  *)
(* the types.                                                                *)
LEMMA ReceiverTimerTypes ==
  ASSUME TypeOK,
         \/ Setup \/ MessageReceived \/ DisarmTimer \/ triggerDisconnection
  PROVE  TypeOK'
<1> USE DEF TypeOK
<1>1. CASE Setup
  <2>1. ReceiverTypeOK'
    BY <1>1 DEF Setup, ReceiverTypeOK, ReceiverPc
  <2>2. TimerTypeOK'
    BY <1>1, InactivityAssumption DEF Setup, SetTimer, TimerTypeOK
  <2>3. QED
    BY <1>1, <2>1, <2>2, UnchangedTypes DEF Setup
<1>2. CASE MessageReceived
  <2>1. ReceiverTypeOK'
    BY <1>2 DEF MessageReceived, ReceiverTypeOK, ReceiverPc
  <2>2. TimerTypeOK'
    <3>1. ResetTimer => TimerTypeOK'
      BY DEF ResetTimer, TimerTypeOK
    <3>2. QED
      BY <1>2, <3>1, UnchangedTypes DEF MessageReceived
  <2>3. QED
    BY <1>2, <2>1, <2>2, UnchangedTypes DEF MessageReceived
<1>3. CASE DisarmTimer
  <2>1. ReceiverTypeOK'
    BY <1>3 DEF DisarmTimer, ReceiverTypeOK, ReceiverPc
  <2>2. TimerTypeOK'
    BY <1>3 DEF DisarmTimer, Disarm, TimerTypeOK
  <2>3. QED
    BY <1>3, <2>1, <2>2, UnchangedTypes DEF DisarmTimer
<1>4. CASE triggerDisconnection
  <2>1. ReceiverTypeOK'
    BY <1>4 DEF triggerDisconnection, ReceiverTypeOK, ReceiverPc
  <2>2. AppTypeOK'
    BY <1>4 DEF triggerDisconnection, AppTypeOK
  <2>3. QED
    BY <1>4, <2>1, <2>2, UnchangedTypes DEF triggerDisconnection
<1>5. QED
  BY <1>1, <1>2, <1>3, <1>4

(* Marking the first message of the stream as begun or not keeps it one. *)
LEMMA BegunType ==
  ASSUME NEW s \in Seq(Item), s # <<>>, NEW b \in BOOLEAN
  PROVE  [s EXCEPT ![1].begun = b] \in Seq(Item)
<1>1. 1 \in 1 .. Len(s) /\ s[1] \in Item
  OBVIOUS
<1>2. [s[1] EXCEPT !.begun = b] \in Item
  BY <1>1 DEF Item
<1>3. QED
  BY <1>1, <1>2

(* Bytes that nobody wrote look like an address. *)
LEMMA AnyAddressType == AnyAddress \subseteq Nat
<1>1. {r.sa : r \in Requests} \subseteq Nat
  BY RequestsAssumption DEF Request
<1>2. QED
  BY <1>1, GarbageAssumption DEF AnyAddress

(* Reading from the client keeps the types. *)
LEMMA ReceiveTypes ==
  ASSUME TypeOK,
         \/ BeginRead("header", "inHeader") \/ BeginRead("payload", "inPayload")
         \/ ReadPart \/ ReceiveHeader \/ ReceivePayload \/ ReceiveShort
         \/ ReceiveFatal \/ ReceiveFreed \/ AfterFatal
  PROVE  TypeOK'
<1> USE DEF TypeOK
<1>1. ASSUME NEW from \in ReceiverPc, NEW to \in ReceiverPc, BeginRead(from, to)
      PROVE  TypeOK'
  <2>1. ReceiverTypeOK'
    BY <1>1 DEF BeginRead, ReceiverTypeOK, SocketTypeOK
  <2>2. ErrorTypeOK'
    BY <1>1 DEF BeginRead, ErrorTypeOK, MayEnd, UseNullSsl, Faults
  <2>3. QED
    BY <1>1, <2>1, <2>2, UnchangedTypes DEF BeginRead
<1>2. CASE ReceiveHeader
  <2>1. stream \in Seq(Item) /\ stream # <<>>
    BY <1>2 DEF ReceiveHeader, ReadCompletes, Enough, ClientTypeOK
  <2>2. Head(stream) \in Item /\ Tail(stream) \in Seq(Item)
    BY <2>1
  <2>3. Head(stream).req \in Requests
    BY <2>2 DEF Item
  <2>4. ReceiverTypeOK'
    BY <1>2, <2>3, ReceivedHeaderType DEF ReceiveHeader, ReceiverTypeOK, ReceiverPc
  <2>5. stream' \in Seq(Item)
    BY <1>2, <2>1, <2>2, BegunType DEF ReceiveHeader
  <2>6. ClientTypeOK'
    BY <1>2, <2>5 DEF ReceiveHeader, ClientTypeOK
  <2>7. QED
    BY <1>2, <2>4, <2>6, UnchangedTypes DEF ReceiveHeader
<1>3. CASE ReceivePayload
  <2>1. stream \in Seq(Item) /\ stream # <<>>
    BY <1>3 DEF ReceivePayload, ReadCompletes, Enough, ClientTypeOK
  <2>2. ClientTypeOK'
    BY <1>3, <2>1 DEF ReceivePayload, ClientTypeOK
  <2>3. ReceiverTypeOK'
    BY <1>3 DEF ReceivePayload, ReceiverTypeOK, ReceiverPc, Current
  <2>4. QED
    BY <1>3, <2>2, <2>3, UnchangedTypes DEF ReceivePayload
<1>4. CASE ReceiveShort
  <2>1. ReceiverTypeOK'
    BY <1>4 DEF ReceiveShort, ReceiverTypeOK, ReceiverPc
  <2>2. CloseTypeOK'
    BY <1>4 DEF ReceiveShort, CallClose, CloseTypeOK, ClosePc
  <2>3. QED
    BY <1>4, <2>1, <2>2, UnchangedTypes DEF ReceiveShort
<1>5. CASE ReceiveFatal
  <2>1. ReceiverTypeOK'
    BY <1>5 DEF ReceiveFatal, ReceiverTypeOK, ReceiverPc
  <2>2. CloseTypeOK'
    BY <1>5 DEF ReceiveFatal, CallClose, CloseTypeOK, ClosePc
  <2>3. SocketTypeOK'
    BY <1>5 DEF ReceiveFatal, SocketTypeOK
  <2>4. QED
    BY <1>5, <2>1, <2>2, <2>3, UnchangedTypes DEF ReceiveFatal
<1>6. CASE ReceiveFreed
  <2>1. ReceiverTypeOK'
    BY <1>6 DEF ReceiveFreed, ReceiverTypeOK, ReceiverPc
  <2>2. CloseTypeOK'
    BY <1>6 DEF ReceiveFreed, CallClose, CloseTypeOK, ClosePc, SocketTypeOK
  <2>3. ErrorTypeOK'
    BY <1>6 DEF ReceiveFreed, ErrorTypeOK, MayEnd, Faults
  <2>4. QED
    BY <1>6, <2>1, <2>2, <2>3, UnchangedTypes DEF ReceiveFreed
<1>7. CASE AfterFatal
  <2>1. \A a \in AnyAddress : [cur EXCEPT !.sa = a] \in Current
    BY AnyAddressType DEF ReceiverTypeOK, Current
  <2>2. cur' \in Current
    BY <1>7, <2>1 DEF AfterFatal, ReceiverTypeOK
  <2>3. ReceiverTypeOK'
    BY <1>7, <2>2 DEF AfterFatal, ReceiverTypeOK, ReceiverPc
  <2>4. CloseTypeOK'
    BY <1>7, UnchangedTypes DEF AfterFatal, CallClose, CloseTypeOK, ClosePc
  <2>5. ErrorTypeOK'
    BY <1>7 DEF AfterFatal, ErrorTypeOK, Faults
  <2>6. QED
    BY <1>7, <2>3, <2>4, <2>5, UnchangedTypes DEF AfterFatal
<1>8. CASE ReadPart
  <2>1. stream \in Seq(Item) /\ stream # <<>>
    BY <1>8 DEF ReadPart, ClientTypeOK
  <2>2. stream' \in Seq(Item)
    BY <1>8, <2>1, BegunType DEF ReadPart
  <2>3. ClientTypeOK'
    BY <1>8, <2>2 DEF ReadPart, ClientTypeOK
  <2>4. ReceiverTypeOK'
    BY <1>8 DEF ReadPart, ReceiverTypeOK, ReceiverPc
  <2>5. QED
    BY <1>8, <2>3, <2>4, UnchangedTypes DEF ReadPart
<1>9. QED
  BY <1>1, <1>2, <1>3, <1>4, <1>5, <1>6, <1>7, <1>8 DEF ReceiverPc

(* The address that reading routedClientAddress yields is an address, and   *)
(* the answers put together from it are messages.                           *)
LEMMA AnswerTypes ==
  ASSUME TypeOK
  PROVE  /\ RoutedReads \subseteq Nat
         /\ RoutedFault \subseteq Faults
         /\ [kind |-> "NEGATIVEACK", to |-> Unset, code |-> cur.value] \in Message
         /\ createRoutingActivationResponse(cur.sa, RoutingResult) \in Message
         /\ \A a \in RoutedReads, ack \in BOOLEAN :
              createDiagnosticACK(ack, a, AckCode(ack)) \in Message
         /\ \A a \in RoutedReads : createDiagnosticMessage(a) \in Message
<1> USE DEF TypeOK
<1>1. cur.sa \in Nat /\ cur.value \in Nat
  BY DEF ReceiverTypeOK, Current, Byte
<1>2. RoutedReads \subseteq Nat
  BY AnyAddressType DEF RoutedReads, AppTypeOK, Address
<1>3. RoutedFault \subseteq Faults
  BY DEF RoutedFault, Faults
<1>4. [kind |-> "NEGATIVEACK", to |-> Unset, code |-> cur.value] \in Message
  BY <1>1 DEF Message, PayloadType, Address
<1>5. createRoutingActivationResponse(cur.sa, RoutingResult) \in Message
  <2>1. RoutingResult \in Nat
    BY DEF RoutingResult, parseRoutingActivation, UnknownSourceAddressCode,
           UnsupportedRoutingTypeCode, SuccessfullyRoutedCode
  <2>2. QED
    BY <1>1, <2>1 DEF createRoutingActivationResponse, Message, PayloadType, Address
<1>6. \A a \in RoutedReads, ack \in BOOLEAN :
        createDiagnosticACK(ack, a, AckCode(ack)) \in Message
  <2>1. \A ack \in BOOLEAN : AckCode(ack) \in Nat
    BY DEF AckCode, ValidDiagnosticMessageCode, UnknownTargetAddressCode
  <2>2. QED
    BY <1>2, <2>1 DEF createDiagnosticACK, Message, PayloadType, Address
<1>7. \A a \in RoutedReads : createDiagnosticMessage(a) \in Message
  BY <1>2 DEF createDiagnosticMessage, Message, PayloadType, Address
<1>8. QED
  BY <1>2, <1>3, <1>4, <1>5, <1>6, <1>7

(* Processing a message keeps the types. *)
LEMMA ReactTypes ==
  ASSUME TypeOK,
         \/ sendNegativeAck \/ NackAnswered \/ RespondToActivation \/ RefuseRouting
         \/ ActivateRouting \/ NotifyApplication \/ DeliverDiagnostic
         \/ DropDiagnostic \/ ReadUnsetAddress
  PROVE  TypeOK'
<1> USE DEF TypeOK
<1>1. CASE sendNegativeAck \/ RespondToActivation \/ NotifyApplication
  <2>1. PICK m \in Message, fs \in SUBSET Faults : sendMessage(m, fs)
    BY <1>1, AnswerTypes, AppAcksAssumption
       DEF sendNegativeAck, RespondToActivation, NotifyApplication
  <2>2. SocketTypeOK' /\ ClientTypeOK' /\ AppTypeOK' /\ ErrorTypeOK'
    BY <1>1, <2>1, SendMessageTypes
       DEF sendNegativeAck, RespondToActivation, NotifyApplication, sendUnchanged,
           AppTypeOK
  <2>3. ReceiverTypeOK'
    BY <1>1 DEF sendNegativeAck, RespondToActivation, NotifyApplication,
                sendUnchanged, ReceiverTypeOK, ReceiverPc
  <2>4. CloseTypeOK' /\ TimerTypeOK'
    BY <1>1, UnchangedTypes
       DEF sendNegativeAck, RespondToActivation, NotifyApplication, sendUnchanged
  <2>5. QED
    BY <2>2, <2>3, <2>4
<1>2. CASE DeliverDiagnostic
  <2>1. PICK m \in Message, fs \in SUBSET Faults : sendMessage(m, fs)
    BY <1>2, AnswerTypes DEF DeliverDiagnostic
  <2>2. cur.sa \in Nat
    BY DEF ReceiverTypeOK, Current
  <2>3. SocketTypeOK' /\ ClientTypeOK' /\ AppTypeOK' /\ ErrorTypeOK'
    BY <1>2, <2>1, <2>2, SendMessageTypes
       DEF DeliverDiagnostic, sendUnchanged, AppTypeOK
  <2>4. ReceiverTypeOK'
    BY <1>2 DEF DeliverDiagnostic, sendUnchanged, ReceiverTypeOK, ReceiverPc, Current
  <2>5. CloseTypeOK' /\ TimerTypeOK'
    BY <1>2, UnchangedTypes DEF DeliverDiagnostic, sendUnchanged
  <2>6. QED
    BY <2>3, <2>4, <2>5
<1>3. CASE NackAnswered \/ RefuseRouting
  <2>1. ReceiverTypeOK'
    BY <1>3 DEF NackAnswered, RefuseRouting, ReceiverTypeOK, ReceiverPc
  <2>2. CloseTypeOK'
    BY <1>3, UnchangedTypes
       DEF NackAnswered, RefuseRouting, CallClose, CloseTypeOK, ClosePc
  <2>3. AppTypeOK'
    BY <1>3 DEF NackAnswered, RefuseRouting, AppTypeOK
  <2>4. QED
    BY <1>3, <2>1, <2>2, <2>3, UnchangedTypes DEF NackAnswered, RefuseRouting
<1>4. CASE ActivateRouting
  <2>1. ReceiverTypeOK' /\ cur.sa \in Nat
    BY <1>4 DEF ActivateRouting, ReceiverTypeOK, ReceiverPc, Current
  <2>2. AppTypeOK'
    BY <1>4, <2>1 DEF ActivateRouting, AppTypeOK, Address
  <2>3. TimerTypeOK'
    <3>1. CASE UNCHANGED timerVars
      BY <3>1, UnchangedTypes
    <3>2. CASE StartTimer /\ ~disabled
      <4>1. tpc' \in TimerPc
        BY <3>2 DEF StartTimer, TimerTypeOK, TimerPc
      <4>2. /\ elapsed' \in Nat /\ silent' \in Nat /\ longest' \in Nat
            /\ timerThreads' \in Nat /\ maxSeconds' \in Nat
        BY <3>2 DEF StartTimer, TimerTypeOK
      <4>3. disabled' \in BOOLEAN /\ active' \in BOOLEAN /\ timeout' \in BOOLEAN
        BY <3>2, Zenon DEF StartTimer, TimerTypeOK
      <4>4. QED
        BY <4>1, <4>2, <4>3 DEF TimerTypeOK
    <3>3. CASE StartTimer /\ disabled
      BY <3>3, UnchangedTypes DEF StartTimer
    <3>4. QED
      BY <1>4, <3>1, <3>2, <3>3 DEF ActivateRouting
  <2>4. QED
    BY <1>4, <2>1, <2>2, <2>3, UnchangedTypes DEF ActivateRouting
<1>5. CASE DropDiagnostic
  <2>1. ReceiverTypeOK'
    BY <1>5 DEF DropDiagnostic, ReceiverTypeOK, ReceiverPc
  <2>2. ErrorTypeOK'
    BY <1>5, AnswerTypes DEF DropDiagnostic, ErrorTypeOK
  <2>3. QED
    BY <1>5, <2>1, <2>2, UnchangedTypes DEF DropDiagnostic
<1>6. CASE ReadUnsetAddress
  <2>1. ErrorTypeOK'
    BY <1>6, AnswerTypes DEF ReadUnsetAddress, ErrorTypeOK
  <2>2. QED
    BY <1>6, <2>1, UnchangedTypes DEF ReadUnsetAddress
<1>7. QED
  BY <1>1, <1>2, <1>3, <1>4, <1>5, <1>6

(* The timer thread and the clock keep the types. *)
LEMMA TimerThreadTypes ==
  ASSUME TypeOK,
         PollTimer \/ Second \/ aliveCheckTimeout \/ CallbackReturns
  PROVE  TypeOK'
<1> USE DEF TypeOK
<1>1. CASE PollTimer
  <2>1. TimerTypeOK'
    <3>1. tpc' \in TimerPc
      BY <1>1 DEF PollTimer, PollExpired, PollDisabled, Expire, TimerPc
    <3>2. /\ elapsed' \in Nat /\ silent' \in Nat /\ longest' \in Nat
          /\ timerThreads' \in Nat /\ maxSeconds' \in Nat
      BY <1>1 DEF PollTimer, PollExpired, PollDisabled, Expire, TimerTypeOK
    <3>3. disabled' \in BOOLEAN /\ active' \in BOOLEAN /\ timeout' \in BOOLEAN
      BY <1>1, Zenon DEF PollTimer, PollExpired, PollDisabled, Expire, TimerTypeOK
    <3>4. QED
      BY <3>1, <3>2, <3>3 DEF TimerTypeOK
  <2>2. QED
    BY <1>1, <2>1, UnchangedTypes DEF PollTimer, untimed
<1>2. CASE Second
  <2>1. TimerTypeOK'
    BY <1>2, LoadAssumption DEF Second, Tick, AtMost, TimerTypeOK
  <2>2. QED
    BY <1>2, <2>1, UnchangedTypes DEF Second, untimed
<1>3. CASE aliveCheckTimeout
  <2>1. TimerTypeOK'
    BY <1>3 DEF aliveCheckTimeout, TimerGoto, TimerTypeOK, TimerPc
  <2>2. CloseTypeOK'
    BY <1>3 DEF aliveCheckTimeout, CallClose, CloseTypeOK, ClosePc
  <2>3. QED
    BY <1>3, <2>1, <2>2, UnchangedTypes DEF aliveCheckTimeout, untimed
<1>4. CASE CallbackReturns
  <2>1. TimerTypeOK'
    BY <1>4 DEF CallbackReturns, TimerGoto, TimerTypeOK, TimerPc
  <2>2. AppTypeOK'
    BY <1>4 DEF CallbackReturns, AppTypeOK
  <2>3. ErrorTypeOK'
    BY <1>4 DEF CallbackReturns, MayEnd, ErrorTypeOK, Faults
  <2>4. QED
    BY <1>4, <2>1, <2>2, <2>3, UnchangedTypes DEF CallbackReturns, untimed
<1>5. QED
  BY <1>1, <1>2, <1>3, <1>4

(* Every step keeps the types. *)
LEMMA NextTypes == TypeOK /\ [Next]_vars => TypeOK'
<1> SUFFICES ASSUME TypeOK, [Next]_vars PROVE TypeOK'
  OBVIOUS
<1>1. CASE Environment
  BY <1>1, EnvironmentTypes
<1>2. CASE Receiver
  BY <1>2, ReceiverMoveTypes, ReceiverTimerTypes, ReceiveTypes, ReactTypes,
     CloseSocketTypes DEF Receiver, Threads
<1>3. CASE Timer \/ Second
  BY <1>3, TimerThreadTypes, CloseSocketTypes DEF Timer, Threads
<1>4. CASE UNCHANGED vars
  BY <1>4, UnchangedTypes DEF TypeOK, vars
<1>5. QED
  BY <1>1, <1>2, <1>3, <1>4 DEF Next, Halted

(* The freshly accepted connection has the types. *)
LEMMA InitTypes == Init => TypeOK
<1> SUFFICES ASSUME Init PROVE TypeOK
  OBVIOUS
<1>1. SocketTypeOK
  BY TlsAssumption, FdAssumption DEF Init, SocketTypeOK
<1>2. ClientTypeOK
  BY MaxRequestsAssumption DEF Init, ClientTypeOK
<1>3. ReceiverTypeOK
  BY NoMessageType DEF Init, ReceiverTypeOK, ReceiverPc
<1>4. CloseTypeOK /\ ErrorTypeOK
  BY DEF Init, CloseTypeOK, ClosePc, ErrorTypeOK
<1>5. AppTypeOK
  <2>1. routedClientAddress \in Address
    BY DEF Init, Address
  <2>2. out \in Seq(Message)
    BY DEF Init
  <2>3. QED
    BY <2>1, <2>2 DEF Init, AppTypeOK
<1>6. TimerTypeOK
  BY DEF Init, TimerInit, TimerTypeOK, TimerPc
<1>7. QED
  BY <1>1, <1>2, <1>3, <1>4, <1>5, <1>6 DEF TypeOK

(* Type correctness of the connection: whatever the client sends and        *)
(* however its two threads interleave, every variable keeps its kind.       *)
THEOREM TypeCorrect == Spec => []TypeOK
<1>1. QED
  BY InitTypes, NextTypes, PTL DEF Spec
=============================================================================
