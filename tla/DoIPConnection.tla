--------------------------- MODULE DoIPConnection ---------------------------
(***************************************************************************)
(* One client connection of the DoIP server:                               *)
(* libdoipserver/src/DoIPConnection.cpp with the thread that serves it     *)
(* (handleClient of examples/exampleDoIPServer.cpp), its AliveCheckTimer   *)
(* and the handlers of the received messages.                              *)
(*                                                                         *)
(* Two threads share the connection without a lock: the receiver, which    *)
(* runs handleClient, and the timer, which runs aliveCheckTimeout.  Both   *)
(* may be inside closeSocket.  The client and the kernel are the           *)
(* environment.                                                            *)
(***************************************************************************)
EXTENDS DoIPGenericHeader, RoutingActivationHandler, DiagnosticMessageHandler,
        AliveCheckTimer, Sequences

CONSTANTS
  Requests,         \* the messages a client may send
  MaxRequests,      \* bound: how many of them it sends
  Parts,            \* bound: how much of a message may arrive at first
  InactivityTimes,  \* arguments of setGeneralInactivityTime
  AppAcks,          \* what notify_application may answer
  TlsModes,         \* how it was accepted: {FALSE} TCP, {TRUE} TLS, or both
  Fd                \* the descriptor accept returned

(* A message on the wire: whether the synchronisation pattern is right, the *)
(* payload type code, the declared length, the first two payload bytes as   *)
(* an address and the third as an activation type.                          *)
Request ==
  [pattern : BOOLEAN, code : Nat, len : 0 .. UIntMax, sa : Nat, act : Byte]

ASSUME RequestsAssumption == Requests \subseteq Request /\ Requests # {}
ASSUME MaxRequestsAssumption == MaxRequests \in Nat
ASSUME PartsAssumption == Parts \subseteq {"some", "header", "all"}
ASSUME InactivityAssumption == InactivityTimes \subseteq Nat /\ InactivityTimes # {}
ASSUME AppAcksAssumption == AppAcks \subseteq BOOLEAN /\ AppAcks # {}
ASSUME TlsAssumption == TlsModes \subseteq BOOLEAN /\ TlsModes # {}
ASSUME FdAssumption == Fd \in Nat \ {0}

VARIABLES
  client_sock, ssl,      \* the members; ssl tells whether the pointer is set
  session,               \* the SSL object: "none", "ok", "failed", "freed"
  owner,                 \* what the descriptors 0 and Fd refer to
  stream, peer, sent,    \* the client: unread messages, its end, a bound
  rpc, rd, cur,          \* the receiver: place, object being read, message
  cpc, skip,             \* closeSocket: place and argument, per thread
  routedClientAddress,
  out,                   \* what was sent to the client for this message
  activated, delivered,  \* addresses routed so far, addresses passed on
  refused,               \* an error was answered that ends the connection
  closeCalls,            \* calls of close_connection
  stray,                 \* operations on objects that must not be used so
  faults, dead           \* undefined behaviour met; the process ended

socketVars == <<client_sock, ssl, session, owner>>
clientVars == <<stream, peer, sent>>
receiverVars == <<rpc, rd, cur>>
closeVars == <<cpc, skip>>
appVars == <<routedClientAddress, out, activated, delivered, refused, closeCalls>>
errorVars == <<stray, faults, dead>>
vars == <<socketVars, clientVars, receiverVars, closeVars, appVars, errorVars,
          timerVars>>

Threads == {"receiver", "timer"}
Unset == -1      \* routedClientAddress is not initialised
Address == Nat \cup {Unset}

Message == [kind : PayloadType, to : Address, code : Nat]

(* What has arrived of a message, and whether the read in progress has      *)
(* already taken some bytes of it.                                          *)
Item == [req : Requests, part : {"some", "header", "all"}, begun : BOOLEAN]

(* whole: the client's payload was read to its end *)
Current == [type : PayloadType, value : Byte, len : 0 .. UIntMax, sa : Nat,
            act : Byte, whole : BOOLEAN]

ReceiverPc ==
  {"setup", "loop", "header", "inHeader", "failedHeader", "payload", "inPayload",
   "failedPayload", "received", "react", "answered", "deliver", "closing",
   "trigger", "destroy", "disarm", "join", "gone"}
ClosePc == {"idle", "check", "shutdown", "await", "free", "null", "close", "zero"}

SocketTypeOK ==
  /\ client_sock \in {0, Fd} /\ ssl \in BOOLEAN
  /\ session \in {"none", "ok", "failed", "freed"}
  /\ owner \in [{0, Fd} -> {"stdin", "conn", "other", "closed"}]
ClientTypeOK ==
  /\ stream \in Seq(Item) /\ peer \in {"open", "notify", "fin", "rst"}
  /\ sent \in 0 .. MaxRequests
ReceiverTypeOK ==
  /\ rpc \in ReceiverPc
  /\ rd \in {"none", "tls", "stdin", "conn", "other", "closed"}
  /\ cur \in Current
CloseTypeOK ==
  /\ cpc \in [Threads -> ClosePc] /\ skip \in [Threads -> BOOLEAN]
AppTypeOK ==
  /\ routedClientAddress \in Address
  /\ out \in Seq(Message)
  /\ activated \subseteq Nat /\ delivered \subseteq Nat
  /\ refused \in BOOLEAN /\ closeCalls \in Nat

ForeignOperations == {"read", "write", "close"} \X {"stdin", "other"}
StrayOperations == ForeignOperations \cup {<<"shutdown", "failed">>}
Faults ==
  {"uninitialised", "use_after_free", "double_free", "null_ssl",
   "destroyed_callback"}
ErrorTypeOK ==
  /\ stray \subseteq StrayOperations /\ faults \subseteq Faults
  /\ dead \in BOOLEAN

(* Every variable holds a value of its kind: the descriptor is the accepted *)
(* one or 0, the two threads are at known places, and only the listed       *)
(* stray operations and faults occur.                                       *)
TypeOK ==
  /\ SocketTypeOK /\ ClientTypeOK /\ ReceiverTypeOK /\ CloseTypeOK
  /\ AppTypeOK /\ ErrorTypeOK /\ TimerTypeOK

NoMessage == [type |-> "NEGATIVEACK", value |-> 0, len |-> 0, sa |-> 0,
              act |-> 0, whole |-> TRUE]

(* the constructor, called by waitForTcpConnection or waitForTlsConnection *)
Init ==
  /\ TimerInit
  /\ client_sock = Fd /\ ssl \in TlsModes
  /\ session = IF ssl THEN "ok" ELSE "none"
  /\ owner = [d \in {0, Fd} |-> IF d = 0 THEN "stdin" ELSE "conn"]
  /\ stream = <<>> /\ peer = "open" /\ sent = 0
  /\ rpc = "setup" /\ rd = "none" /\ cur = NoMessage
  /\ cpc = [t \in Threads |-> "idle"] /\ skip = [t \in Threads |-> FALSE]
  /\ routedClientAddress = Unset
  /\ out = <<>> /\ activated = {} /\ delivered = {}
  /\ refused = FALSE /\ closeCalls = 0
  /\ stray = {} /\ faults = {} /\ dead = FALSE

isSocketActive == client_sock # 0

(* what two bytes that nobody wrote may look like *)
AnyAddress == Garbage \cup {r.sa : r \in Requests}

(* the receiver is at pc, and the process runs *)
At(pc) == rpc = pc /\ ~dead

-----------------------------------------------------------------------------
(* The environment. *)

(* The client puts a message on the stream, whole or only a first part of   *)
(* it: fewer bytes than a header ("some") or the header without all of the  *)
(* payload ("header").                                                      *)
ClientSends(r, part) ==
  /\ ~dead
  /\ peer = "open"
  /\ sent < MaxRequests
  /\ \A i \in 1 .. Len(stream) : stream[i].part = "all"
  /\ stream' = Append(stream, [req |-> r, part |-> part, begun |-> FALSE])
  /\ sent' = sent + 1
  /\ UNCHANGED <<peer, socketVars, receiverVars, closeVars, appVars, errorVars,
                 timerVars>>

(* the rest of a message arrives *)
ClientCompletes ==
  /\ ~dead
  /\ peer = "open"
  /\ stream # <<>>
  /\ stream[Len(stream)].part # "all"
  /\ stream' = [stream EXCEPT ![Len(stream)].part = "all"]
  /\ UNCHANGED <<peer, sent, socketVars, receiverVars, closeVars, appVars,
                 errorVars, timerVars>>

(* The client closes its end, in TLS with or without a close_notify, or     *)
(* resets the connection.                                                   *)
ClientCloses(how) ==
  /\ ~dead
  /\ peer # "rst"
  /\ how = "rst" \/ peer = "open"
  /\ how = "notify" => session # "none"
  /\ peer' = how
  /\ UNCHANGED <<stream, sent, socketVars, receiverVars, closeVars, appVars,
                 errorVars, timerVars>>

(* The process opens a descriptor, as the listeners' accept does: it gets   *)
(* the lowest free number.                                                  *)
ReuseDescriptor(d) ==
  /\ ~dead
  /\ owner[d] = "closed"
  /\ d # 0 => owner[0] # "closed"
  /\ owner' = [owner EXCEPT ![d] = "other"]
  /\ UNCHANGED <<client_sock, ssl, session, clientVars, receiverVars, closeVars,
                 appVars, errorVars, timerVars>>

-----------------------------------------------------------------------------
(* closeSocket, one step per use of a shared member, for the thread t that  *)
(* runs it.  An SSL function applied to a freed object or a null pointer is *)
(* undefined: the process ends or goes on.                                  *)

closeUnchanged == <<clientVars, receiverVars, appVars, timerVars>>

CallClose(t, s) ==
  /\ cpc' = [cpc EXCEPT ![t] = "check"]
  /\ skip' = [skip EXCEPT ![t] = s]

CloseGoto(t, from, to) ==
  /\ cpc[t] = from /\ ~dead
  /\ cpc' = [cpc EXCEPT ![t] = to]
  /\ UNCHANGED skip

MayEnd(fs) ==
  /\ faults' = faults \cup fs
  /\ dead' \in IF fs = {} THEN {FALSE} ELSE BOOLEAN

CloseCheck(t) ==
  /\ CloseGoto(t, "check",
       IF ~isSocketActive THEN "idle"
       ELSE IF ~ssl THEN "close"
       ELSE IF skip[t] THEN "free" ELSE "shutdown")
  /\ UNCHANGED <<socketVars, errorVars, closeUnchanged>>

(* The first SSL_shutdown sends a close_notify and, unless it fails, is     *)
(* followed by a second one that waits for the client's.  Writing to a      *)
(* connection the client has reset raises SIGPIPE, which nothing handles.   *)
CloseShutdown(t) ==
  /\ CloseGoto(t, "shutdown",
       IF ssl /\ session = "ok" /\ peer # "rst" THEN "await" ELSE "free")
  /\ \/ ~ssl /\ faults' = faults \cup {"null_ssl"} /\ dead' = TRUE
     \/ ssl /\ session = "freed" /\ MayEnd({"use_after_free"})
     \/ /\ ssl /\ session # "freed"
        /\ dead' \in IF session = "ok" /\ peer = "rst" THEN BOOLEAN ELSE {FALSE}
        /\ UNCHANGED faults
  /\ stray' = stray \cup
       IF ssl /\ session = "failed" THEN {<<"shutdown", "failed">>} ELSE {}
  /\ UNCHANGED <<socketVars, closeUnchanged>>

(* The second SSL_shutdown returns once the client answers with its own     *)
(* close_notify, with other data, or leaves.                                *)
CloseAwait(t) ==
  /\ CloseGoto(t, "await", "free")
  /\ peer # "open" \/ stream # <<>>
  /\ MayEnd(IF session = "freed" THEN {"use_after_free"} ELSE {})
  /\ UNCHANGED <<socketVars, stray, closeUnchanged>>

(* SSL_free(ssl); freeing a null pointer does nothing *)
CloseFree(t) ==
  /\ CloseGoto(t, "free", "null")
  /\ session' = IF ssl THEN "freed" ELSE session
  /\ MayEnd(IF ssl /\ session = "freed" THEN {"double_free"} ELSE {})
  /\ UNCHANGED <<client_sock, ssl, owner, stray, closeUnchanged>>

CloseNull(t) ==
  /\ CloseGoto(t, "null", "close")
  /\ ssl' = FALSE
  /\ UNCHANGED <<client_sock, session, owner, errorVars, closeUnchanged>>

(* mutant: the descriptor is never closed *)
CloseDescriptorForgotten(t) ==
  /\ CloseGoto(t, "close", "zero")
  /\ UNCHANGED <<socketVars, errorVars, closeUnchanged>>

(* close(client_sock) reads the member again: the other thread may have set *)
(* it to 0 since the check, and another connection may own the number.      *)
CloseDescriptor(t) ==
  /\ CloseGoto(t, "close", "zero")
  /\ owner' = [owner EXCEPT ![client_sock] = "closed"]
  /\ stray' = stray \cup
       IF owner[client_sock] \in {"stdin", "other"}
         THEN {<<"close", owner[client_sock]>>} ELSE {}
  /\ UNCHANGED <<client_sock, ssl, session, faults, dead, closeUnchanged>>

(* mutant: the descriptor is marked -1 *)
CloseZeroMinusOne(t) ==
  /\ CloseGoto(t, "zero", "idle")
  /\ client_sock' = -1
  /\ UNCHANGED <<ssl, session, owner, errorVars, closeUnchanged>>

(* mutant: the member keeps the closed descriptor *)
CloseZeroForgotten(t) ==
  /\ CloseGoto(t, "zero", "idle")
  /\ UNCHANGED <<socketVars, errorVars, closeUnchanged>>

(* mutant: closeSocket calls close_connection, as triggerDisconnection does *)
CloseZeroNotifies(t) ==
  /\ CloseGoto(t, "zero", "idle")
  /\ client_sock' = 0
  /\ closeCalls' = closeCalls + 1
  /\ UNCHANGED <<ssl, session, owner, errorVars, clientVars, receiverVars,
                 routedClientAddress, out, activated, delivered, refused, timerVars>>

CloseZero(t) ==
  /\ CloseGoto(t, "zero", "idle")
  /\ client_sock' = 0
  /\ UNCHANGED <<ssl, session, owner, errorVars, closeUnchanged>>

closeSocket(t) ==
  \/ CloseCheck(t)
  \/ CloseShutdown(t)
  \/ CloseAwait(t)
  \/ CloseFree(t)
  \/ CloseNull(t)
  \/ CloseDescriptor(t)
  \/ CloseZero(t)

-----------------------------------------------------------------------------
(* sendMessage.  fs are faults met while the message was put together.      *)

(* write() or SSL_write() to the client: a client that has closed answers   *)
(* with a reset sooner or later, and a write after that fails or raises     *)
(* SIGPIPE.                                                                 *)
SendToClient(m) ==
  \/ /\ peer # "rst"
     /\ out' = Append(out, m)
     /\ peer' \in IF peer = "open" THEN {"open"} ELSE {peer, "rst"}
     /\ UNCHANGED <<session, dead>>
  \/ /\ peer = "rst"
     /\ session' = IF ssl THEN "failed" ELSE session
     /\ dead' \in BOOLEAN
     /\ UNCHANGED <<out, peer>>

(* what a write or a read goes to: the SSL object, else the descriptor *)
Channel == IF ssl THEN session ELSE owner[client_sock]

(* The timer thread has just set ssl to null while the receiver, outside    *)
(* closeSocket, may be between its test of the pointer and its use.         *)
SslNulled ==
  ~ssl /\ session = "freed" /\ client_sock # 0 /\ cpc["timer"] = "close"

UseNullSsl(fs) ==
  /\ SslNulled
  /\ faults' = faults \cup fs \cup {"null_ssl"}
  /\ dead' = TRUE

sendMessage(m, fs) ==
  \/ /\ Channel \in {"ok", "conn"}
     /\ SendToClient(m)
     /\ faults' = faults \cup fs
     /\ UNCHANGED stray
  \/ /\ Channel \in {"failed", "closed"}
     /\ faults' = faults \cup fs
     /\ UNCHANGED <<out, peer, session, stray, dead>>
  \/ /\ Channel = "freed"
     /\ MayEnd(fs \cup {"use_after_free"})
     /\ UNCHANGED <<out, peer, session, stray>>
  \/ /\ Channel \in {"stdin", "other"}
     /\ stray' = stray \cup {<<"write", Channel>>}
     /\ faults' = faults \cup fs
     /\ UNCHANGED <<out, peer, session, dead>>
  \/ UseNullSsl(fs) /\ UNCHANGED <<out, peer, session, stray>>

(* what every action that sends leaves alone *)
sendUnchanged ==
  <<client_sock, ssl, owner, stream, sent, rd, closeVars, routedClientAddress,
    activated, refused, closeCalls, timerVars>>

-----------------------------------------------------------------------------
(* The receiver thread: handleClient and receiveTcpOrTlsMessage. *)

(* setCallback and setGeneralInactivityTime *)
Setup ==
  /\ At("setup")
  /\ rpc' = "loop"
  /\ \E seconds \in InactivityTimes : SetTimer(seconds)
  /\ UNCHANGED <<rd, cur, socketVars, clientVars, closeVars, appVars, errorVars>>

(* mutant: handleClient goes on reading without testing isSocketActive *)
LoopTestForever ==
  /\ At("loop")
  /\ rpc' = "header"
  /\ cur' = NoMessage /\ out' = <<>>
  /\ UNCHANGED <<rd, socketVars, clientVars, closeVars, routedClientAddress,
                 activated, delivered, refused, closeCalls, errorVars, timerVars>>

(* receiveTcpOrTlsMessage has returned, and with it its local variables *)
LoopTest ==
  /\ At("loop")
  /\ rpc' = IF isSocketActive THEN "header" ELSE "trigger"
  /\ cur' = NoMessage /\ out' = <<>>
  /\ UNCHANGED <<rd, socketVars, clientVars, closeVars, routedClientAddress,
                 activated, delivered, refused, closeCalls, errorVars, timerVars>>

(* receiveFixedNumberOfBytesFromTcpOrTls picks the SSL object or the        *)
(* descriptor and enters the read.  A read that blocks keeps its socket     *)
(* open even when the other thread closes the descriptor.  recv on          *)
(* descriptor 0 fails: it is not a socket.                                  *)
BeginRead(from, to) ==
  /\ At(from)
  /\ rpc' = to
  /\ rd' = IF ssl THEN "tls" ELSE owner[client_sock]
  /\ \/ MayEnd(IF Channel = "freed" THEN {"use_after_free"} ELSE {})
     \/ UseNullSsl({})
  /\ UNCHANGED <<cur, stray, socketVars, clientVars, closeVars, appVars, timerVars>>

Reading == rpc \in {"inHeader", "inPayload"}

(* the client has sent all the bytes that are asked for *)
Enough ==
  /\ stream # <<>>
  /\ Head(stream).part \in
       IF rpc = "inHeader" THEN {"header", "all"} ELSE {"all"}

ReadsClient == rd = "conn" \/ (rd = "tls" /\ session = "ok")

(* SSL_read takes an int: it refuses a payload that is longer at once. *)
TooLong == rd = "tls" /\ session # "freed" /\ rpc = "inPayload" /\ cur.len > IntMax

ReadCompletes == ReadsClient /\ Enough /\ ~TooLong

(* the read returns 0 or -1 before all the bytes have come *)
ReadStops ==
  \/ rd \in {"stdin", "closed"}
  \/ rd = "tls" /\ session = "failed"
  \/ TooLong
  \/ ReadsClient /\ peer = "rst"
  \/ ReadsClient /\ peer # "open" /\ ~Enough

(* SSL_ERROR_ZERO_RETURN *)
CloseNotified == session = "ok" /\ peer = "notify" /\ ~TooLong

(* A read returns fewer bytes than were asked for: the loop goes round and  *)
(* picks the object to read from again.                                     *)
ReadPart ==
  /\ Reading /\ ~dead
  /\ ReadsClient /\ ~TooLong
  /\ peer # "rst"
  /\ stream # <<>> /\ ~Head(stream).begun
  /\ stream' = [stream EXCEPT ![1].begun = TRUE]
  /\ rd' = "none"
  /\ rpc' = IF rpc = "inHeader" THEN "header" ELSE "payload"
  /\ UNCHANGED <<cur, peer, sent, socketVars, closeVars, appVars, errorVars, timerVars>>

ReceiveHeader ==
  /\ At("inHeader")
  /\ ReadCompletes
  /\ ~timeout
  /\ rd' = "none"
  /\ \E a \in HeaderActions(Head(stream).req.pattern, Head(stream).req.code,
                            Head(stream).req.len) :
       /\ cur' = [type |-> a.type, value |-> a.value, len |-> a.payloadLength,
                  sa |-> Head(stream).req.sa, act |-> Head(stream).req.act,
                  whole |-> a.payloadLength = 0]
       /\ rpc' = IF a.payloadLength > 0 THEN "payload" ELSE "received"
       /\ stream' = IF a.payloadLength > 0 THEN [stream EXCEPT ![1].begun = FALSE]
                     ELSE Tail(stream)
  /\ UNCHANGED <<peer, sent, socketVars, closeVars, appVars, errorVars, timerVars>>

ReceivePayload ==
  /\ At("inPayload")
  /\ ReadCompletes
  /\ rd' = "none"
  /\ rpc' = "received"
  /\ stream' = Tail(stream)
  /\ cur' = [cur EXCEPT !.whole = TRUE]
  /\ UNCHANGED <<peer, sent, socketVars, closeVars, appVars, errorVars, timerVars>>

(* A header that is short, or that came after the timeout, and a short      *)
(* payload lead to closeSocket.                                             *)
ReceiveShort ==
  /\ Reading /\ ~dead
  /\ \/ ReadStops /\ (ssl => CloseNotified)
     \/ rpc = "inHeader" /\ timeout /\ ReadCompletes
  /\ rd' = "none"
  /\ rpc' = "closing"
  /\ CallClose("receiver", FALSE)
  /\ UNCHANGED <<cur, socketVars, clientVars, appVars, errorVars, timerVars>>

(* handle_SSL_read_error for a fatal error: closeSocket(true), then -1 *)
ReceiveFatal ==
  /\ Reading /\ ~dead
  /\ ReadStops /\ ssl /\ ~CloseNotified
  /\ rd' = "none"
  /\ session' = "failed"
  /\ rpc' = IF rpc = "inHeader" THEN "failedHeader" ELSE "failedPayload"
  /\ CallClose("receiver", TRUE)
  /\ UNCHANGED <<cur, client_sock, ssl, owner, clientVars, appVars, errorVars,
                 timerVars>>

(* the other thread has freed the SSL object this read is using *)
ReceiveFreed ==
  /\ Reading /\ ~dead
  /\ rd = "tls" /\ session = "freed"
  /\ stream # <<>> \/ peer # "open"
  /\ MayEnd({"use_after_free"})
  /\ rd' = "none"
  /\ rpc' = IF ~ssl THEN "closing"
            ELSE IF rpc = "inHeader" THEN "failedHeader" ELSE "failedPayload"
  /\ CallClose("receiver", ssl)
  /\ UNCHANGED <<cur, stray, socketVars, clientVars, appVars, timerVars>>

(* The descriptor belongs to another connection by now: its bytes are taken *)
(* for this message's payload, or for the rest of it; a header read this    *)
(* way comes after the timeout and is dropped.                              *)
ReceiveStray ==
  /\ Reading /\ ~dead
  /\ rd = "other"
  /\ rd' = "none"
  /\ stray' = stray \cup {<<"read", "other">>}
  /\ \/ /\ rpc' = "closing"
        /\ CallClose("receiver", FALSE)
        /\ UNCHANGED cur
     \/ /\ rpc = "inPayload"
        /\ rpc' = "received"
        /\ \/ \E r \in Requests : cur' = [cur EXCEPT !.sa = r.sa, !.act = r.act]
           \/ UNCHANGED cur
        /\ UNCHANGED closeVars
  /\ UNCHANGED <<socketVars, clientVars, appVars, faults, dead, timerVars>>

(* Back from handle_SSL_read_error: the result -1 became UIntMax, which no  *)
(* header length equals but which a declared payload length may: then the   *)
(* buffer, which nobody filled, is taken for the message.                   *)
AfterFatal ==
  /\ rpc \in {"failedHeader", "failedPayload"} /\ ~dead
  /\ cpc["receiver"] = "idle"
  /\ \/ /\ rpc = "failedHeader" \/ cur.len # UIntMax
        /\ rpc' = "closing"
        /\ CallClose("receiver", FALSE)
        /\ UNCHANGED <<cur, faults>>
     \/ /\ rpc = "failedPayload" /\ cur.len = UIntMax
        /\ rpc' = "received"
        /\ \E a \in AnyAddress : cur' = [cur EXCEPT !.sa = a]
        /\ faults' = faults \cup {"uninitialised"}
        /\ UNCHANGED closeVars
  /\ UNCHANGED <<rd, socketVars, clientVars, appVars, stray, dead, timerVars>>

(* mutant: any message starts the timer *)
MessageReceivedStartsTimer ==
  /\ At("received")
  /\ rpc' = "react"
  /\ \/ active /\ ResetTimer
     \/ ~active /\ StartTimer
  /\ UNCHANGED <<rd, cur, socketVars, clientVars, closeVars, appVars, errorVars>>

(* a complete message resets the timer before it is processed *)
MessageReceived ==
  /\ At("received")
  /\ rpc' = "react"
  /\ \/ active /\ ResetTimer
     \/ ~active /\ UNCHANGED timerVars
  /\ UNCHANGED <<rd, cur, socketVars, clientVars, closeVars, appVars, errorVars>>

CloseReturns ==
  /\ At("closing")
  /\ cpc["receiver"] = "idle"
  /\ rpc' = "loop"
  /\ UNCHANGED <<rd, cur, socketVars, clientVars, closeVars, appVars, errorVars,
                 timerVars>>

-----------------------------------------------------------------------------
(* reactOnReceivedTcpMessage.  What follows the sending of an answer is a   *)
(* step of its own.                                                         *)

sendNegativeAck ==
  /\ At("react")
  /\ cur.type = "NEGATIVEACK"
  /\ sendMessage([kind |-> "NEGATIVEACK", to |-> Unset, code |-> cur.value], {})
  /\ rpc' = "answered"
  /\ UNCHANGED <<cur, delivered, sendUnchanged>>

NackAnswered ==
  /\ At("answered")
  /\ cur.type = "NEGATIVEACK"
  /\ \/ /\ cur.value \in {IncorrectPatternFormatCode, InvalidPayloadLengthCode}
        /\ refused' = TRUE
        /\ rpc' = "closing"
        /\ CallClose("receiver", FALSE)
     \/ /\ cur.value \notin {IncorrectPatternFormatCode, InvalidPayloadLengthCode}
        /\ rpc' = "loop"
        /\ UNCHANGED <<refused, closeVars>>
  /\ UNCHANGED <<rd, cur, socketVars, clientVars, routedClientAddress, out,
                 activated, delivered, closeCalls, errorVars, timerVars>>

RoutingResult == parseRoutingActivation(cur.sa, cur.act)

RespondToActivation ==
  /\ At("react")
  /\ cur.type = "ROUTINGACTIVATIONREQUEST"
  /\ sendMessage(createRoutingActivationResponse(cur.sa, RoutingResult), {})
  /\ rpc' = "answered"
  /\ UNCHANGED <<cur, delivered, sendUnchanged>>

(* mutant: the connection stays open after a refusal *)
RefuseRoutingStaysOpen ==
  /\ At("answered")
  /\ cur.type = "ROUTINGACTIVATIONREQUEST"
  /\ RoutingResult \in {UnknownSourceAddressCode, UnsupportedRoutingTypeCode}
  /\ refused' = TRUE
  /\ rpc' = "loop"
  /\ UNCHANGED <<rd, cur, socketVars, clientVars, closeVars, routedClientAddress,
                 out, activated, delivered, closeCalls, errorVars, timerVars>>

RefuseRouting ==
  /\ At("answered")
  /\ cur.type = "ROUTINGACTIVATIONREQUEST"
  /\ RoutingResult \in {UnknownSourceAddressCode, UnsupportedRoutingTypeCode}
  /\ refused' = TRUE
  /\ rpc' = "closing"
  /\ CallClose("receiver", FALSE)
  /\ UNCHANGED <<rd, cur, socketVars, clientVars, routedClientAddress, out,
                 activated, delivered, closeCalls, errorVars, timerVars>>

(* mutant: every activation starts a timer thread *)
ActivateRoutingAlwaysStarts ==
  /\ At("answered")
  /\ cur.type = "ROUTINGACTIVATIONREQUEST"
  /\ RoutingResult = SuccessfullyRoutedCode
  /\ routedClientAddress' = cur.sa
  /\ activated' = activated \cup {cur.sa}
  /\ StartTimer
  /\ rpc' = "loop"
  /\ UNCHANGED <<rd, cur, socketVars, clientVars, closeVars, out, delivered, refused,
                 closeCalls, errorVars>>

(* the address is saved and the timer started unless it already runs *)
ActivateRouting ==
  /\ At("answered")
  /\ cur.type = "ROUTINGACTIVATIONREQUEST"
  /\ RoutingResult = SuccessfullyRoutedCode
  /\ routedClientAddress' = cur.sa
  /\ activated' = activated \cup {cur.sa}
  /\ \/ ~active /\ StartTimer
     \/ active /\ UNCHANGED timerVars
  /\ rpc' = "loop"
  /\ UNCHANGED <<rd, cur, socketVars, clientVars, closeVars, out, delivered, refused,
                 closeCalls, errorVars>>

(* What reading routedClientAddress may give: before the first activation   *)
(* the pointer is not initialised, and reading through it ends the process  *)
(* or yields any bytes.                                                     *)
RoutedReads ==
  IF routedClientAddress = Unset
    THEN AnyAddress
    ELSE {routedClientAddress}

RoutedFault ==
  IF routedClientAddress = Unset THEN {"uninitialised"} ELSE {}

AckCode(ack) ==
  IF ack THEN ValidDiagnosticMessageCode ELSE UnknownTargetAddressCode

ReadsLength == ToInt(cur.len) >= DiagnosticMessageMinimumLength

(* mutant: the application's answer is ignored *)
NotifyApplicationIgnored ==
  /\ At("react")
  /\ cur.type = "DIAGNOSTICMESSAGE"
  /\ \E ack \in AppAcks, a \in RoutedReads :
       /\ sendMessage(createDiagnosticACK(ack, a, AckCode(ack)), RoutedFault)
       /\ rpc' = "deliver"
  /\ UNCHANGED <<cur, delivered, sendUnchanged>>

(* notify_application: the application acknowledges with sendDiagnosticAck  *)
(* and says whether it takes the message                                    *)
NotifyApplication ==
  /\ At("react")
  /\ cur.type = "DIAGNOSTICMESSAGE"
  /\ \E ack \in AppAcks, a \in RoutedReads :
       /\ sendMessage(createDiagnosticACK(ack, a, AckCode(ack)), RoutedFault)
       /\ rpc' = IF ack THEN "deliver" ELSE "loop"
  /\ UNCHANGED <<cur, delivered, sendUnchanged>>

(* parseDiagnosticMessage accepts: the callback gets the user data and the  *)
(* application answers with sendDiagnosticPayload                           *)
DeliverDiagnostic ==
  /\ At("deliver")
  /\ \E a \in RoutedReads :
       /\ parseDiagnosticMessage(a, cur.sa, ToInt(cur.len))
            = ValidDiagnosticMessageCode
       /\ sendMessage(createDiagnosticMessage(a), RoutedFault)
  /\ delivered' = delivered \cup {cur.sa}
  /\ rpc' = "loop"
  /\ UNCHANGED <<cur, sendUnchanged>>

(* ... or returns an error code, which the caller ignores *)
DropDiagnostic ==
  /\ At("deliver")
  /\ \E a \in RoutedReads :
       parseDiagnosticMessage(a, cur.sa, ToInt(cur.len))
         # ValidDiagnosticMessageCode
  /\ faults' = faults \cup (IF ReadsLength THEN RoutedFault ELSE {})
  /\ rpc' = "loop"
  /\ UNCHANGED <<rd, cur, socketVars, clientVars, closeVars, appVars, stray, dead,
                 timerVars>>

ReadUnsetAddress ==
  /\ \/ At("react") /\ cur.type = "DIAGNOSTICMESSAGE"
     \/ At("deliver") /\ ReadsLength
  /\ routedClientAddress = Unset
  /\ faults' = faults \cup RoutedFault
  /\ dead' = TRUE
  /\ UNCHANGED <<receiverVars, socketVars, clientVars, closeVars, appVars, stray,
                 timerVars>>

(* the default case; an alive check response would be ignored the same way *)
IgnoreMessage ==
  /\ At("react")
  /\ cur.type \notin {"NEGATIVEACK", "ROUTINGACTIVATIONREQUEST", "DIAGNOSTICMESSAGE"}
  /\ rpc' = "loop"
  /\ UNCHANGED <<rd, cur, socketVars, clientVars, closeVars, appVars, errorVars,
                 timerVars>>

-----------------------------------------------------------------------------
(* The end of handleClient and the destructors. *)

triggerDisconnection ==
  /\ At("trigger")
  /\ rpc' = "destroy"
  /\ closeCalls' = closeCalls + 1
  /\ UNCHANGED <<rd, cur, socketVars, clientVars, closeVars, routedClientAddress,
                 out, activated, delivered, refused, errorVars, timerVars>>

(* Members are destroyed in reverse order of declaration: the three         *)
(* callbacks, then aliveCheckTimer, whose destructor disarms and joins.     *)
DestroyCallbacks ==
  /\ At("destroy")
  /\ rpc' = "disarm"
  /\ UNCHANGED <<rd, cur, socketVars, clientVars, closeVars, appVars, errorVars,
                 timerVars>>

CallbacksDestroyed == rpc \in {"disarm", "join", "gone"}

DisarmTimer ==
  /\ At("disarm")
  /\ rpc' = "join"
  /\ Disarm
  /\ UNCHANGED <<rd, cur, socketVars, clientVars, closeVars, appVars, errorVars>>

JoinTimer ==
  /\ At("join")
  /\ Joinable
  /\ rpc' = "gone"
  /\ UNCHANGED <<rd, cur, socketVars, clientVars, closeVars, appVars, errorVars,
                 timerVars>>

-----------------------------------------------------------------------------
(* The timer thread: waitForResponse and aliveCheckTimeout. *)

untimed == <<socketVars, clientVars, receiverVars>>

PollTimer ==
  /\ ~dead
  /\ PollExpired \/ PollDisabled \/ Expire
  /\ UNCHANGED <<untimed, closeVars, appVars, errorVars>>

Second ==
  /\ ~dead
  /\ Tick
  /\ UNCHANGED <<untimed, closeVars, appVars, errorVars>>

(* mutant: the timeout only notifies the application *)
aliveCheckTimeoutOnlyNotifies ==
  /\ ~dead
  /\ TimerGoto("fire", "callback")
  /\ UNCHANGED <<untimed, closeVars, appVars, errorVars>>

aliveCheckTimeout ==
  /\ ~dead
  /\ TimerGoto("fire", "callback")
  /\ CallClose("timer", FALSE)
  /\ UNCHANGED <<untimed, appVars, errorVars>>

CallbackReturns ==
  /\ ~dead
  /\ TimerGoto("callback", "poll")
  /\ cpc["timer"] = "idle"
  /\ closeCalls' = closeCalls + 1
  /\ MayEnd(IF CallbacksDestroyed THEN {"destroyed_callback"} ELSE {})
  /\ UNCHANGED <<untimed, closeVars, routedClientAddress, out, activated, delivered,
                 refused, stray>>

-----------------------------------------------------------------------------
Environment ==
  \/ \E r \in Requests, part \in Parts : ClientSends(r, part)
  \/ ClientCompletes
  \/ \E how \in {"notify", "fin", "rst"} : ClientCloses(how)
  \/ \E d \in {0, Fd} : ReuseDescriptor(d)
  \/ ReceiveStray

Receiver ==
  \/ Setup \/ LoopTest
  \/ BeginRead("header", "inHeader") \/ BeginRead("payload", "inPayload")
  \/ ReadPart \/ ReceiveHeader \/ ReceivePayload \/ ReceiveShort \/ ReceiveFatal
  \/ ReceiveFreed \/ AfterFatal \/ MessageReceived \/ CloseReturns
  \/ sendNegativeAck \/ NackAnswered
  \/ RespondToActivation \/ RefuseRouting \/ ActivateRouting
  \/ NotifyApplication \/ DeliverDiagnostic \/ DropDiagnostic
  \/ ReadUnsetAddress \/ IgnoreMessage
  \/ triggerDisconnection \/ DestroyCallbacks \/ DisarmTimer \/ JoinTimer
  \/ closeSocket("receiver")

Timer ==
  \/ PollTimer \/ aliveCheckTimeout \/ CallbackReturns
  \/ closeSocket("timer")

(* the process has ended or the connection's thread has *)
Halted == (dead \/ rpc = "gone") /\ UNCHANGED vars

Next ==
  \/ Environment \/ Receiver \/ Timer \/ Second
  \/ Halted

(* The scheduler runs both threads; the clock advances while a timer polls, *)
(* since polling consumes the CPU time it measures.  Nothing is assumed of  *)
(* the client, nor of a read from somebody else's descriptor.               *)
Fairness ==
  /\ WF_vars(Receiver)
  /\ WF_vars(Timer)
  /\ WF_vars(Second)

Spec == Init /\ [][Next]_vars
FairSpec == Spec /\ Fairness

-----------------------------------------------------------------------------
(* Properties that hold with and without a timer. *)

(* The timer thread never outlives the object it works on: there is at most *)
(* one, since startTimer is only called while the timer is not active, and  *)
(* the destructor joins the only thread it knows before the object is gone. *)
TimerThreadJoined ==
  /\ timerThreads <= 1
  /\ rpc = "gone" => tpc \in {"none", "done"}

(* However the two threads interleave in closeSocket, client_sock is 0 only *)
(* after the accepted descriptor was closed and the SSL object freed: the   *)
(* receiver's loop never ends with either of them leaked.                   *)
DescriptorReleased ==
  client_sock = 0 => owner[Fd] # "conn" /\ session \notin {"ok", "failed"}

(* Once a message was answered with an error that ends the connection (a    *)
(* wrong pattern, a wrong length, a refused activation), nothing more is    *)
(* sent to that client or passed to the application on its behalf.          *)
RefusedNotServed ==
  [][refused => Len(out') <= Len(out) /\ delivered' = delivered]_vars

(* The inactivity timer runs, and times out, only for a client that was     *)
(* routed.                                                                  *)
TimeoutOnlyIfRouted ==
  tpc # "none" \/ timeout => routedClientAddress # Unset

(* A client that leaves, cleanly or not, in the middle of a message or      *)
(* between two, makes the serving thread end (unless the process does, or   *)
(* the thread is reading a descriptor that became somebody else's), and     *)
(* joining the timer thread never holds it up for ever.                     *)
ClientGoneReleases ==
  peer # "open" ~> dead \/ rpc = "gone" \/ rd = "other"

(* User data reaches the application only from an address that a routing    *)
(* activation on this connection accepted, unless the comparison used the   *)
(* uninitialised address.                                                   *)
DeliveredOnlyRouted ==
  "uninitialised" \in faults \/ delivered \subseteq activated

-----------------------------------------------------------------------------
(* Properties of a connection whose timer is disabled, which has no second  *)
(* thread.                                                                  *)

(* The connection reads, writes and closes no descriptor but its own, and   *)
(* uses its SSL object only while it exists: closeSocket and the paths that *)
(* lead to it never go on with what they have given up.  The exception is a *)
(* message that is processed after the connection was closed, because the   *)
(* length it declared is what a failed read returns: its answer is written  *)
(* to descriptor 0.  (That a session which failed is shut down once more is *)
(* not about foreign objects: NoShutdownAfterFatal.)                        *)
OnlyOwnObjects ==
  /\ stray \cap ForeignOperations \subseteq
       (IF "uninitialised" \in faults THEN {<<"write", "stdin">>} ELSE {})
  /\ faults \subseteq {"uninitialised"}

(* SSL_shutdown is not called on a session that had a fatal error.          *)
NoShutdownAfterFatal == <<"shutdown", "failed">> \notin stray

(* The application hears exactly once that the connection was closed, and   *)
(* only after the socket was.                                               *)
CloseCallbackOnce ==
  /\ closeCalls <= 1
  /\ closeCalls = 1 => client_sock = 0
  /\ rpc = "gone" => closeCalls = 1

(* The dialogue with the client, seen without sockets and threads. *)
SessionPhase ==
  IF closeCalls > 0 THEN "reported"
  ELSE IF client_sock = 0 THEN "closed"
  ELSE IF refused THEN "refused" ELSE "open"

Broken == dead \/ faults # {}

Session ==
  INSTANCE DoIPSession WITH
    phase <- SessionPhase,
    route <- routedClientAddress,
    replies <- out,
    served <- delivered,
    broken <- Broken,
    NoRoute <- Unset

(* Until the process ends or meets undefined behaviour, the connection is a *)
(* session: each request is answered at most once before its effect, only   *)
(* the tester whose activation was accepted is served, only data that were  *)
(* confirmed are, and only a connection that is closed is reported.         *)
ImplementsSession == Session!SessionSpec

(* A connection that was closed, by the client or because of an error, is   *)
(* reported to the application: the serving thread leaves its loop.         *)
ClosedIsReported == Session!SessionReports

-----------------------------------------------------------------------------
(* Properties of a connection with a timer. *)

(* A client that was routed cannot hold the descriptor for ever: the timer  *)
(* closes it if the client falls silent.  Only of a connection without TLS: *)
(* with TLS the second SSL_shutdown waits for the client first.             *)
TimeoutClosesPlainDescriptor ==
  tpc = "poll" /\ session = "none" ~> dead \/ client_sock = 0

(* A timeout ends the connection: the descriptor is closed and the serving  *)
(* thread returns, unless it is reading a descriptor that became somebody   *)
(* else's.                                                                  *)
TimeoutEndsConnection ==
  timeout ~> dead \/ rpc = "gone" \/ rd = "other"

(* The close callback is called once per connection. *)
CloseCallbackAtMostOnce == closeCalls <= 1

(* closeSocket closes no descriptor but the connection's own. *)
ClosesOnlyOwnDescriptor ==
  stray \cap {<<"close", "stdin">>, <<"close", "other">>} = {}

(* A client that never pauses for as long as the inactivity time divided by *)
(* the number of busy threads (every one of them makes clock() run faster)  *)
(* is never timed out, however its messages fall between the steps of the   *)
(* timer thread: each message starts the count anew.  That the whole        *)
(* inactivity time has passed, and since the last message, is not true:     *)
(* TimeoutAfterInactivityTime does not hold.                                *)
TimeoutNeedsSilence ==
  [][~timeout /\ timeout' => maxSeconds <= longest * MaxLoad]_vars

(* The time that was set is the one after which a timeout occurs: it has    *)
(* passed, in seconds, since the message that last reset the timer.         *)
TimeoutAfterInactivityTime ==
  [][~timeout /\ timeout' => maxSeconds <= silent]_vars

(* A message is processed only after its payload was received. *)
ProcessedWasReceived ==
  rpc \in {"received", "react", "answered", "deliver"} => cur.whole
=============================================================================
