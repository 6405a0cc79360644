-------------------------- MODULE DoIPClientProofs --------------------------
(***************************************************************************)
(* What the client does, for every choice of the bounds, of the datagrams  *)
(* and of the sizes of its reads: where it connects to, what the server    *)
(* makes of its requests, and which acknowledges it reports.  The first    *)
(* part follows the bytes from the message that is built to the fields     *)
(* that are parsed, the second shows that the streams carry whole          *)
(* messages, and the last derives the theorems.                            *)
(***************************************************************************)
EXTENDS DoIPClient, DoIPGenericHeaderProofs, SequenceTheorems, TLAPS

(* While startTcpConnection is in its loop the shared address is the one    *)
(* it has written: the UDP methods run only when no call is in progress.    *)
DialInv ==
  /\ DialsLoopback
  /\ connecting => serverAddr = "loopback"

LEMMA DialInit == Init => DialInv
  BY DEF Init, DialInv, DialsLoopback

(* the server's steps touch neither the address nor the loop *)
LEMMA ServerFrame ==
  Server => UNCHANGED <<connecting, dialled, serverAddr>>
<1>1. ServerReacts => UNCHANGED <<connecting, dialled, serverAddr>>
  BY DEF ServerReacts, serverUnchanged
<1>2. ServerStarts => UNCHANGED <<connecting, dialled, serverAddr>>
  BY DEF ServerStarts, tcpVars
<1>3. \A goesDown \in BOOLEAN :
        ServerEnds(goesDown) => UNCHANGED <<connecting, dialled, serverAddr>>
  BY DEF ServerEnds, serverUnchanged
<1>4. QED
  BY <1>1, <1>2, <1>3 DEF Server

LEMMA UnchangedDials ==
  ASSUME DialInv, UNCHANGED <<connecting, dialled, serverAddr>>
  PROVE  DialInv'
<1>1. connecting' = connecting /\ dialled' = dialled /\ serverAddr' = serverAddr
  OBVIOUS
<1>2. QED
  BY ONLY <1>1, DialInv, Zenon DEF DialInv, DialsLoopback

(* whoever opens a socket writes the loopback address before the loop *)
LEMMA OpenSocketDials ==
  ASSUME DialInv, OpenSocket, UNCHANGED dialled
  PROVE  DialInv'
  BY DEF DialInv, DialsLoopback, OpenSocket

LEMMA TcpDials ==
  ASSUME DialInv, Tcp
  PROVE  DialInv'
<1>1. CASE startTcpConnection
  BY <1>1, OpenSocketDials DEF startTcpConnection
<1>2. CASE Connect
  BY <1>2 DEF Connect, DialInv, DialsLoopback
<1>3. CASE closeTcpConnection
  BY <1>3 DEF closeTcpConnection, DialInv, DialsLoopback
<1>4. ASSUME NEW request, Write(request)
      PROVE  DialInv'
  BY <1>4 DEF Write, DialInv, DialsLoopback
<1>5. CASE \/ sendRoutingActivationRequest \/ sendAliveCheckResponse
           \/ sendDiagnosticMessage(1)
  BY <1>4, <1>5 DEF sendRoutingActivationRequest, sendAliveCheckResponse,
                    sendDiagnosticMessage
<1>6. ASSUME NEW n, ReceiveData(n)
      PROVE  DialInv'
  BY <1>6 DEF ReceiveData, tcpVars, DialInv, DialsLoopback
<1>7. CASE ReceiveError
  BY <1>7 DEF ReceiveError, DialInv, DialsLoopback
<1>8. CASE ReceiveEmpty
  <2>1. CountEmptyMessage
    BY <1>8 DEF ReceiveEmpty
  <2>2. reconnectServer \/ UNCHANGED <<connecting, dialled, serverAddr>>
    BY <2>1 DEF CountEmptyMessage
  <2>3. CASE reconnectServer
    BY <2>3, OpenSocketDials DEF reconnectServer
  <2>4. CASE UNCHANGED <<connecting, dialled, serverAddr>>
    BY <2>4, UnchangedDials
  <2>5. QED
    BY <2>2, <2>3, <2>4
<1>9. CASE receiveMessage
  BY <1>6, <1>7, <1>8, <1>9 DEF receiveMessage
<1>10. QED
  BY <1>1, <1>2, <1>3, <1>5, <1>9 DEF Tcp

(* no UDP method runs inside the loop *)
LEMMA UdpDials ==
  ASSUME DialInv, Udp
  PROVE  DialInv'
<1>1. ~connecting /\ UNCHANGED <<connecting, dialled>>
  <2>1. CASE startUdpConnection
    BY <2>1 DEF startUdpConnection, Idle, udpUnchanged, tcpVars
  <2>2. CASE closeUdpConnection
    BY <2>2 DEF closeUdpConnection, Idle, udpUnchanged, tcpVars
  <2>3. ASSUME NEW address, sendVehicleIdentificationRequest(address)
        PROVE  ~connecting /\ UNCHANGED <<connecting, dialled>>
    BY <2>3 DEF sendVehicleIdentificationRequest, Idle, udpUnchanged, tcpVars
  <2>4. ASSUME NEW d, ReceiveUdp(d)
        PROVE  ~connecting /\ UNCHANGED <<connecting, dialled>>
    BY <2>4 DEF ReceiveUdp, Idle, udpUnchanged, tcpVars
  <2>5. ASSUME NEW address, setSourceAddress(address)
        PROVE  ~connecting /\ UNCHANGED <<connecting, dialled>>
    BY <2>5 DEF setSourceAddress, Idle, udpUnchanged, tcpVars
  <2>6. QED
    BY <2>3, <2>4, <2>5, <2>1, <2>2 DEF Udp
<1>2. ~connecting' /\ dialled' = dialled
  BY <1>1, Zenon
<1>3. QED
  BY <1>2 DEF DialInv, DialsLoopback

LEMMA DialNext == DialInv /\ [Next]_vars => DialInv'
<1> SUFFICES ASSUME DialInv, [Next]_vars
             PROVE  DialInv'
  OBVIOUS
<1>1. CASE Udp
  BY <1>1, UdpDials
<1>2. CASE Tcp
  BY <1>2, TcpDials
<1>3. CASE Server
  BY <1>3, ServerFrame, UnchangedDials
<1>4. CASE UNCHANGED vars
  BY <1>4, UnchangedDials DEF vars, tcpVars
<1>5. QED
  BY <1>1, <1>2, <1>3, <1>4 DEF Next

(* The client connects to the loopback address only, however its TCP and    *)
(* UDP methods are mixed and however often it reconnects by itself.         *)
THEOREM DialCorrect == Spec => []DialsLoopback
<1>1. DialInv => DialsLoopback
  BY DEF DialInv
<1>2. QED
  BY DialInit, DialNext, <1>1, PTL DEF Spec

-----------------------------------------------------------------------------
(* The messages, byte by byte, and what the parser makes of their headers. *)

LEMMA ByteKind == \A n : n \in Byte <=> n \in Nat /\ n <= 255
  BY DEF Byte

LEMMA WordKind == \A n : n \in Word <=> n \in Nat /\ n < 65536
  BY DEF Word

(* A type that is no request is written with its one code. *)
LEMMA CodeWritten ==
  ASSUME NEW type, NEW code, [code |-> code, type |-> type] \in WrittenTypes
  PROVE  WrittenCodes(type) = {code}
<1>1. PICK w \in WrittenTypes : w.type = type /\ w.code = code
  <2>1. PICK w : w = [code |-> code, type |-> type]
    OBVIOUS
  <2>2. w.type = type /\ w.code = code
    BY <2>1
  <2>3. QED
    BY <2>1, <2>2
<1>2. /\ type # "ROUTINGACTIVATIONREQUEST" /\ type # "VEHICLEIDENTREQUEST"
      /\ \A u \in WrittenTypes : u.type = w.type => u.code = w.code
  BY <1>1 DEF WrittenTypes
<1>3. ASSUME NEW c \in WrittenCodes(type) PROVE c = code
  <2>1. PICK u \in WrittenTypes : u.type = type /\ c = u.code
    BY <1>2, <1>3 DEF WrittenCodes
  <2>2. QED
    BY <1>1, <1>2, <2>1
<1>4. code \in WrittenCodes(type)
  BY <1>1, <1>2 DEF WrittenCodes
<1>5. QED
  BY <1>3, <1>4, Zenon

LEMMA CodesWritten ==
  /\ WrittenCodes("NEGATIVEACK") = {0}
  /\ WrittenCodes("ROUTINGACTIVATIONRESPONSE") = {6}
  /\ WrittenCodes("ALIVECHECKRESPONSE") = {8}
  /\ WrittenCodes("DIAGNOSTICMESSAGE") = {32769}
  /\ WrittenCodes("DIAGNOSTICPOSITIVEACK") = {32770}
  /\ WrittenCodes("DIAGNOSTICNEGATIVEACK") = {32771}
<1>1. /\ [code |-> 0, type |-> "NEGATIVEACK"] \in WrittenTypes
      /\ [code |-> 6, type |-> "ROUTINGACTIVATIONRESPONSE"] \in WrittenTypes
      /\ [code |-> 8, type |-> "ALIVECHECKRESPONSE"] \in WrittenTypes
      /\ [code |-> 32769, type |-> "DIAGNOSTICMESSAGE"] \in WrittenTypes
      /\ [code |-> 32770, type |-> "DIAGNOSTICPOSITIVEACK"] \in WrittenTypes
      /\ [code |-> 32771, type |-> "DIAGNOSTICNEGATIVEACK"] \in WrittenTypes
  BY DEF WrittenTypes
<1>2. QED
  BY ONLY <1>1, CodeWritten

LEMMA CodesRead ==
  /\ 0 \notin KnownCodes /\ 6 \notin KnownCodes /\ 8 \notin KnownCodes
  /\ 5 \in KnownCodes /\ TypeOfCode(5) = "ROUTINGACTIVATIONREQUEST"
  /\ 32769 \in KnownCodes /\ TypeOfCode(32769) = "DIAGNOSTICMESSAGE"
  /\ 32770 \in KnownCodes /\ TypeOfCode(32770) = "DIAGNOSTICPOSITIVEACK"
  /\ 32771 \in KnownCodes /\ TypeOfCode(32771) = "DIAGNOSTICNEGATIVEACK"
<1>1. /\ 0 \notin KnownCodes /\ 6 \notin KnownCodes /\ 8 \notin KnownCodes
      /\ 5 \in KnownCodes /\ 32769 \in KnownCodes /\ 32770 \in KnownCodes
      /\ 32771 \in KnownCodes
  BY DEF KnownCodes, ReceivedTypes
<1>2. \A c \in KnownCodes : [code |-> c, type |-> TypeOfCode(c)] \in ReceivedTypes
  BY KnownCodeType
<1>3. ASSUME NEW t \in ReceivedTypes
      PROVE  /\ t.code = 5 => t.type = "ROUTINGACTIVATIONREQUEST"
             /\ t.code = 32769 => t.type = "DIAGNOSTICMESSAGE"
             /\ t.code = 32770 => t.type = "DIAGNOSTICPOSITIVEACK"
             /\ t.code = 32771 => t.type = "DIAGNOSTICNEGATIVEACK"
  BY <1>3 DEF ReceivedTypes
<1>4. ASSUME NEW c \in KnownCodes
      PROVE  /\ c = 5 => TypeOfCode(c) = "ROUTINGACTIVATIONREQUEST"
             /\ c = 32769 => TypeOfCode(c) = "DIAGNOSTICMESSAGE"
             /\ c = 32770 => TypeOfCode(c) = "DIAGNOSTICPOSITIVEACK"
             /\ c = 32771 => TypeOfCode(c) = "DIAGNOSTICNEGATIVEACK"
  <2>1. PICK t : t = [code |-> c, type |-> TypeOfCode(c)]
    OBVIOUS
  <2>2. t \in ReceivedTypes /\ t.code = c /\ t.type = TypeOfCode(c)
    BY <1>2, <2>1
  <2>3. QED
    BY <1>3, <2>2
<1>5. QED
  BY <1>1, <1>4

(* The eight bytes from position k on are the header of a message with the  *)
(* given code and a payload of n bytes, n below 256.                         *)
HeaderAt(f, k, code, n) ==
  /\ f[k] = 2 /\ f[k + 1] = 253
  /\ f[k + 2] = code \div 256 /\ f[k + 3] = code % 256
  /\ f[k + 4] = 0 /\ f[k + 5] = 0 /\ f[k + 6] = 0 /\ f[k + 7] = n

(* What Wire lays out: a header and the payload behind it. *)
LEMMA WireBytes ==
  ASSUME NEW type, NEW code \in Word, WrittenCodes(type) = {code},
         NEW payload \in Seq(Byte), Len(payload) \in Byte
  PROVE  /\ Wire(type, payload) \in Seq(Byte)
         /\ Len(Wire(type, payload)) = 8 + Len(payload)
         /\ HeaderAt(Wire(type, payload), 1, code, Len(payload))
         /\ \A i \in 1 .. Len(payload) : Wire(type, payload)[8 + i] = payload[i]
<1>1. PICK n : n = Len(payload)
  OBVIOUS
<1>2. PICK h : h = HeaderBytes(code, n)
  OBVIOUS
<1>3. PICK first : first = [i \in 1 .. 8 |-> h[i - 1]]
  OBVIOUS
<1>4. Wire(type, payload) = first \o payload
  <2>1. createGenericHeader(type, Len(payload)) = {h}
    BY <1>1, <1>2 DEF createGenericHeader
  <2>2. (CHOOSE x \in createGenericHeader(type, Len(payload)) : TRUE) = h
    BY ONLY <2>1, Zenon
  <2>3. QED
    <3>1. Wire(type, payload) = Framed(h, payload)
      BY ONLY <2>2, Zenon DEF Wire
    <3>2. QED
      BY ONLY <1>3, <3>1, Zenon DEF Framed, GenericHeaderLength
<1>5. n \in Nat /\ n <= 255 /\ code \in Nat /\ code < 65536
  BY <1>1, ByteKind, WordKind
<1>6. /\ (n \div 16777216) % 256 = 0 /\ (n \div 65536) % 256 = 0
      /\ (n \div 256) % 256 = 0 /\ n % 256 = n
      /\ code \div 256 \in Nat /\ code \div 256 <= 255
      /\ code % 256 \in Nat /\ code % 256 <= 255
  BY ONLY <1>5, SMT
<1>7. /\ h[0] = 2 /\ h[1] = 253 /\ h[2] = code \div 256 /\ h[3] = code % 256
      /\ h[4] = 0 /\ h[5] = 0 /\ h[6] = 0 /\ h[7] = n
  <2>1. /\ h[0] = 2 /\ h[1] = 253 /\ h[2] = code \div 256 /\ h[3] = code % 256
        /\ h[4] = (n \div 16777216) % 256 /\ h[5] = (n \div 65536) % 256
        /\ h[6] = (n \div 256) % 256 /\ h[7] = n % 256
    BY ONLY <1>2, SMT DEF HeaderBytes
  <2>2. QED
    BY ONLY <1>6, <2>1
<1>8. /\ h[0] \in Byte /\ h[1] \in Byte /\ h[2] \in Byte /\ h[3] \in Byte
      /\ h[4] \in Byte /\ h[5] \in Byte /\ h[6] \in Byte /\ h[7] \in Byte
  <2>1. /\ 2 \in Byte /\ 253 \in Byte /\ 0 \in Byte /\ n \in Byte
        /\ code \div 256 \in Byte /\ code % 256 \in Byte
    <3>1. \A m \in Nat : m <= 255 => m \in Byte
      BY ONLY ByteKind
    <3>2. QED
      BY ONLY <1>5, <1>6, <3>1
  <2>2. QED
    BY ONLY <1>7, <2>1
<1>9. /\ first \in Seq(Byte) /\ Len(first) = 8
      /\ first[1] = 2 /\ first[2] = 253 /\ first[3] = code \div 256
      /\ first[4] = code % 256 /\ first[5] = 0 /\ first[6] = 0
      /\ first[7] = 0 /\ first[8] = n
  <2>1. \A i \in 1 .. 8 : h[i - 1] \in Byte
    BY ONLY <1>8, SMT
  <2>2. first \in Seq(Byte) /\ Len(first) = 8
    BY ONLY <1>3, <2>1
  <2>3. QED
    BY ONLY <1>3, <1>7, <2>2
<1>10. /\ first \o payload \in Seq(Byte)
       /\ Len(first \o payload) = Len(first) + Len(payload)
       /\ \A i \in 1 .. Len(first) + Len(payload) :
            (first \o payload)[i] = IF i <= Len(first) THEN first[i]
                                    ELSE payload[i - Len(first)]
  <2>1. first \in Seq(Byte) /\ payload \in Seq(Byte)
    BY <1>9
  <2>2. QED
    BY ONLY <2>1, ConcatProperties
<1>11. \A i \in 1 .. 8 : (first \o payload)[i] = first[i]
  <2> TAKE i \in 1 .. 8
  <2>1. i \in 1 .. Len(first) + Len(payload) /\ i <= Len(first)
    BY ONLY <1>1, <1>5, <1>9, i \in 1 .. 8
  <2>2. QED
    BY ONLY <1>10, <2>1, Zenon
<1>12. \A i \in 1 .. n : (first \o payload)[8 + i] = payload[i]
  <2> TAKE i \in 1 .. n
  <2>1. PICK k : k = 8 + i
    OBVIOUS
  <2>2. /\ k \in 1 .. Len(first) + Len(payload) /\ ~(k <= Len(first))
        /\ k - Len(first) = i
    BY ONLY <1>1, <1>5, <1>9, <2>1, i \in 1 .. n
  <2>3. (first \o payload)[k] = payload[k - Len(first)]
    BY ONLY <1>10, <2>2, Zenon
  <2>4. QED
    BY ONLY <2>1, <2>2, <2>3, Zenon
<1>13. HeaderAt(first \o payload, 1, code, n)
  <2>1. PICK w : w = first \o payload
    OBVIOUS
  <2>2. /\ w[1] = 2 /\ w[2] = 253 /\ w[3] = code \div 256 /\ w[4] = code % 256
        /\ w[5] = 0 /\ w[6] = 0 /\ w[7] = 0 /\ w[8] = n
    <3>1. /\ w[1] = first[1] /\ w[2] = first[2] /\ w[3] = first[3]
          /\ w[4] = first[4] /\ w[5] = first[5] /\ w[6] = first[6]
          /\ w[7] = first[7] /\ w[8] = first[8]
      <4>1. \A i \in 1 .. 8 : w[i] = first[i]
        BY ONLY <1>11, <2>1, Zenon
      <4>2. QED
        BY ONLY <4>1, SMT
    <3>2. QED
      BY ONLY <1>9, <3>1
  <2>3. HeaderAt(w, 1, code, n)
    BY ONLY <2>2 DEF HeaderAt
  <2>4. QED
    BY ONLY <2>1, <2>3, Zenon
<1>14. QED
  BY ONLY <1>1, <1>4, <1>9, <1>10, <1>12, <1>13

(* What the parser makes of it: its code and its length decide. *)
Parsed(code, n) == HeaderActions(TRUE, code, n)

LEMMA HeaderRead ==
  ASSUME NEW data, NEW code \in Word, NEW n \in Byte,
         HeaderAt(data, 0, code, n), NEW size \in Nat, size >= 8
  PROVE  parseGenericHeader(data, size) = Parsed(code, n)
<1>1. /\ data[0] = 2 /\ data[1] = 253 /\ data[2] = code \div 256
      /\ data[3] = code % 256 /\ data[4] = 0 /\ data[5] = 0 /\ data[6] = 0
      /\ data[7] = n
  BY DEF HeaderAt
<1>2. PatternOk(data) = TRUE
  BY <1>1 DEF PatternOk
<1>3. code \in Nat /\ n \in Nat
  BY ByteKind, WordKind
<1>4. PayloadCode(data) = code
  BY <1>1, <1>3, SMT DEF PayloadCode
<1>5. PayloadLength(data) = n
  BY <1>1, <1>3, SMT DEF PayloadLength
<1>6. QED
  BY <1>2, <1>4, <1>5 DEF parseGenericHeader, GenericHeaderLength, Parsed

LEMMA TwoBytesKind ==
  ASSUME NEW a \in Word
  PROVE  /\ TwoBytes(a) \in Seq(Byte) /\ Len(TwoBytes(a)) = 2
         /\ TwoBytes(a)[1] = a \div 256 /\ TwoBytes(a)[2] = a % 256
         /\ Number(a \div 256, a % 256) = a
<1>1. a \in Nat /\ a < 65536
  BY WordKind
<1>2. /\ a \div 256 \in Nat /\ a \div 256 <= 255
      /\ a % 256 \in Nat /\ a % 256 <= 255
      /\ (a \div 256) * 256 + (a % 256) = a
  BY ONLY <1>1, SMT
<1>3. a \div 256 \in Byte /\ a % 256 \in Byte
  BY ONLY <1>2, ByteKind
<1>4. TwoBytes(a) \in Seq(Byte) /\ Len(TwoBytes(a)) = 2
  BY ONLY <1>3 DEF TwoBytes
<1>5. TwoBytes(a)[1] = a \div 256 /\ TwoBytes(a)[2] = a % 256
  BY DEF TwoBytes
<1>6. QED
  BY <1>2, <1>4, <1>5 DEF Number

(* Two addresses and what follows them. *)
Addressed(a, b, rest) == TwoBytes(a) \o TwoBytes(b) \o rest

LEMMA AddressedBytes ==
  ASSUME NEW a \in Word, NEW b \in Word, NEW rest \in Seq(Byte)
  PROVE  /\ Addressed(a, b, rest) \in Seq(Byte) /\ Len(rest) \in Nat
         /\ Len(Addressed(a, b, rest)) = 4 + Len(rest)
         /\ Number(Addressed(a, b, rest)[1], Addressed(a, b, rest)[2]) = a
         /\ \A i \in 1 .. Len(rest) : Addressed(a, b, rest)[4 + i] = rest[i]
<1> PICK p : p = Addressed(a, b, rest)
  OBVIOUS
<1>1. PICK x : x = TwoBytes(a)
  OBVIOUS
<1>2. PICK y : y = TwoBytes(b)
  OBVIOUS
<1>3. /\ x \in Seq(Byte) /\ Len(x) = 2 /\ x[1] = a \div 256 /\ x[2] = a % 256
      /\ y \in Seq(Byte) /\ Len(y) = 2
  BY <1>1, <1>2, TwoBytesKind
<1>4. PICK q : q = x \o y
  OBVIOUS
<1>5. /\ q \in Seq(Byte) /\ Len(q) = Len(x) + Len(y)
      /\ \A i \in 1 .. Len(x) + Len(y) :
           q[i] = IF i <= Len(x) THEN x[i] ELSE y[i - Len(x)]
  <2>1. x \in Seq(Byte) /\ y \in Seq(Byte)
    BY ONLY <1>3
  <2>2. QED
    BY ONLY <1>4, <2>1, ConcatProperties
<1>6. Len(q) = 4 /\ q[1] = a \div 256 /\ q[2] = a % 256
  BY ONLY <1>3, <1>5
<1>7. p = q \o rest
  BY ONLY <1>1, <1>2, <1>4, Zenon, p = Addressed(a, b, rest) DEF Addressed
<1>8. /\ p \in Seq(Byte) /\ Len(p) = Len(q) + Len(rest)
      /\ \A i \in 1 .. Len(q) + Len(rest) :
           p[i] = IF i <= Len(q) THEN q[i] ELSE rest[i - Len(q)]
  <2>1. q \in Seq(Byte) /\ rest \in Seq(Byte)
    BY ONLY <1>5, rest \in Seq(Byte)
  <2>2. QED
    BY ONLY <1>7, <2>1, ConcatProperties
<1>9. Len(rest) \in Nat
  BY LenProperties
<1>10. Number(p[1], p[2]) = a
  <2>1. p[1] = a \div 256 /\ p[2] = a % 256
    BY ONLY <1>6, <1>8, <1>9
  <2>2. QED
    BY <2>1, TwoBytesKind
<1>11. \A i \in 1 .. Len(rest) : p[4 + i] = rest[i]
  <2> TAKE i \in 1 .. Len(rest)
  <2>1. PICK k : k = 4 + i
    OBVIOUS
  <2>2. /\ k \in 1 .. Len(q) + Len(rest) /\ ~(k <= Len(q)) /\ k - Len(q) = i
    BY ONLY <1>6, <1>9, <2>1, i \in 1 .. Len(rest)
  <2>3. p[k] = rest[k - Len(q)]
    BY ONLY <1>8, <2>2, Zenon
  <2>4. QED
    BY ONLY <2>1, <2>2, <2>3, Zenon
<1>12. QED
  BY <1>6, <1>8, <1>9, <1>10, <1>11

-----------------------------------------------------------------------------
(* The requests the client sends, and what its server makes of them. *)

Diagnostic == DiagnosticMessage(TesterAddress, 1)
AliveCheck(address) == Wire("ALIVECHECKRESPONSE", TwoBytes(address))
Requests ==
  {buildRoutingActivationRequest, Diagnostic} \cup {AliveCheck(a) : a \in Word}

(* how the server parses a request *)
RequestActions(request) ==
  parseGenericHeader([i \in 0 .. 7 |-> request[i + 1]], 8)

LEMMA WordConstants ==
  /\ TesterAddress \in Word /\ TesterAddress + 1 \in Word /\ 1 \in Word
  /\ GatewayAddress \in Word /\ 0 \in Word /\ 5 \in Word /\ 6 \in Word /\ 8 \in Word
  /\ 32769 \in Word /\ 32770 \in Word /\ 32771 \in Word
  BY DEF Word, TesterAddress, GatewayAddress

LEMMA ByteConstants ==
  /\ 0 \in Byte /\ 1 \in Byte /\ 2 \in Byte /\ 3 \in Byte /\ 5 \in Byte
  /\ 6 \in Byte /\ 7 \in Byte /\ 9 \in Byte /\ 14 \in Byte /\ 16 \in Byte
  /\ 34 \in Byte /\ 253 \in Byte
  BY ByteKind

LEMMA RequestRead ==
  ASSUME NEW request, NEW code \in Word, NEW n \in Byte,
         HeaderAt(request, 1, code, n)
  PROVE  RequestActions(request) = Parsed(code, n)
<1>1. PICK data : data = [i \in 0 .. 7 |-> request[i + 1]]
  OBVIOUS
<1>2. HeaderAt(data, 0, code, n)
  <2>1. /\ request[1] = 2 /\ request[2] = 253 /\ request[3] = code \div 256
        /\ request[4] = code % 256 /\ request[5] = 0 /\ request[6] = 0
        /\ request[7] = 0 /\ request[8] = n
    BY DEF HeaderAt
  <2>2. QED
    BY ONLY <1>1, <2>1 DEF HeaderAt
<1>3. 8 \in Nat /\ 8 >= 8
  OBVIOUS
<1>4. parseGenericHeader(data, 8) = Parsed(code, n)
  BY <1>2, <1>3, HeaderRead
<1>5. QED
  BY ONLY <1>1, <1>4, Zenon DEF RequestActions

(* The activation request is accepted and comes from the tester's address. *)
LEMMA ActivationRead ==
  /\ buildRoutingActivationRequest \in Seq(Byte)
  /\ buildRoutingActivationRequest[4] = 5
  /\ Number(buildRoutingActivationRequest[9], buildRoutingActivationRequest[10])
       = TesterAddress
  /\ buildRoutingActivationRequest[11] = 0
  /\ \A a \in RequestActions(buildRoutingActivationRequest) :
       a.type = "ROUTINGACTIVATIONREQUEST"
<1>1. PICK r : r = buildRoutingActivationRequest
  OBVIOUS
<1>2. /\ r[1] = 2 /\ r[2] = 253 /\ r[3] = 0 /\ r[4] = 5 /\ r[5] = 0 /\ r[6] = 0
      /\ r[7] = 0 /\ r[8] = 7 /\ r[9] = 14 /\ r[10] = 0 /\ r[11] = 0
  BY <1>1 DEF buildRoutingActivationRequest
<1>3. r \in Seq(Byte)
  BY ByteConstants, <1>1 DEF buildRoutingActivationRequest
<1>4. Number(r[9], r[10]) = TesterAddress
  BY <1>2 DEF Number, TesterAddress
<1>5. RequestActions(r) = Parsed(5, 7)
  <2>1. 5 \div 256 = 0 /\ 5 % 256 = 5
    BY SMT
  <2>2. HeaderAt(r, 1, 5, 7)
    BY <1>2, <2>1 DEF HeaderAt
  <2>3. QED
    BY <2>2, RequestRead, WordConstants, ByteConstants
<1>6. ASSUME NEW a \in Parsed(5, 7)
      PROVE  a.type = "ROUTINGACTIVATIONREQUEST"
  <2>1. LengthValid("ROUTINGACTIVATIONREQUEST", 7)
    BY DEF LengthValid
  <2>2. PICK v \in GarbageByte : a = Action("ROUTINGACTIVATIONREQUEST", v, 7)
    BY <2>1, <1>6, CodesRead DEF HeaderActions, Parsed
  <2>3. QED
    BY <2>2 DEF Action
<1>7. QED
  BY <1>1, <1>2, <1>3, <1>4, <1>5, <1>6

(* the payload type in a header is the one it was written with *)
LEMMA TypeRead ==
  ASSUME NEW m, NEW code \in Word, NEW n, HeaderAt(m, 1, code, n)
  PROVE  Number(m[3], m[4]) = code
<1>1. m[1 + 2] = code \div 256 /\ m[1 + 3] = code % 256
  BY DEF HeaderAt
<1>2. m[3] = code \div 256 /\ m[4] = code % 256
  BY ONLY <1>1
<1>3. QED
  BY ONLY <1>2, code \in Word, TwoBytesKind, Zenon

(* A diagnostic message carries its source address and is accepted. *)
LEMMA DiagnosticRead ==
  ASSUME NEW source \in Word, NEW target \in Word, NEW m,
         m = DiagnosticMessage(source, target)
  PROVE  /\ m \in Seq(Byte) /\ Len(m) = 13 /\ m[4] = 1
         /\ Number(m[9], m[10]) = source
         /\ Number(m[3], m[4]) = DiagnosticMessageType
         /\ HeaderAt(m, 1, 32769, 5)
         /\ \A a \in Parsed(32769, 5) : a.type = "DIAGNOSTICMESSAGE"
         /\ \A a \in RequestActions(m) : a.type = "DIAGNOSTICMESSAGE"
<1>1. PICK p : p = Addressed(source, target, UserData)
  OBVIOUS
<1>2. UserData \in Seq(Byte) /\ Len(UserData) = 1
  BY ByteConstants DEF UserData
<1>3. p \in Seq(Byte) /\ Len(p) = 5 /\ Number(p[1], p[2]) = source
  <2>1. /\ p \in Seq(Byte) /\ Len(p) = 4 + Len(UserData)
        /\ Number(p[1], p[2]) = source
    BY <1>1, <1>2, AddressedBytes, Zenon
  <2>2. Len(UserData) = 1 /\ 4 + 1 = 5
    BY <1>2
  <2>3. QED
    BY ONLY <2>1, <2>2, Zenon
<1>4. m = Wire("DIAGNOSTICMESSAGE", p)
  BY ONLY <1>1, m = DiagnosticMessage(source, target), Zenon
     DEF DiagnosticMessage, Addressed
<1>5. /\ m \in Seq(Byte) /\ Len(m) = 8 + Len(p)
      /\ HeaderAt(m, 1, 32769, Len(p))
      /\ \A i \in 1 .. Len(p) : m[8 + i] = p[i]
  <2>1. /\ p \in Seq(Byte) /\ Len(p) \in Byte /\ 32769 \in Word
        /\ WrittenCodes("DIAGNOSTICMESSAGE") = {32769}
    BY ONLY <1>3, CodesWritten, WordConstants, ByteConstants
  <2>2. QED
    BY ONLY <1>4, <2>1, WireBytes
<1>6. m[9] = p[1] /\ m[10] = p[2]
  BY ONLY <1>3, <1>5
<1>7. Number(m[9], m[10]) = source
  BY ONLY <1>3, <1>6, Zenon
<1>8. m[4] = 1
  <2>1. m[1 + 3] = 32769 % 256
    BY <1>5 DEF HeaderAt
  <2>2. QED
    BY ONLY <2>1
<1>9. RequestActions(m) = Parsed(32769, 5)
  BY <1>3, <1>5, RequestRead, WordConstants, ByteConstants
<1>10. ASSUME NEW a \in Parsed(32769, 5)
       PROVE  a.type = "DIAGNOSTICMESSAGE"
  <2>1. LengthValid("DIAGNOSTICMESSAGE", 5)
    BY DEF LengthValid
  <2>2. PICK v \in GarbageByte : a = Action("DIAGNOSTICMESSAGE", v, 5)
    BY <2>1, <1>10, CodesRead DEF HeaderActions, Parsed
  <2>3. QED
    BY <2>2 DEF Action
<1>11. Number(m[3], m[4]) = DiagnosticMessageType
  BY <1>5, TypeRead, WordConstants DEF DiagnosticMessageType
<1>12. QED
  BY ONLY <1>3, <1>5, <1>7, <1>8, <1>9, <1>10, <1>11

(* The server does not know an alive check response, and goes on. *)
LEMMA AliveCheckRead ==
  ASSUME NEW address \in Word, NEW m, m = AliveCheck(address)
  PROVE  /\ m \in Seq(Byte) /\ Len(m) = 10 /\ m[4] = 8
         /\ Number(m[3], m[4]) = AliveCheckResponseType
         /\ \A a \in RequestActions(m) :
              a.type = "NEGATIVEACK" /\ a.value = UnknownPayloadTypeCode
<1>1. PICK p : p = TwoBytes(address)
  OBVIOUS
<1>2. p \in Seq(Byte) /\ Len(p) = 2
  BY <1>1, TwoBytesKind
<1>3. m = Wire("ALIVECHECKRESPONSE", p)
  BY ONLY <1>1, m = AliveCheck(address), Zenon DEF AliveCheck
<1>4. /\ m \in Seq(Byte) /\ Len(m) = 8 + Len(p) /\ HeaderAt(m, 1, 8, Len(p))
  <2>1. /\ p \in Seq(Byte) /\ Len(p) \in Byte /\ 8 \in Word
        /\ WrittenCodes("ALIVECHECKRESPONSE") = {8}
    BY ONLY <1>2, CodesWritten, WordConstants, ByteConstants
  <2>2. QED
    BY ONLY <1>3, <2>1, WireBytes
<1>5. m[4] = 8
  <2>1. m[1 + 3] = 8 % 256
    BY <1>4 DEF HeaderAt
  <2>2. QED
    BY ONLY <2>1
<1>6. RequestActions(m) = Parsed(8, 2)
  BY <1>2, <1>4, RequestRead, WordConstants, ByteConstants
<1>7. Parsed(8, 2) = {Action("NEGATIVEACK", UnknownPayloadTypeCode, 2)}
  BY CodesRead DEF HeaderActions, Parsed
<1>8. \A a \in RequestActions(m) :
        a.type = "NEGATIVEACK" /\ a.value = UnknownPayloadTypeCode
  BY ONLY <1>6, <1>7 DEF Action
<1>9. Number(m[3], m[4]) = AliveCheckResponseType
  BY <1>4, TypeRead, WordConstants DEF AliveCheckResponseType
<1>10. QED
  BY ONLY <1>2, <1>4, <1>5, <1>8, <1>9

-----------------------------------------------------------------------------
(* What the server writes: whole messages, one after the other. *)

AckTypes == {"DIAGNOSTICPOSITIVEACK", "DIAGNOSTICNEGATIVEACK"}

(* the header that begins at position i *)
HeaderOf(q, i) == [k \in 0 .. 7 |-> q[i + k].byte]

(* At position i begins a message that is no acknowledge, or one whose code *)
(* is its thirteenth byte.                                                  *)
PlainAt(q, i) ==
  /\ i + 7 <= Len(q)
  /\ \A k \in 1 .. 7 : ~q[i + k].first
  /\ q[i].ack = {}
  /\ \A a \in parseGenericHeader(HeaderOf(q, i), 8) : a.type \notin AckTypes
AckAt(q, i) ==
  /\ i + 12 <= Len(q)
  /\ \A k \in 1 .. 12 : ~q[i + k].first
  /\ \A a \in parseGenericHeader(HeaderOf(q, i), 8) :
       /\ a.type \in AckTypes
       /\ q[i].ack = {[type |-> a.type, code |-> q[i + 12].byte]}

(* A stream: every position that is marked as the beginning of a message is *)
(* one, and the message is there to its end.                                *)
Stream(q) ==
  /\ q \in Seq(WireByte)
  /\ \A i \in 1 .. Len(q) : q[i].first => PlainAt(q, i) \/ AckAt(q, i)

(* where two sequences agree, the same message begins *)
LEMMA SameMessage ==
  ASSUME NEW q \in Seq(WireByte), NEW r \in Seq(WireByte),
         NEW i \in Nat, NEW j \in Nat, NEW n \in Nat,
         j + n <= Len(r), n = 7 \/ n = 12,
         \A k \in 0 .. n : q[i + k] = r[j + k]
  PROVE  /\ n = 7 /\ PlainAt(q, i) => PlainAt(r, j)
         /\ n = 12 /\ AckAt(q, i) => AckAt(r, j)
<1>1. \A k \in 0 .. 7 : q[i + k] = r[j + k]
  OBVIOUS
<1>2. q[i] = r[j]
  <2>1. q[i + 0] = r[j + 0] /\ i + 0 = i /\ j + 0 = j
    BY <1>1
  <2>2. QED
    BY ONLY <2>1, Zenon
<1>3. HeaderOf(q, i) = HeaderOf(r, j)
  BY ONLY <1>1 DEF HeaderOf
<1>4. ASSUME n = 7, PlainAt(q, i) PROVE PlainAt(r, j)
  <2>1. ASSUME NEW k \in 1 .. 7 PROVE ~r[j + k].first
    <3>1. k \in 0 .. 7
      OBVIOUS
    <3>2. ~q[i + k].first
      BY ONLY <1>4, Zenon, k \in 1 .. 7 DEF PlainAt
    <3>3. q[i + k] = r[j + k]
      BY ONLY <1>1, <3>1, Zenon
    <3>4. QED
      BY ONLY <3>2, <3>3, Zenon
  <2>2. r[j].ack = {}
    BY <1>2, <1>4 DEF PlainAt
  <2>3. \A a \in parseGenericHeader(HeaderOf(r, j), 8) : a.type \notin AckTypes
    BY ONLY <1>3, <1>4, Zenon DEF PlainAt
  <2>4. j + 7 <= Len(r)
    BY ONLY <1>4, Zenon, j + n <= Len(r)
  <2>5. QED
    BY ONLY <2>4, <2>1, <2>2, <2>3, Zenon DEF PlainAt
<1>5. ASSUME n = 12, AckAt(q, i) PROVE AckAt(r, j)
  <2>1. ASSUME NEW k \in 1 .. 12 PROVE q[i + k] = r[j + k]
    <3>1. k \in 0 .. n
      BY ONLY <1>5, k \in 1 .. 12
    <3>2. QED
      BY ONLY <3>1, Zenon, \A m \in 0 .. n : q[i + m] = r[j + m]
  <2>2. ASSUME NEW k \in 1 .. 12 PROVE ~r[j + k].first
    <3>1. ~q[i + k].first
      BY ONLY <1>5, Zenon, k \in 1 .. 12 DEF AckAt
    <3>2. q[i + k] = r[j + k]
      BY ONLY <2>1, Zenon, k \in 1 .. 12
    <3>3. QED
      BY ONLY <3>1, <3>2, Zenon
  <2>3. q[i + 12] = r[j + 12]
    <3>1. 12 \in 1 .. 12
      OBVIOUS
    <3>2. QED
      BY ONLY <2>1, <3>1, Zenon
  <2>4. \A a \in parseGenericHeader(HeaderOf(r, j), 8) :
          /\ a.type \in AckTypes
          /\ r[j].ack = {[type |-> a.type, code |-> r[j + 12].byte]}
    <3>1. \A a \in parseGenericHeader(HeaderOf(q, i), 8) :
            /\ a.type \in AckTypes
            /\ q[i].ack = {[type |-> a.type, code |-> q[i + 12].byte]}
      BY <1>5 DEF AckAt
    <3>2. QED
      BY ONLY <1>2, <1>3, <2>3, <3>1, Zenon
  <2>5. j + 12 <= Len(r)
    BY ONLY <1>5, Zenon, j + n <= Len(r)
  <2>6. QED
    BY ONLY <2>5, <2>2, <2>4, Zenon DEF AckAt
<1>6. QED
  BY <1>4, <1>5

(* Streams can be joined, and cut at the front. *)
LEMMA StreamJoin ==
  ASSUME NEW q, NEW r, Stream(q), Stream(r)
  PROVE  Stream(q \o r)
<1>1. q \in Seq(WireByte) /\ r \in Seq(WireByte)
  BY DEF Stream
<1>2. PICK s : s = q \o r
  OBVIOUS
<1>3. /\ s \in Seq(WireByte) /\ Len(s) = Len(q) + Len(r)
      /\ \A i \in 1 .. Len(q) + Len(r) :
           s[i] = IF i <= Len(q) THEN q[i] ELSE r[i - Len(q)]
  BY ONLY <1>1, <1>2, ConcatProperties
<1>4. Len(q) \in Nat /\ Len(r) \in Nat
  BY <1>1, LenProperties
<1>5. ASSUME NEW i \in 1 .. Len(s), s[i].first
      PROVE  PlainAt(s, i) \/ AckAt(s, i)
  <2>1. CASE i <= Len(q)
    <3>1. i \in Nat /\ i \in 1 .. Len(q) /\ s[i] = q[i]
      BY <1>3, <1>4, <1>5, <2>1
    <3>2. PlainAt(q, i) \/ AckAt(q, i)
      BY <1>5, <3>1 DEF Stream
    <3>3. ASSUME NEW n \in Nat, i + n <= Len(q)
          PROVE  i + n <= Len(s) /\ \A k \in 0 .. n : q[i + k] = s[i + k]
      <4>1. i + n <= Len(s)
        BY ONLY <1>3, <1>4, <3>1, <3>3
      <4>2. ASSUME NEW k \in 0 .. n PROVE q[i + k] = s[i + k]
        <5>1. PICK x : x = i + k
          OBVIOUS
        <5>2. x \in 1 .. Len(q) + Len(r) /\ x <= Len(q)
          BY ONLY <1>4, <3>1, <3>3, <4>2, <5>1
        <5>3. s[x] = q[x]
          BY ONLY <1>3, <5>2, Zenon
        <5>4. QED
          BY ONLY <5>1, <5>3, Zenon
      <4>3. QED
        BY <4>1, <4>2
    <3>4. CASE PlainAt(q, i)
      <4>1. i + 7 <= Len(q) /\ 7 \in Nat
        BY <3>4 DEF PlainAt
      <4>2. i + 7 <= Len(s) /\ \A k \in 0 .. 7 : q[i + k] = s[i + k]
        BY ONLY <3>3, <4>1, Zenon
      <4>3. PlainAt(s, i)
        BY ONLY <1>1, <1>3, <3>1, <3>4, <4>1, <4>2, SameMessage
      <4>4. QED
        BY <4>3
    <3>5. CASE AckAt(q, i)
      <4>1. i + 12 <= Len(q) /\ 12 \in Nat
        BY <3>5 DEF AckAt
      <4>2. i + 12 <= Len(s) /\ \A k \in 0 .. 12 : q[i + k] = s[i + k]
        BY ONLY <3>3, <4>1, Zenon
      <4>3. AckAt(s, i)
        BY ONLY <1>1, <1>3, <3>1, <3>5, <4>1, <4>2, SameMessage
      <4>4. QED
        BY <4>3
    <3>6. QED
      BY <3>2, <3>4, <3>5
  <2>2. CASE ~(i <= Len(q))
    <3>1. PICK j : j = i - Len(q)
      OBVIOUS
    <3>2. j \in Nat /\ i \in Nat /\ j \in 1 .. Len(r) /\ i = Len(q) + j
      BY ONLY <1>3, <1>4, <2>2, <3>1, i \in 1 .. Len(s)
    <3>3. s[i] = r[j]
      BY ONLY <1>3, <2>2, <3>1, Zenon, i \in 1 .. Len(s)
    <3>4. PlainAt(r, j) \/ AckAt(r, j)
      BY <1>5, <3>2, <3>3 DEF Stream
    <3>5. ASSUME NEW n \in Nat, j + n <= Len(r)
          PROVE  i + n <= Len(s) /\ \A k \in 0 .. n : r[j + k] = s[i + k]
      <4>1. i + n <= Len(s)
        BY ONLY <1>3, <1>4, <3>2, <3>5
      <4>2. ASSUME NEW k \in 0 .. n PROVE r[j + k] = s[i + k]
        <5>1. PICK x : x = i + k
          OBVIOUS
        <5>2. /\ x \in 1 .. Len(q) + Len(r) /\ ~(x <= Len(q))
              /\ x - Len(q) = j + k
          BY ONLY <1>4, <3>2, <3>5, <4>2, <5>1
        <5>3. s[x] = r[x - Len(q)]
          BY ONLY <1>3, <5>2, Zenon
        <5>4. QED
          BY ONLY <5>1, <5>2, <5>3, Zenon
      <4>3. QED
        BY <4>1, <4>2
    <3>6. CASE PlainAt(r, j)
      <4>1. j + 7 <= Len(r) /\ 7 \in Nat
        BY <3>6 DEF PlainAt
      <4>2. i + 7 <= Len(s) /\ \A k \in 0 .. 7 : r[j + k] = s[i + k]
        BY ONLY <3>5, <4>1, Zenon
      <4>3. PlainAt(s, i)
        <5>1. /\ r \in Seq(WireByte) /\ s \in Seq(WireByte)
              /\ j \in Nat /\ i \in Nat
          BY ONLY <1>1, <1>3, <3>2
        <5>2. QED
          BY ONLY <5>1, <3>6, <4>1, <4>2, SameMessage, Zenon
      <4>4. QED
        BY <4>3
    <3>7. CASE AckAt(r, j)
      <4>1. j + 12 <= Len(r) /\ 12 \in Nat
        BY <3>7 DEF AckAt
      <4>2. i + 12 <= Len(s) /\ \A k \in 0 .. 12 : r[j + k] = s[i + k]
        BY ONLY <3>5, <4>1, Zenon
      <4>3. AckAt(s, i)
        <5>1. /\ r \in Seq(WireByte) /\ s \in Seq(WireByte)
              /\ j \in Nat /\ i \in Nat
          BY ONLY <1>1, <1>3, <3>2
        <5>2. QED
          BY ONLY <5>1, <3>7, <4>1, <4>2, SameMessage, Zenon
      <4>4. QED
        BY <4>3
    <3>8. QED
      BY <3>4, <3>6, <3>7
  <2>3. QED
    BY <2>1, <2>2
<1>6. QED
  BY <1>2, <1>3, <1>5 DEF Stream

LEMMA StreamCut ==
  ASSUME NEW q, Stream(q), NEW n \in 0 .. Len(q)
  PROVE  /\ Stream(SubSeq(q, n + 1, Len(q)))
         /\ Len(SubSeq(q, n + 1, Len(q))) = Len(q) - n
<1>1. q \in Seq(WireByte) /\ Len(q) \in Nat /\ n \in Nat /\ n <= Len(q)
  BY LenProperties DEF Stream
<1>2. PICK s : s = SubSeq(q, n + 1, Len(q))
  OBVIOUS
<1>3. PICK m : m = n + 1
  OBVIOUS
<1>4. m \in Int /\ Len(q) \in Int /\ \A i \in m .. Len(q) : q[i] \in WireByte
  <2>1. m \in Int /\ Len(q) \in Int /\ \A i \in m .. Len(q) : i \in 1 .. Len(q)
    BY ONLY <1>1, <1>3
  <2>2. QED
    BY <1>1, <2>1, ElementOfSeq
<1>5. /\ s \in Seq(WireByte)
      /\ Len(s) = IF m <= Len(q) THEN Len(q) - m + 1 ELSE 0
      /\ \A i \in 1 .. Len(q) - m + 1 : s[i] = q[m + i - 1]
  <2>1. s = SubSeq(q, m, Len(q))
    BY ONLY <1>2, <1>3, Zenon
  <2>2. QED
    BY ONLY <1>4, <2>1, SubSeqProperties
<1>6. Len(s) = Len(q) - n
  BY ONLY <1>1, <1>3, <1>5
<1>7. ASSUME NEW i \in 1 .. Len(s)
      PROVE  n + i \in Nat /\ n + i \in 1 .. Len(q) /\ s[i] = q[n + i]
  <2>1. PICK x : x = n + i
    OBVIOUS
  <2>2. /\ x \in Nat /\ x \in 1 .. Len(q) /\ x = m + i - 1
        /\ i \in 1 .. Len(q) - m + 1
    BY ONLY <1>1, <1>3, <1>6, <2>1, i \in 1 .. Len(s)
  <2>3. s[i] = q[m + i - 1]
    BY ONLY <1>5, <2>2, Zenon
  <2>4. QED
    BY ONLY <2>1, <2>2, <2>3, Zenon
<1>8. ASSUME NEW i \in 1 .. Len(s), s[i].first
      PROVE  PlainAt(s, i) \/ AckAt(s, i)
  <2>1. PICK x : x = n + i
    OBVIOUS
  <2>2. x \in Nat /\ x \in 1 .. Len(q) /\ s[i] = q[x]
    BY ONLY <1>7, <2>1, Zenon, i \in 1 .. Len(s)
  <2>3. i \in Nat
    OBVIOUS
  <2>4. PlainAt(q, x) \/ AckAt(q, x)
    BY <1>8, <2>2 DEF Stream
  <2>5. ASSUME NEW l \in Nat, x + l <= Len(q)
        PROVE  i + l <= Len(s) /\ \A k \in 0 .. l : q[x + k] = s[i + k]
    <3>1. i + l <= Len(s)
      BY ONLY <1>1, <1>6, <2>1, <2>3, <2>5
    <3>2. ASSUME NEW k \in 0 .. l PROVE q[x + k] = s[i + k]
      <4>1. PICK y : y = i + k
        OBVIOUS
      <4>2. y \in 1 .. Len(s) /\ n + y = x + k
        BY ONLY <1>1, <1>6, <2>1, <3>1, <4>1, i \in 1 .. Len(s), l \in Nat,
                k \in 0 .. l
      <4>3. s[y] = q[n + y]
        BY ONLY <1>7, <4>2, Zenon
      <4>4. QED
        BY ONLY <4>1, <4>2, <4>3, Zenon
    <3>3. QED
      BY <3>1, <3>2
  <2>6. /\ q \in Seq(WireByte) /\ s \in Seq(WireByte)
        /\ x \in Nat /\ i \in Nat
    BY ONLY <1>1, <1>5, <2>2, <2>3
  <2>7. CASE PlainAt(q, x)
    <3>1. x + 7 <= Len(q) /\ 7 \in Nat
      BY <2>7 DEF PlainAt
    <3>2. i + 7 <= Len(s) /\ \A k \in 0 .. 7 : q[x + k] = s[i + k]
      BY ONLY <2>5, <3>1, Zenon
    <3>3. PlainAt(s, i)
      BY ONLY <2>6, <2>7, <3>1, <3>2, SameMessage, Zenon
    <3>4. QED
      BY ONLY <3>3, Zenon
  <2>8. CASE AckAt(q, x)
    <3>1. x + 12 <= Len(q) /\ 12 \in Nat
      BY <2>8 DEF AckAt
    <3>2. i + 12 <= Len(s) /\ \A k \in 0 .. 12 : q[x + k] = s[i + k]
      BY ONLY <2>5, <3>1, Zenon
    <3>3. AckAt(s, i)
      BY ONLY <2>6, <2>8, <3>1, <3>2, SameMessage, Zenon
    <3>4. QED
      BY ONLY <3>3, Zenon
  <2>9. QED
    BY <2>4, <2>7, <2>8
<1>9. Stream(s)
  BY ONLY <1>5, <1>8, Zenon DEF Stream
<1>10. QED
  BY ONLY <1>2, <1>6, <1>9, Zenon

LEMMA TaggedKind ==
  ASSUME NEW m \in Seq(Byte), NEW ack \in SUBSET Ack, NEW t, t = Tagged(m, ack)
  PROVE  /\ t \in Seq(WireByte) /\ Len(t) = Len(m)
         /\ \A i \in 1 .. Len(m) :
              /\ t[i].byte = m[i] /\ t[i].ack = ack
              /\ t[i].first <=> i = 1
<1>1. /\ DOMAIN m = 1 .. Len(m) /\ Len(m) \in Nat
      /\ \A i \in 1 .. Len(m) : m[i] \in Byte
  BY LenProperties, ElementOfSeq
<1>2. t = [i \in 1 .. Len(m) |->
             [byte |-> m[i], first |-> i = 1, ack |-> ack]]
  BY ONLY <1>1, Zenon, t = Tagged(m, ack) DEF Tagged
<1>3. ASSUME NEW i \in 1 .. Len(m)
      PROVE  /\ t[i] \in WireByte /\ t[i].byte = m[i] /\ t[i].ack = ack
             /\ t[i].first <=> i = 1
  <2>1. PICK f : f = (i = 1)
    OBVIOUS
  <2>2. f \in BOOLEAN
    BY ONLY <2>1, Zenon
  <2>3. t[i] = [byte |-> m[i], first |-> f, ack |-> ack]
    BY ONLY <1>2, <2>1, Zenon, i \in 1 .. Len(m)
  <2>4. t[i] \in WireByte
    BY ONLY <1>1, <2>2, <2>3, i \in 1 .. Len(m), ack \in SUBSET Ack
       DEF WireByte
  <2>5. t[i].byte = m[i] /\ t[i].ack = ack /\ t[i].first = f
    BY ONLY <2>3
  <2>6. QED
    BY ONLY <2>1, <2>4, <2>5, Zenon
<1>4. t \in Seq(WireByte) /\ Len(t) = Len(m)
  <2>1. t \in [1 .. Len(m) -> WireByte]
    BY ONLY <1>2, <1>3, Zenon
  <2>2. QED
    BY ONLY <1>1, <2>1
<1>5. QED
  BY ONLY <1>3, <1>4, Zenon

(* the header of a message of its own *)
LEMMA TaggedHeader ==
  ASSUME NEW m \in Seq(Byte), NEW ack \in SUBSET Ack, NEW t, t = Tagged(m, ack),
         NEW code \in Word, NEW n \in Byte, HeaderAt(m, 1, code, n), Len(m) >= 8
  PROVE  parseGenericHeader(HeaderOf(t, 1), 8) = Parsed(code, n)
<1>1. \A i \in 1 .. Len(m) : t[i].byte = m[i]
  BY ONLY TaggedKind, m \in Seq(Byte), ack \in SUBSET Ack, t = Tagged(m, ack)
<1>2. PICK h : h = HeaderOf(t, 1)
  OBVIOUS
<1>3. Len(m) \in Nat
  BY LenProperties
<1>4. /\ 1 \in 1 .. Len(m) /\ 2 \in 1 .. Len(m) /\ 3 \in 1 .. Len(m)
      /\ 4 \in 1 .. Len(m) /\ 5 \in 1 .. Len(m) /\ 6 \in 1 .. Len(m)
      /\ 7 \in 1 .. Len(m) /\ 8 \in 1 .. Len(m)
  BY ONLY <1>3, Len(m) >= 8
<1>5. /\ h[0] = t[1].byte /\ h[1] = t[2].byte /\ h[2] = t[3].byte
      /\ h[3] = t[4].byte /\ h[4] = t[5].byte /\ h[5] = t[6].byte
      /\ h[6] = t[7].byte /\ h[7] = t[8].byte
  BY ONLY <1>2 DEF HeaderOf
<1>6. /\ h[0] = m[1] /\ h[1] = m[2] /\ h[2] = m[3] /\ h[3] = m[4]
      /\ h[4] = m[5] /\ h[5] = m[6] /\ h[6] = m[7] /\ h[7] = m[8]
  BY ONLY <1>1, <1>4, <1>5, Zenon
<1>7. HeaderAt(h, 0, code, n)
  <2>1. /\ m[1] = 2 /\ m[2] = 253 /\ m[3] = code \div 256
        /\ m[4] = code % 256 /\ m[5] = 0 /\ m[6] = 0
        /\ m[7] = 0 /\ m[8] = n
    BY DEF HeaderAt
  <2>2. QED
    BY ONLY <1>6, <2>1 DEF HeaderAt
<1>8. 8 \in Nat /\ 8 >= 8
  OBVIOUS
<1>9. QED
  BY <1>2, <1>7, <1>8, HeaderRead

LEMMA PlainMessage ==
  ASSUME NEW m \in Seq(Byte), Len(m) >= 8,
         NEW code \in Word, NEW n \in Byte, HeaderAt(m, 1, code, n),
         \A a \in Parsed(code, n) : a.type \notin AckTypes
  PROVE  Stream(Tagged(m, {}))
<1>1. PICK t : t = Tagged(m, {})
  OBVIOUS
<1>2. {} \in SUBSET Ack
  OBVIOUS
<1>3. /\ t \in Seq(WireByte) /\ Len(t) = Len(m) /\ Len(m) \in Nat
      /\ \A i \in 1 .. Len(m) : t[i].ack = {} /\ (t[i].first <=> i = 1)
  BY <1>1, <1>2, TaggedKind, LenProperties
<1>4. parseGenericHeader(HeaderOf(t, 1), 8) = Parsed(code, n)
  BY <1>1, <1>2, TaggedHeader, Zenon
<1>5. PlainAt(t, 1)
  <2>1. 1 + 7 <= Len(t)
    BY ONLY <1>3, Len(m) >= 8
  <2>2. ASSUME NEW k \in 1 .. 7 PROVE ~t[1 + k].first
    <3>1. 1 + k \in 1 .. Len(m) /\ 1 + k # 1
      BY ONLY <1>3, k \in 1 .. 7, Len(m) >= 8
    <3>2. QED
      BY ONLY <1>3, <3>1, Zenon
  <2>3. t[1].ack = {}
    <3>1. 1 \in 1 .. Len(m)
      BY ONLY <1>3, Len(m) >= 8
    <3>2. QED
      BY ONLY <1>3, <3>1, Zenon
  <2>4. \A a \in parseGenericHeader(HeaderOf(t, 1), 8) : a.type \notin AckTypes
    BY <1>4, Zenon
  <2>5. QED
    BY ONLY <2>1, <2>2, <2>3, <2>4, Zenon DEF PlainAt
<1>6. ASSUME NEW i \in 1 .. Len(t), t[i].first PROVE i = 1
  BY ONLY <1>3, <1>6, Zenon
<1>7. Stream(t)
  BY ONLY <1>3, <1>5, <1>6, Zenon DEF Stream
<1>8. QED
  BY ONLY <1>1, <1>7, Zenon

LEMMA AckMessageIs ==
  ASSUME NEW m \in Seq(Byte), Len(m) >= 13, NEW ack \in Ack, m[13] = ack.code,
         NEW code \in Word, NEW n \in Byte, HeaderAt(m, 1, code, n),
         \A a \in Parsed(code, n) : a.type = ack.type
  PROVE  Stream(Tagged(m, {ack}))
<1>1. PICK t : t = Tagged(m, {ack})
  OBVIOUS
<1>2. /\ {ack} \in SUBSET Ack /\ ack.type \in AckTypes
      /\ ack = [type |-> ack.type, code |-> ack.code]
  BY DEF Ack, AckTypes
<1>3. /\ t \in Seq(WireByte) /\ Len(t) = Len(m) /\ Len(m) \in Nat
      /\ \A i \in 1 .. Len(m) :
           /\ t[i].byte = m[i] /\ t[i].ack = {ack}
           /\ t[i].first <=> i = 1
  <2>1. PICK acks : acks = {ack}
    OBVIOUS
  <2>2. acks \in SUBSET Ack /\ t = Tagged(m, acks)
    BY ONLY <1>1, <1>2, <2>1, Zenon
  <2>3. Len(m) \in Nat
    BY LenProperties
  <2>4. QED
    BY ONLY <2>1, <2>2, <2>3, TaggedKind, m \in Seq(Byte)
<1>4. parseGenericHeader(HeaderOf(t, 1), 8) = Parsed(code, n)
  <2>1. Len(m) >= 8
    BY <1>3
  <2>2. QED
    BY <1>1, <1>2, <2>1, TaggedHeader, Zenon
<1>5. AckAt(t, 1)
  <2>1. 1 + 12 <= Len(t) /\ 1 + 12 = 13
    BY ONLY <1>3, Len(m) >= 13
  <2>2. ASSUME NEW k \in 1 .. 12 PROVE ~t[1 + k].first
    <3>1. 1 + k \in 1 .. Len(m) /\ 1 + k # 1
      BY ONLY <1>3, k \in 1 .. 12, Len(m) >= 13
    <3>2. QED
      BY ONLY <1>3, <3>1, Zenon
  <2>3. t[1].ack = {ack} /\ t[1 + 12].byte = ack.code
    <3>1. 1 \in 1 .. Len(m) /\ 13 \in 1 .. Len(m)
      BY ONLY <1>3, Len(m) >= 13
    <3>2. t[1].ack = {ack}
      BY ONLY <1>3, <3>1, Zenon
    <3>3. t[13].byte = m[13]
      BY ONLY <1>3, <3>1, Zenon
    <3>4. QED
      BY ONLY <2>1, <3>2, <3>3, m[13] = ack.code
  <2>4. \A a \in parseGenericHeader(HeaderOf(t, 1), 8) :
          /\ a.type \in AckTypes
          /\ t[1].ack = {[type |-> a.type, code |-> t[1 + 12].byte]}
    <3>1. ASSUME NEW a \in parseGenericHeader(HeaderOf(t, 1), 8)
          PROVE  a.type = ack.type
      BY <1>4, <3>1, Zenon
    <3>2. QED
      BY ONLY <1>2, <2>3, <3>1, Zenon
  <2>5. QED
    BY ONLY <2>1, <2>2, <2>4, Zenon DEF AckAt
<1>6. ASSUME NEW i \in 1 .. Len(t), t[i].first PROVE i = 1
  BY ONLY <1>3, <1>6, Zenon
<1>7. Stream(t)
  BY ONLY <1>3, <1>5, <1>6, Zenon DEF Stream
<1>8. QED
  BY ONLY <1>1, <1>7, Zenon

LEMMA StreamGrows ==
  ASSUME NEW q, NEW r, Stream(q), Stream(r)
  PROVE  Len(q \o r) >= Len(q) /\ Len(q) \in Nat
<1>1. q \in Seq(WireByte) /\ r \in Seq(WireByte)
  BY DEF Stream
<1>2. Len(q \o r) = Len(q) + Len(r)
  BY ONLY <1>1, ConcatProperties
<1>3. Len(q) \in Nat /\ Len(r) \in Nat
  BY <1>1, LenProperties
<1>4. QED
  BY ONLY <1>2, <1>3

(* A code the parser does not know makes no acknowledge of a message. *)
LEMMA UnknownParsed ==
  ASSUME NEW code \in Word, NEW n \in Byte, code \notin KnownCodes
  PROVE  \A a \in Parsed(code, n) : a.type \notin AckTypes
<1>1. Parsed(code, n) = {Action("NEGATIVEACK", UnknownPayloadTypeCode, n)}
  BY DEF Parsed, HeaderActions
<1>2. QED
  BY ONLY <1>1 DEF Action, AckTypes

LEMMA UnknownStream ==
  ASSUME NEW type, NEW code \in Word, WrittenCodes(type) = {code},
         code \notin KnownCodes, NEW payload \in Seq(Byte), Len(payload) \in Byte
  PROVE  Stream(Tagged(Wire(type, payload), {}))
<1>1. PICK n : n = Len(payload)
  OBVIOUS
<1>2. PICK m : m = Wire(type, payload)
  OBVIOUS
<1>3. m \in Seq(Byte) /\ Len(m) = 8 + n /\ HeaderAt(m, 1, code, n) /\ n \in Byte
  BY <1>1, <1>2, WireBytes
<1>4. Len(m) >= 8
  <2>1. n \in Nat
    BY <1>3, ByteKind
  <2>2. QED
    BY ONLY <1>3, <2>1
<1>5. \A a \in Parsed(code, n) : a.type \notin AckTypes
  BY <1>3, UnknownParsed
<1>6. Stream(Tagged(m, {}))
  BY ONLY <1>3, <1>4, <1>5, PlainMessage, code \in Word
<1>7. QED
  BY ONLY <1>2, <1>6, Zenon

(* The header's refusal of a request. *)
LEMMA NackStream ==
  Stream(Tagged(Wire("NEGATIVEACK", <<UnknownPayloadTypeCode>>), {}))
<1>1. PICK p : p = <<UnknownPayloadTypeCode>>
  OBVIOUS
<1>2. p \in Seq(Byte) /\ Len(p) = 1
  BY <1>1, ByteConstants DEF UnknownPayloadTypeCode
<1>3. /\ p \in Seq(Byte) /\ Len(p) \in Byte /\ 0 \in Word /\ 0 \notin KnownCodes
      /\ WrittenCodes("NEGATIVEACK") = {0}
  BY ONLY <1>2, CodesWritten, CodesRead, WordConstants, ByteConstants
<1>4. Stream(Tagged(Wire("NEGATIVEACK", p), {}))
  BY ONLY <1>3, UnknownStream
<1>5. QED
  BY ONLY <1>1, <1>4, Zenon

LEMMA ActivationStream ==
  ASSUME NEW sa \in Word, NEW code \in Byte
  PROVE  Stream(Tagged(Wire("ROUTINGACTIVATIONRESPONSE",
           TwoBytes(sa) \o TwoBytes(GatewayAddress) \o <<code, 0, 0, 0, 0>>), {}))
<1>1. PICK rest : rest = <<code, 0, 0, 0, 0>>
  OBVIOUS
<1>2. rest \in Seq(Byte) /\ Len(rest) = 5
  BY <1>1, ByteConstants
<1>3. PICK p : p = Addressed(sa, GatewayAddress, rest)
  OBVIOUS
<1>4. p \in Seq(Byte) /\ Len(p) = 9
  <2>1. p \in Seq(Byte) /\ Len(p) = 4 + Len(rest)
    <3>1. PICK g : g = GatewayAddress
      OBVIOUS
    <3>2. g \in Word /\ rest \in Seq(Byte) /\ p = Addressed(sa, g, rest)
      BY ONLY <1>2, <1>3, <3>1, WordConstants
    <3>3. QED
      BY ONLY <3>2, AddressedBytes, Zenon, sa \in Word
  <2>2. Len(rest) = 5 /\ 4 + 5 = 9
    BY <1>2
  <2>3. QED
    BY ONLY <2>1, <2>2, Zenon
<1>5. /\ p \in Seq(Byte) /\ Len(p) \in Byte /\ 6 \in Word /\ 6 \notin KnownCodes
      /\ WrittenCodes("ROUTINGACTIVATIONRESPONSE") = {6}
  BY ONLY <1>4, CodesWritten, CodesRead, WordConstants, ByteConstants
<1>6. Stream(Tagged(Wire("ROUTINGACTIVATIONRESPONSE", p), {}))
  BY ONLY <1>5, UnknownStream
<1>7. QED
  BY ONLY <1>1, <1>3, <1>6, Zenon DEF Addressed

LEMMA DataStream ==
  ASSUME NEW to \in Word
  PROVE  Stream(Tagged(DiagnosticMessage(GatewayAddress, to), {}))
<1>1. PICK m : m = DiagnosticMessage(GatewayAddress, to)
  OBVIOUS
<1>2. /\ m \in Seq(Byte) /\ Len(m) = 13 /\ HeaderAt(m, 1, 32769, 5)
      /\ \A a \in Parsed(32769, 5) : a.type = "DIAGNOSTICMESSAGE"
  <2>1. PICK g \in Word : g = GatewayAddress
    BY WordConstants
  <2>2. m = DiagnosticMessage(g, to)
    BY ONLY <1>1, <2>1
  <2>3. QED
    BY ONLY <2>1, <2>2, DiagnosticRead, to \in Word
<1>3. m \in Seq(Byte) /\ Len(m) >= 8
  BY ONLY <1>2
<1>4. \A a \in Parsed(32769, 5) : a.type \notin AckTypes
  BY ONLY <1>2 DEF AckTypes
<1>5. PICK code \in Word, n \in Byte :
        /\ HeaderAt(m, 1, code, n)
        /\ \A a \in Parsed(code, n) : a.type \notin AckTypes
  BY ONLY <1>2, <1>4, WordConstants, ByteConstants
<1>6. Stream(Tagged(m, {}))
  BY ONLY <1>3, <1>5, PlainMessage
<1>7. QED
  BY ONLY <1>1, <1>6, Zenon

LEMMA AckParsed ==
  /\ \A a \in Parsed(32770, 5) : a.type = "DIAGNOSTICPOSITIVEACK"
  /\ \A a \in Parsed(32771, 5) : a.type = "DIAGNOSTICNEGATIVEACK"
<1>1. \A type \in AckTypes : LengthValid(type, 5)
  BY DEF LengthValid, AckTypes
<1>2. ASSUME NEW a \in Parsed(32770, 5)
      PROVE  a.type = "DIAGNOSTICPOSITIVEACK"
  <2>1. PICK v \in GarbageByte : a = Action("DIAGNOSTICPOSITIVEACK", v, 5)
    BY <1>1, <1>2, CodesRead DEF HeaderActions, Parsed, AckTypes
  <2>2. QED
    BY <2>1 DEF Action
<1>3. ASSUME NEW a \in Parsed(32771, 5)
      PROVE  a.type = "DIAGNOSTICNEGATIVEACK"
  <2>1. PICK v \in GarbageByte : a = Action("DIAGNOSTICNEGATIVEACK", v, 5)
    BY <1>1, <1>3, CodesRead DEF HeaderActions, Parsed, AckTypes
  <2>2. QED
    BY <2>1 DEF Action
<1>4. QED
  BY <1>2, <1>3

LEMMA AckStream ==
  ASSUME NEW ack \in Ack, NEW to \in Word
  PROVE  Stream(AckMessage(ack, to))
<1>1. PICK rest : rest = <<ack.code>>
  OBVIOUS
<1>2. rest \in Seq(Byte) /\ Len(rest) = 1 /\ rest[1] = ack.code
  BY <1>1 DEF Ack
<1>3. PICK p : p = Addressed(GatewayAddress, to, rest)
  OBVIOUS
<1>4. p \in Seq(Byte) /\ Len(p) = 5 /\ p[5] = ack.code
  <2>1. /\ p \in Seq(Byte) /\ Len(p) = 4 + Len(rest)
        /\ \A i \in 1 .. Len(rest) : p[4 + i] = rest[i]
    <3>1. PICK g : g = GatewayAddress
      OBVIOUS
    <3>2. g \in Word /\ rest \in Seq(Byte) /\ p = Addressed(g, to, rest)
      BY ONLY <1>2, <1>3, <3>1, WordConstants
    <3>3. QED
      BY ONLY <3>2, AddressedBytes, Zenon, to \in Word
  <2>2. Len(rest) = 1 /\ 4 + 1 = 5 /\ 1 \in 1 .. Len(rest)
    BY ONLY <1>2
  <2>3. p[4 + 1] = rest[1]
    BY ONLY <2>1, <2>2, Zenon
  <2>4. QED
    BY ONLY <1>2, <2>1, <2>2, <2>3, Zenon
<1>5. PICK m : m = Wire(ack.type, p)
  OBVIOUS
<1>6. PICK code \in Word :
        /\ WrittenCodes(ack.type) = {code}
        /\ \A a \in Parsed(code, 5) : a.type = ack.type
  <2>1. ack.type = "DIAGNOSTICPOSITIVEACK" \/ ack.type = "DIAGNOSTICNEGATIVEACK"
    BY DEF Ack
  <2>2. QED
    BY ONLY <2>1, CodesWritten, AckParsed, WordConstants
<1>7. code \in Word /\ 5 \in Byte
  BY ONLY <1>6, ByteConstants
<1>8. /\ m \in Seq(Byte) /\ Len(m) = 8 + Len(p) /\ HeaderAt(m, 1, code, Len(p))
      /\ \A i \in 1 .. Len(p) : m[8 + i] = p[i]
  <2>1. /\ p \in Seq(Byte) /\ Len(p) \in Byte /\ code \in Word
        /\ WrittenCodes(ack.type) = {code}
    BY ONLY <1>4, <1>6, <1>7
  <2>2. QED
    BY ONLY <1>5, <2>1, WireBytes
<1>9. Len(m) >= 13 /\ m[13] = ack.code
  <2>1. Len(p) = 5 /\ 8 + 5 = 13 /\ 5 \in 1 .. Len(p)
    BY ONLY <1>4
  <2>2. m[8 + 5] = p[5]
    BY ONLY <1>8, <2>1, Zenon
  <2>3. Len(m) = 13 /\ m[13] = ack.code
    BY ONLY <1>4, <1>8, <2>1, <2>2, Zenon
  <2>4. QED
    BY ONLY <2>3
<1>10. HeaderAt(m, 1, code, 5)
  BY ONLY <1>4, <1>8, Zenon
<1>11. Stream(Tagged(m, {ack}))
  <2>1. m \in Seq(Byte) /\ \A a \in Parsed(code, 5) : a.type = ack.type
    BY ONLY <1>6, <1>8
  <2>2. QED
    BY ONLY <1>7, <1>9, <1>10, <2>1, AckMessageIs, ack \in Ack
<1>12. QED
  BY ONLY <1>1, <1>3, <1>5, <1>11, Zenon DEF AckMessage, Addressed

-----------------------------------------------------------------------------
(* What the server does with the client's requests. *)

(* When the request at position i is read the routing is active: it is now, *)
(* or a request for it comes before.                                        *)
Activated(i) ==
  route # {} \/ \E j \in 1 .. i - 1 : up[j] = buildRoutingActivationRequest

(* On a connection the application made, it asks for the activation first. *)
RequestInv ==
  /\ up \in Seq(Requests) /\ route \subseteq {TesterAddress}
  /\ connecting => automatic \/ ~asked
  /\ link = "up" /\ asked => automatic \/ Activated(Len(up) + 1)
  /\ \A i \in 1 .. Len(up) : up[i] = Diagnostic => automatic \/ Activated(i)

(* Whole messages are under way, and none to a socket without connection. *)
StreamInv == Stream(down) /\ (link = "unconnected" => down = <<>>)

LEMMA GarbageKind == Unwritten \in Word /\ GarbageByte \subseteq Byte
<1>1. ASSUME NEW g \in GarbageByte PROVE g \in Nat /\ g <= 255
  <2>1. PICK x \in Garbage : g = x % 256
    BY <1>1 DEF GarbageByte
  <2>2. x \in Nat
    BY GarbageAssumption
  <2>3. QED
    BY ONLY <2>1, <2>2, SMT
<1>2. GarbageByte # {}
  BY GarbageAssumption DEF GarbageByte
<1>3. Unwritten \in GarbageByte
  BY ONLY <1>2, Zenon DEF Unwritten
<1>4. Unwritten \in Nat /\ Unwritten <= 255
  BY <1>1, <1>3
<1>5. Unwritten \in Word
  BY <1>4, WordKind
<1>6. QED
  BY <1>1, <1>5, ByteKind

(* what the server notes about a request of the given payload type *)
Noted(why, type) == [why |-> why, type |-> type, automatic |-> automatic]

(* the answers to the three kinds of request *)
LEMMA ActivationServed ==
  ASSUME ServerActivates(buildRoutingActivationRequest), Stream(down)
  PROVE  /\ Stream(down') /\ route' = {TesterAddress}
         /\ objections' = objections /\ link' = link /\ ends' = ends
         /\ Len(down') >= Len(down)
<1>1. PICK r : r = buildRoutingActivationRequest
  OBVIOUS
<1>2. Number(r[9], r[10]) = TesterAddress /\ r[11] = 0
  BY <1>1, ActivationRead
<1>3. parseRoutingActivation(TesterAddress, 0) = SuccessfullyRoutedCode
  BY DEF parseRoutingActivation, checkSourceAddress, ActivationTypeSupported,
         TesterAddress
<1>4. parseRoutingActivation(Number(r[9], r[10]), r[11]) = SuccessfullyRoutedCode
  BY ONLY <1>2, <1>3, Zenon
<1>5. PICK t : t = Tagged(Wire("ROUTINGACTIVATIONRESPONSE",
        TwoBytes(TesterAddress) \o TwoBytes(GatewayAddress)
          \o <<SuccessfullyRoutedCode, 0, 0, 0, 0>>), {})
  OBVIOUS
<1>6. /\ down' = down \o t /\ route' = {TesterAddress}
      /\ UNCHANGED <<objections, link, ends>>
  <2>1. ServerActivates(r)
    BY <1>1
  <2>2. QED
    BY ONLY <1>2, <1>4, <1>5, <2>1, Zenon DEF ServerActivates
<1>7. Stream(t)
  <2>1. TesterAddress \in Word /\ SuccessfullyRoutedCode \in Byte
    BY WordConstants, ByteConstants DEF SuccessfullyRoutedCode
  <2>2. QED
    BY ONLY <1>5, <2>1, ActivationStream, Zenon
<1>8. QED
  BY <1>6, <1>7, StreamJoin, StreamGrows

LEMMA AliveCheckServed ==
  ASSUME NEW r, Number(r[3], r[4]) = AliveCheckResponseType,
         ServerNacks(r, UnknownPayloadTypeCode), Stream(down)
  PROVE  /\ Stream(down') /\ route' = route /\ link' = link /\ ends' = ends
         /\ objections' = objections \cup
              {Noted("unknown type", AliveCheckResponseType)}
         /\ Len(down') >= Len(down)
<1>1. PICK t : t = Tagged(Wire("NEGATIVEACK", <<UnknownPayloadTypeCode>>), {})
  OBVIOUS
<1>2. /\ down' = down \o t /\ route' = route /\ UNCHANGED <<link, ends>>
      /\ objections' = objections \cup
           {Noted("unknown type", AliveCheckResponseType)}
  BY ONLY <1>1, ServerNacks(r, UnknownPayloadTypeCode),
     Number(r[3], r[4]) = AliveCheckResponseType, Zenon
     DEF ServerNacks, ObjectTo, Noted
<1>3. Stream(t)
  BY ONLY <1>1, NackStream, Zenon
<1>4. QED
  BY <1>2, <1>3, StreamJoin, StreamGrows

LEMMA DiagnosticServed ==
  ASSUME ServerConfirms(Diagnostic), Stream(down), route \subseteq {TesterAddress}
  PROVE  /\ Stream(down') /\ route' = route /\ link' = link /\ ends' = ends
         /\ Len(down') >= Len(down)
         /\ route # {} => objections' = objections
         /\ route = {} => objections' = objections \cup
                            {Noted("unrouted", DiagnosticMessageType)}
<1>1. PICK r : r = Diagnostic
  OBVIOUS
<1>2. /\ Number(r[9], r[10]) = TesterAddress /\ Len(r) = 13
      /\ Number(r[3], r[4]) = DiagnosticMessageType
  <2>1. TesterAddress \in Word /\ 1 \in Word
    BY WordConstants
  <2>2. r = DiagnosticMessage(TesterAddress, 1)
    BY ONLY <1>1 DEF Diagnostic
  <2>3. QED
    BY ONLY <2>1, <2>2, DiagnosticRead
<1>3. PICK to : to = IF route = {} THEN Unwritten ELSE CHOOSE a \in route : TRUE
  OBVIOUS
<1>4. to \in Word /\ (route # {} => to = TesterAddress)
  <2>1. CASE route = {}
    BY <1>3, <2>1, GarbageKind
  <2>2. CASE route # {}
    <3>1. route = {TesterAddress}
      BY <2>2
    <3>2. to = TesterAddress
      BY ONLY <1>3, <2>2, <3>1, Zenon
    <3>3. QED
      BY <3>2, WordConstants
  <2>3. QED
    BY <2>1, <2>2
<1>5. PICK ok : ok = [type |-> "DIAGNOSTICPOSITIVEACK",
                      code |-> ValidDiagnosticMessageCode]
  OBVIOUS
<1>6. PICK no : no = [type |-> "DIAGNOSTICNEGATIVEACK",
                      code |-> UnknownTargetAddressCode]
  OBVIOUS
<1>7. ok \in Ack /\ no \in Ack
  BY <1>5, <1>6, ByteConstants
     DEF Ack, ValidDiagnosticMessageCode, UnknownTargetAddressCode
<1>8. PICK data : data = Tagged(DiagnosticMessage(GatewayAddress, to), {})
  OBVIOUS
<1>9. PICK code : code = parseDiagnosticMessage(to, Number(r[9], r[10]), Len(r) - 8)
  OBVIOUS
<1>10. /\ \/ down' = down \o AckMessage(no, to)
          \/ down' = down \o AckMessage(ok, to)
          \/ down' = down \o AckMessage(ok, to) \o data
       /\ route = {} => ObjectTo(r, "unrouted")
       /\ route # {} /\ code = ValidDiagnosticMessageCode => UNCHANGED objections
       /\ UNCHANGED <<route, link, ends>>
  <2>1. ServerConfirms(r)
    BY <1>1
  <2>2. QED
    BY ONLY <1>3, <1>5, <1>6, <1>8, <1>9, <2>1, Zenon DEF ServerConfirms
<1>11. Stream(down') /\ Len(down') >= Len(down)
  <2>1. /\ Stream(AckMessage(no, to)) /\ Stream(AckMessage(ok, to))
        /\ Stream(data)
    BY ONLY <1>4, <1>7, <1>8, AckStream, DataStream
  <2>2. CASE down' = down \o AckMessage(no, to)
    BY <2>1, <2>2, StreamJoin, StreamGrows
  <2>3. CASE down' = down \o AckMessage(ok, to)
    BY <2>1, <2>3, StreamJoin, StreamGrows
  <2>4. CASE down' = down \o AckMessage(ok, to) \o data
    <3>1. PICK q : q = down \o AckMessage(ok, to)
      OBVIOUS
    <3>2. Stream(q) /\ Len(q) >= Len(down) /\ Len(down) \in Nat
      BY <2>1, <3>1, StreamJoin, StreamGrows
    <3>3. down' = q \o data
      BY ONLY <2>4, <3>1, Zenon
    <3>4. Stream(q \o data) /\ Len(q \o data) >= Len(q) /\ Len(q) \in Nat
      BY ONLY <2>1, <3>2, StreamJoin, StreamGrows
    <3>5. Len(q \o data) \in Nat
      <4>1. q \o data \in Seq(WireByte)
        BY <3>4 DEF Stream
      <4>2. QED
        BY ONLY <4>1, LenProperties
    <3>6. Len(q \o data) >= Len(down)
      BY ONLY <3>2, <3>4, <3>5
    <3>7. QED
      BY ONLY <3>3, <3>4, <3>6, Zenon
  <2>5. QED
    BY ONLY <1>10, <2>2, <2>3, <2>4
<1>12. ASSUME route # {} PROVE objections' = objections
  <2>1. PICK n : n = Len(r) - 8
    OBVIOUS
  <2>2. n = 5
    BY ONLY <1>2, <2>1
  <2>3. code = parseDiagnosticMessage(TesterAddress, TesterAddress, n)
    BY ONLY <1>2, <1>4, <1>9, <1>12, <2>1, Zenon
  <2>4. code = ValidDiagnosticMessageCode
    BY ONLY <2>2, <2>3 DEF parseDiagnosticMessage, DiagnosticMessageMinimumLength
  <2>5. QED
    BY ONLY <1>10, <1>12, <2>4, Zenon
<1>13. ASSUME route = {}
       PROVE  objections' = objections \cup {Noted("unrouted", DiagnosticMessageType)}
  BY ONLY <1>2, <1>10, <1>13, Zenon DEF ObjectTo, Noted
<1>14. QED
  BY ONLY <1>10, <1>11, <1>12, <1>13

(* the three kinds of request differ in their fourth byte *)
LEMMA RequestKinds ==
  ASSUME NEW r \in Requests
  PROVE  /\ \/ r = buildRoutingActivationRequest
            \/ r = Diagnostic
            \/ \E address \in Word : r = AliveCheck(address)
         /\ r \in Seq(Byte)
         /\ Diagnostic # buildRoutingActivationRequest
         /\ \A address \in Word : AliveCheck(address) # Diagnostic
         /\ \A address \in Word :
              AliveCheck(address) # buildRoutingActivationRequest
<1>1. \/ r = buildRoutingActivationRequest \/ r = Diagnostic
      \/ \E address \in Word : r = AliveCheck(address)
  BY DEF Requests
<1>2. Diagnostic \in Seq(Byte) /\ Diagnostic[4] = 1
  BY DiagnosticRead, WordConstants DEF Diagnostic
<1>3. \A address \in Word :
        AliveCheck(address) \in Seq(Byte) /\ AliveCheck(address)[4] = 8
  BY AliveCheckRead
<1>4. QED
  BY ONLY <1>1, <1>2, <1>3, ActivationRead

(* A request is answered in the order it was sent, and nothing is objected  *)
(* to but an alive check response and, on an automatic connection, a        *)
(* diagnostic message without an activation.                                *)
LEMMA ServerServes ==
  ASSUME RequestInv, Stream(down), ServerReacts
  PROVE  /\ up' = Tail(up) /\ up # <<>>
         /\ Stream(down') /\ Len(down') >= Len(down)
         /\ route' \subseteq {TesterAddress} /\ (route # {} => route' # {})
         /\ up[1] = buildRoutingActivationRequest => route' # {}
         /\ link' = link /\ ends' = ends
         /\ \/ objections' = objections
            \/ objections' = objections \cup
                 {Noted("unknown type", AliveCheckResponseType)}
            \/ automatic /\ objections' = objections \cup
                 {Noted("unrouted", DiagnosticMessageType)}
<1>1. PICK r : r = up[1]
  OBVIOUS
<1>2. /\ up # <<>> /\ up' = Tail(up) /\ Head(up) = up[1]
      /\ r \in Requests /\ 1 \in 1 .. Len(up)
  <2>1. up \in Seq(Requests) /\ up # <<>> /\ up' = Tail(up)
    BY DEF RequestInv, ServerReacts
  <2>2. Len(up) \in Nat /\ Len(up) # 0
    BY ONLY <2>1, LenProperties, EmptySeq
  <2>3. 1 \in 1 .. Len(up) /\ Head(up) = up[1]
    BY ONLY <2>1, <2>2
  <2>4. QED
    BY ONLY <1>1, <2>1, <2>3, ElementOfSeq
<1>3. PICK a \in RequestActions(r) :
        \/ a.type = "NEGATIVEACK" /\ ServerNacks(r, a.value)
        \/ a.type = "ROUTINGACTIVATIONREQUEST" /\ ServerActivates(r)
        \/ a.type = "DIAGNOSTICMESSAGE" /\ ServerConfirms(r)
  BY ONLY <1>1, <1>2, ServerReacts, Zenon DEF ServerReacts, RequestActions
<1>4. route \subseteq {TesterAddress}
  BY DEF RequestInv
<1>5. CASE r = buildRoutingActivationRequest
  <2>1. a.type = "ROUTINGACTIVATIONREQUEST"
    BY ONLY <1>3, <1>5, ActivationRead, Zenon
  <2>2. ServerActivates(buildRoutingActivationRequest)
    BY ONLY <1>3, <1>5, <2>1
  <2>3. /\ Stream(down') /\ route' = {TesterAddress} /\ Len(down') >= Len(down)
        /\ objections' = objections /\ link' = link /\ ends' = ends
    BY ONLY <2>2, Stream(down), ActivationServed
  <2>4. QED
    BY ONLY <1>2, <2>3, Zenon
<1>6. CASE r = Diagnostic
  <2>1. \A b \in RequestActions(Diagnostic) : b.type = "DIAGNOSTICMESSAGE"
    BY DiagnosticRead, WordConstants DEF Diagnostic
  <2>2. a.type = "DIAGNOSTICMESSAGE"
    BY ONLY <1>3, <1>6, <2>1, Zenon
  <2>3. ServerConfirms(Diagnostic)
    BY ONLY <1>3, <1>6, <2>2
  <2>4. /\ Stream(down') /\ route' = route /\ link' = link /\ ends' = ends
        /\ Len(down') >= Len(down)
        /\ route # {} => objections' = objections
        /\ route = {} => objections' = objections \cup
                           {Noted("unrouted", DiagnosticMessageType)}
    BY ONLY <1>4, <2>3, Stream(down), DiagnosticServed
  <2>5. automatic \/ route # {}
    <3>1. automatic \/ Activated(1)
      BY ONLY <1>1, <1>2, <1>6, RequestInv, Zenon DEF RequestInv
    <3>2. ~ \E j \in 1 .. 1 - 1 : up[j] = buildRoutingActivationRequest
      OBVIOUS
    <3>3. QED
      BY ONLY <3>1, <3>2, Zenon DEF Activated
  <2>6. up[1] # buildRoutingActivationRequest
    BY ONLY <1>1, <1>2, <1>6, RequestKinds
  <2>7. QED
    BY ONLY <1>2, <1>4, <2>4, <2>5, <2>6, Zenon
<1>7. CASE \E address \in Word : r = AliveCheck(address)
  <2>1. PICK address \in Word : r = AliveCheck(address)
    BY <1>7
  <2>2. /\ a.type = "NEGATIVEACK" /\ a.value = UnknownPayloadTypeCode
        /\ Number(r[3], r[4]) = AliveCheckResponseType
    BY ONLY <1>3, <2>1, AliveCheckRead
  <2>3. ServerNacks(r, UnknownPayloadTypeCode)
    BY ONLY <1>3, <2>2
  <2>4. /\ Stream(down') /\ route' = route /\ Len(down') >= Len(down)
        /\ link' = link /\ ends' = ends
        /\ objections' = objections \cup
             {Noted("unknown type", AliveCheckResponseType)}
    BY ONLY <2>2, <2>3, Stream(down), AliveCheckServed
  <2>5. up[1] # buildRoutingActivationRequest
    BY ONLY <1>1, <1>2, <2>1, RequestKinds
  <2>6. QED
    BY ONLY <1>2, <1>4, <2>4, <2>5, Zenon
<1>8. QED
  BY ONLY <1>2, <1>5, <1>6, <1>7, RequestKinds

-----------------------------------------------------------------------------
(* RequestInv and StreamInv hold in every state. *)

requestVars == <<up, route, connecting, automatic, asked, link>>

LEMMA RequestFrame ==
  ASSUME RequestInv, UNCHANGED requestVars
  PROVE  RequestInv'
<1>1. /\ up' = up /\ route' = route /\ connecting' = connecting
      /\ automatic' = automatic /\ asked' = asked /\ link' = link
  BY DEF requestVars
<1>2. \A i : Activated(i)' <=> Activated(i)
  BY ONLY <1>1, Zenon DEF Activated
<1>3. QED
  BY ONLY <1>1, <1>2, RequestInv, Zenon DEF RequestInv

(* nothing is under way on a connection that has ended or not begun *)
LEMMA RequestFresh ==
  ASSUME up' = <<>>, route' = {}, connecting' => automatic' \/ ~asked',
         link' # "up"
  PROVE  RequestInv'
<1>1. up' \in Seq(Requests) /\ Len(up') = 0
  BY EmptySeq
<1>2. route' \subseteq {TesterAddress}
  OBVIOUS
<1>3. \A i \in 1 .. Len(up') : FALSE
  BY ONLY <1>1
<1>4. QED
  BY ONLY <1>1, <1>2, <1>3, Zenon, connecting' => automatic' \/ ~asked',
          link' # "up" DEF RequestInv

LEMMA OpenRequests ==
  ASSUME OpenSocket, FreshSocket, automatic' \/ ~asked'
  PROVE  RequestInv'
  BY RequestFresh DEF FreshSocket

(* A request is sent behind those that are under way. *)
LEMMA WriteRequests ==
  ASSUME RequestInv, NEW request \in Requests, Write(request),
         \/ request = buildRoutingActivationRequest /\ asked' = TRUE
         \/ asked' = asked /\ (request = Diagnostic => asked)
  PROVE  RequestInv'
<1>1. /\ ~connecting /\ connecting' = connecting /\ automatic' = automatic
      /\ route' = route
      /\ up' = IF link = "up" THEN Append(up, request) ELSE up
      /\ link' = IF link = "reset" THEN "ended"
                 ELSE IF link = "ended" THEN "written" ELSE link
  BY DEF Write, Idle, serverVars
<1>2. up \in Seq(Requests) /\ Len(up) \in Nat
  BY LenProperties DEF RequestInv
<1>3. CASE link # "up"
  <2>1. up' = up /\ link' # "up"
    BY ONLY <1>1, <1>3
  <2>2. \A i : Activated(i)' <=> Activated(i)
    BY ONLY <1>1, <2>1, Zenon DEF Activated
  <2>3. QED
    BY ONLY <1>1, <2>1, <2>2, RequestInv, Zenon DEF RequestInv
<1>4. CASE link = "up"
  <2>1. PICK n : n = Len(up) + 1
    OBVIOUS
  <2>2. /\ up' \in Seq(Requests) /\ Len(up') = n /\ link' = "up"
        /\ \A i \in 1 .. Len(up) : up'[i] = up[i]
        /\ up'[n] = request
    <3>1. up' = Append(up, request) /\ link' = "up"
      BY ONLY <1>1, <1>4
    <3>2. /\ Append(up, request) \in Seq(Requests)
          /\ Len(Append(up, request)) = Len(up) + 1
          /\ \A i \in 1 .. Len(up) : Append(up, request)[i] = up[i]
          /\ Append(up, request)[Len(up) + 1] = request
      BY ONLY <1>2, AppendProperties, request \in Requests
    <3>3. QED
      BY ONLY <2>1, <3>1, <3>2, Zenon
  <2>3. ASSUME NEW i \in 1 .. n, Activated(i) PROVE Activated(i)'
    <3>1. CASE route # {}
      BY ONLY <1>1, <3>1, Zenon DEF Activated
    <3>2. CASE route = {}
      <4>1. PICK j \in 1 .. i - 1 : up[j] = buildRoutingActivationRequest
        BY <2>3, <3>2 DEF Activated
      <4>2. j \in 1 .. Len(up)
        BY ONLY <1>2, <2>1, <4>1, i \in 1 .. n
      <4>3. up'[j] = buildRoutingActivationRequest
        BY ONLY <2>2, <4>1, <4>2, Zenon
      <4>4. QED
        BY ONLY <4>1, <4>3, Zenon DEF Activated
    <3>3. QED
      BY ONLY <3>1, <3>2, Zenon
  <2>4. n \in Nat /\ n >= 1 /\ n \in 1 .. n /\ (n + 1) - 1 = n
    BY ONLY <1>2, <2>1
  <2>5. asked => automatic \/ Activated(n)
    BY ONLY <1>4, <2>1, RequestInv, Zenon DEF RequestInv
  <2>6. asked' => automatic' \/ Activated(n + 1)'
    <3>1. CASE request = buildRoutingActivationRequest
      <4>1. n \in 1 .. (n + 1) - 1
        BY ONLY <2>4, Zenon
      <4>2. QED
        BY ONLY <2>2, <3>1, <4>1, Zenon DEF Activated
    <3>2. CASE asked' = asked
      <4>1. ASSUME Activated(n)' PROVE Activated(n + 1)'
        <5>1. \A j \in 1 .. n - 1 : j \in 1 .. (n + 1) - 1
          BY ONLY <2>4
        <5>2. QED
          BY ONLY <4>1, <5>1, Zenon DEF Activated
      <4>2. QED
        BY ONLY <1>1, <2>3, <2>4, <2>5, <3>2, <4>1, Zenon
    <3>3. QED
      BY <3>1, <3>2
  <2>7. ASSUME NEW i \in 1 .. Len(up'), up'[i] = Diagnostic
        PROVE  automatic' \/ Activated(i)'
    <3>1. i \in 1 .. n
      BY ONLY <2>2, <2>7, Zenon
    <3>2. CASE i = n
      <4>1. request = Diagnostic
        BY ONLY <2>2, <2>7, <3>2, Zenon
      <4>2. asked
        BY ONLY <4>1, RequestKinds, request \in Requests,
           \/ request = buildRoutingActivationRequest /\ asked' = TRUE
           \/ asked' = asked /\ (request = Diagnostic => asked)
      <4>3. QED
        BY ONLY <1>1, <2>3, <2>4, <2>5, <3>2, <4>2, Zenon
    <3>3. CASE i # n
      <4>1. i \in 1 .. Len(up)
        BY ONLY <1>2, <2>1, <3>1, <3>3
      <4>2. up[i] = Diagnostic
        BY ONLY <2>2, <2>7, <4>1, Zenon
      <4>3. automatic \/ Activated(i)
        BY ONLY <4>1, <4>2, RequestInv, Zenon DEF RequestInv
      <4>4. QED
        BY ONLY <1>1, <2>3, <3>1, <4>3, Zenon
    <3>4. QED
      BY ONLY <3>2, <3>3, Zenon
  <2>8. route' \subseteq {TesterAddress}
    BY ONLY <1>1, RequestInv, Zenon DEF RequestInv
  <2>9. QED
    BY ONLY <1>1, <2>2, <2>6, <2>7, <2>8, Zenon DEF RequestInv
<1>5. QED
  BY <1>3, <1>4

(* The server reads the first of them. *)
LEMMA ReactRequests ==
  ASSUME RequestInv, Stream(down), ServerReacts
  PROVE  RequestInv'
<1>1. /\ up' = Tail(up) /\ up # <<>> /\ link' = link
      /\ route' \subseteq {TesterAddress} /\ (route # {} => route' # {})
      /\ up[1] = buildRoutingActivationRequest => route' # {}
  BY ServerServes
<1>2. asked' = asked /\ automatic' = automatic /\ connecting' = connecting
  BY DEF ServerReacts, serverUnchanged, appVars
<1>3. up \in Seq(Requests)
  BY DEF RequestInv
<1>4. /\ up' \in Seq(Requests) /\ Len(up') = Len(up) - 1
      /\ \A i \in 1 .. Len(up') : up'[i] = up[i + 1]
      /\ Len(up) \in Nat /\ Len(up') \in Nat
  <2>1. /\ Tail(up) \in Seq(Requests) /\ Len(Tail(up)) = Len(up) - 1
        /\ \A i \in 1 .. Len(Tail(up)) : Tail(up)[i] = up[i + 1]
    BY ONLY <1>1, <1>3, HeadTailProperties
  <2>2. Len(up) \in Nat /\ Len(Tail(up)) \in Nat
    BY ONLY <1>3, <2>1, LenProperties
  <2>3. QED
    BY ONLY <1>1, <2>1, <2>2, Zenon
<1>5. ASSUME NEW i \in 1 .. Len(up') + 1, Activated(i + 1) PROVE Activated(i)'
  <2>1. CASE route' # {}
    BY ONLY <2>1, Zenon DEF Activated
  <2>2. CASE route' = {}
    <3>1. PICK j \in 1 .. (i + 1) - 1 : up[j] = buildRoutingActivationRequest
      BY ONLY <1>1, <1>5, <2>2, Zenon DEF Activated
    <3>2. j # 1
      BY ONLY <1>1, <2>2, <3>1, Zenon
    <3>3. PICK k : k = j - 1
      OBVIOUS
    <3>4. k \in 1 .. i - 1 /\ k \in 1 .. Len(up') /\ k + 1 = j
      BY ONLY <1>4, <3>1, <3>2, <3>3, i \in 1 .. Len(up') + 1
    <3>5. up'[k] = buildRoutingActivationRequest
      BY ONLY <1>4, <3>1, <3>4, Zenon
    <3>6. QED
      BY ONLY <3>4, <3>5, Zenon DEF Activated
  <2>3. QED
    BY ONLY <2>1, <2>2, Zenon
<1>6. link' = "up" /\ asked' => automatic' \/ Activated(Len(up) + 1)'
  <2>1. PICK n : n = Len(up') + 1
    OBVIOUS
  <2>2. n \in 1 .. Len(up') + 1 /\ n + 1 = Len(up) + 1
    BY ONLY <1>4, <2>1
  <2>3. link = "up" /\ asked => automatic \/ Activated(n + 1)
    BY ONLY <2>2, RequestInv, Zenon DEF RequestInv
  <2>4. link' = "up" /\ asked' => automatic' \/ Activated(n)'
    BY ONLY <1>1, <1>2, <1>5, <2>2, <2>3, Zenon
  <2>5. QED
    BY ONLY <2>1, <2>4, Zenon DEF Activated
<1>7. ASSUME NEW i \in 1 .. Len(up'), up'[i] = Diagnostic
      PROVE  automatic' \/ Activated(i)'
  <2>1. i \in 1 .. Len(up') + 1 /\ i + 1 \in 1 .. Len(up)
    BY ONLY <1>4, i \in 1 .. Len(up')
  <2>2. automatic \/ Activated(i + 1)
    BY ONLY <1>4, <1>7, <2>1, RequestInv, Zenon DEF RequestInv
  <2>3. QED
    BY ONLY <1>2, <1>5, <2>1, <2>2, Zenon
<1>8. connecting' => automatic' \/ ~asked'
  BY ONLY <1>2, RequestInv, Zenon DEF RequestInv
<1>9. QED
  BY ONLY <1>1, <1>4, <1>6, <1>7, <1>8, Zenon DEF RequestInv

LEMMA UdpFrame == Udp => UNCHANGED udpUnchanged
<1>1. startUdpConnection => UNCHANGED udpUnchanged
  BY DEF startUdpConnection
<1>2. closeUdpConnection => UNCHANGED udpUnchanged
  BY DEF closeUdpConnection
<1>3. \A address : sendVehicleIdentificationRequest(address)
                     => UNCHANGED udpUnchanged
  BY DEF sendVehicleIdentificationRequest
<1>4. \A d : ReceiveUdp(d) => UNCHANGED udpUnchanged
  BY DEF ReceiveUdp
<1>5. \A address : setSourceAddress(address) => UNCHANGED udpUnchanged
  BY DEF setSourceAddress
<1>6. QED
  BY ONLY <1>1, <1>2, <1>3, <1>4, <1>5, Zenon DEF Udp

(* the three senders *)
LEMMA Senders ==
  ASSUME sourceAddress \in Word,
         \/ sendRoutingActivationRequest \/ sendAliveCheckResponse
         \/ sendDiagnosticMessage(1)
  PROVE  \E request \in Requests :
           /\ Write(request)
           /\ \/ request = buildRoutingActivationRequest /\ asked' = TRUE
              \/ asked' = asked /\ (request = Diagnostic => asked)
<1>1. CASE sendRoutingActivationRequest
  <2>1. buildRoutingActivationRequest \in Requests
    BY DEF Requests
  <2>2. QED
    BY ONLY <1>1, <2>1, Zenon DEF sendRoutingActivationRequest
<1>2. CASE sendAliveCheckResponse
  <2>1. PICK r : r = AliveCheck(sourceAddress)
    OBVIOUS
  <2>2. r \in Requests
    BY <2>1 DEF Requests
  <2>3. r # Diagnostic
    BY ONLY <2>1, <2>2, RequestKinds, sourceAddress \in Word
  <2>4. Write(r) /\ asked' = asked
    BY ONLY <1>2, <2>1, Zenon DEF sendAliveCheckResponse, AliveCheck
  <2>5. QED
    BY ONLY <2>2, <2>3, <2>4, Zenon
<1>3. CASE sendDiagnosticMessage(1)
  <2>1. Diagnostic \in Requests
    BY DEF Requests
  <2>2. Write(Diagnostic) /\ asked' = asked /\ asked
    BY ONLY <1>3, Zenon DEF sendDiagnosticMessage, Diagnostic
  <2>3. QED
    BY ONLY <2>1, <2>2, Zenon
<1>4. QED
  BY <1>1, <1>2, <1>3

LEMMA RequestNext ==
  ASSUME RequestInv, Stream(down), sourceAddress \in Word, [Next]_vars
  PROVE  RequestInv'
<1>1. CASE Udp
  <2>1. UNCHANGED requestVars
    BY ONLY <1>1, UdpFrame DEF udpUnchanged, tcpVars, appVars, serverVars,
            wireVars, requestVars
  <2>2. QED
    BY <2>1, RequestFrame
<1>2. CASE startTcpConnection
  BY <1>2, OpenRequests DEF startTcpConnection
<1>3. CASE Connect
  <2>1. /\ connecting /\ ~connecting' /\ link' = "up" /\ up' = up
        /\ route' = route /\ asked' = asked /\ automatic' = automatic
    BY <1>3 DEF Connect, appVars, serverVars, wireVars
  <2>2. \A i : Activated(i)' <=> Activated(i)
    BY ONLY <2>1, Zenon DEF Activated
  <2>3. QED
    BY ONLY <2>1, <2>2, RequestInv, Zenon DEF RequestInv
<1>4. CASE closeTcpConnection
  <2>1. ~connecting' /\ link' # "up" /\ up' = <<>> /\ route' = {}
    BY <1>4 DEF closeTcpConnection, Idle, FreshSocket
  <2>2. QED
    BY <2>1, RequestFresh
<1>5. CASE \/ sendRoutingActivationRequest \/ sendAliveCheckResponse
           \/ sendDiagnosticMessage(1)
  BY ONLY <1>5, Senders, WriteRequests, RequestInv, sourceAddress \in Word
<1>6. ASSUME NEW n, ReceiveData(n) PROVE RequestInv'
  <2>1. UNCHANGED requestVars
    BY <1>6 DEF ReceiveData, receiveUnchanged, tcpVars, requestVars
  <2>2. QED
    BY <2>1, RequestFrame
<1>7. CASE ReceiveError
  <2>1. /\ up' = up /\ route' = route /\ connecting' = connecting
        /\ automatic' = automatic /\ asked' = asked
        /\ link' = "up" => link = "up"
    BY <1>7 DEF ReceiveError, receiveUnchanged, wireVars
  <2>2. \A i : Activated(i)' <=> Activated(i)
    BY ONLY <2>1, Zenon DEF Activated
  <2>3. QED
    BY ONLY <2>1, <2>2, RequestInv, Zenon DEF RequestInv
<1>8. CASE ReceiveEmpty
  <2>1. CountEmptyMessage /\ asked' = asked
    BY <1>8 DEF ReceiveEmpty, receiveUnchanged
  <2>2. \/ reconnectServer
        \/ UNCHANGED <<link, connecting, automatic, wireVars, route>>
    BY <2>1 DEF CountEmptyMessage
  <2>3. CASE reconnectServer
    BY <2>3, OpenRequests DEF reconnectServer
  <2>4. CASE UNCHANGED <<link, connecting, automatic, wireVars, route>>
    BY <2>1, <2>4, RequestFrame DEF wireVars, requestVars
  <2>5. QED
    BY <2>2, <2>3, <2>4
<1>9. CASE ServerReacts
  BY <1>9, ReactRequests
<1>10. CASE ServerStarts
  BY <1>10, RequestFrame DEF ServerStarts, tcpVars, appVars, wireVars, requestVars
<1>11. ASSUME NEW goesDown, ServerEnds(goesDown) PROVE RequestInv'
  <2>1. /\ up' = <<>> /\ route' = {} /\ link' # "up"
        /\ connecting' = connecting /\ automatic' = automatic /\ asked' = asked
    BY <1>11 DEF ServerEnds, EndConnection, serverUnchanged, appVars
  <2>2. connecting' => automatic' \/ ~asked'
    BY ONLY <2>1, RequestInv, Zenon DEF RequestInv
  <2>3. QED
    BY ONLY <2>1, <2>2, RequestFresh
<1>12. CASE UNCHANGED vars
  BY <1>12, RequestFrame
     DEF vars, tcpVars, appVars, serverVars, wireVars, requestVars
<1>13. CASE receiveMessage
  BY ONLY <1>6, <1>7, <1>8, <1>13, Zenon DEF receiveMessage
<1>14. CASE Tcp
  BY ONLY <1>2, <1>3, <1>4, <1>5, <1>13, <1>14, Zenon DEF Tcp
<1>15. CASE Server
  BY ONLY <1>9, <1>10, <1>11, <1>15, Zenon DEF Server
<1>16. QED
  BY ONLY <1>1, <1>12, <1>14, <1>15, [Next]_vars, Zenon DEF Next

LEMMA StreamFrame ==
  ASSUME StreamInv, down' = down, link' = "unconnected" => link = "unconnected"
  PROVE  StreamInv'
<1>1. Stream(down)' <=> Stream(down)
  BY ONLY down' = down, Zenon
<1>2. QED
  BY ONLY <1>1, StreamInv, down' = down, Zenon,
          link' = "unconnected" => link = "unconnected" DEF StreamInv

LEMMA EmptyStream == Stream(<<>>)
<1>1. <<>> \in Seq(WireByte) /\ Len(<<>>) = 0
  BY EmptySeq
<1>2. \A i \in 1 .. Len(<<>>) : FALSE
  BY ONLY <1>1
<1>3. QED
  BY ONLY <1>1, <1>2, Zenon DEF Stream

LEMMA StreamFresh ==
  ASSUME FreshSocket
  PROVE  StreamInv'
<1>1. down' = <<>>
  BY DEF FreshSocket
<1>2. QED
  BY ONLY <1>1, EmptyStream, Zenon DEF StreamInv

(* A step that is not a read leaves what is under way, adds to it, or drops *)
(* it all with the connection.                                              *)
LEMMA StreamNext ==
  ASSUME RequestInv, StreamInv, ReadSizes \subseteq Nat, [Next]_vars
  PROVE  StreamInv'
<1>1. CASE Udp
  BY <1>1, UdpFrame, StreamFrame DEF udpUnchanged, tcpVars, wireVars
<1>2. CASE startTcpConnection \/ closeTcpConnection
  BY <1>2, StreamFresh DEF startTcpConnection, closeTcpConnection
<1>3. CASE Connect
  BY <1>3, StreamFrame DEF Connect, wireVars
<1>4. ASSUME NEW request, Write(request) PROVE StreamInv'
  BY <1>4, StreamFrame DEF Write
<1>5. CASE \/ sendRoutingActivationRequest \/ sendAliveCheckResponse
           \/ sendDiagnosticMessage(1)
  BY <1>4, <1>5 DEF sendRoutingActivationRequest, sendAliveCheckResponse,
                    sendDiagnosticMessage
<1>6. ASSUME NEW n \in Nat, n > 0, ReceiveData(n) PROVE StreamInv'
  <2>1. /\ n <= Len(down) /\ down' = SubSeq(down, n + 1, Len(down))
        /\ link' = link
    BY <1>6 DEF ReceiveData, tcpVars
  <2>2. Stream(down) /\ Len(down) \in Nat
    BY LenProperties DEF StreamInv, Stream
  <2>3. n \in 0 .. Len(down)
    BY ONLY <2>1, <2>2, n \in Nat
  <2>4. Stream(SubSeq(down, n + 1, Len(down)))
    BY ONLY <2>2, <2>3, StreamCut
  <2>5. down # <<>>
    <3>1. Len(down) # 0
      BY ONLY <2>1, <2>2, <1>6
    <3>2. QED
      BY ONLY <3>1
  <2>6. link' # "unconnected"
    BY <2>1, <2>5 DEF StreamInv
  <2>7. QED
    BY ONLY <2>1, <2>4, <2>6, Zenon DEF StreamInv
<1>7. CASE ReceiveError
  BY <1>7, StreamFrame DEF ReceiveError, wireVars
<1>8. CASE ReceiveEmpty
  <2>1. CountEmptyMessage
    BY <1>8 DEF ReceiveEmpty
  <2>2. FreshSocket \/ UNCHANGED <<link, wireVars>>
    BY <2>1 DEF CountEmptyMessage, reconnectServer
  <2>3. QED
    BY <2>2, StreamFresh, StreamFrame DEF wireVars
<1>9. CASE receiveMessage
  <2>1. CASE \E n \in ReadSizes \cup {Shortest(Len(down), MaxDataSize)} :
               n > 0 /\ ReceiveData(n)
    <3>1. Shortest(Len(down), MaxDataSize) \in Nat
      <4>1. Len(down) \in Nat
        BY LenProperties DEF StreamInv, Stream
      <4>2. QED
        BY ONLY <4>1 DEF Shortest, MaxDataSize
    <3>2. QED
      BY <1>6, <2>1, <3>1
  <2>2. QED
    BY <1>7, <1>8, <1>9, <2>1 DEF receiveMessage
<1>10. CASE ServerReacts
  <2>1. Stream(down) /\ link = "up"
    BY <1>10 DEF StreamInv, ServerReacts
  <2>2. Stream(down') /\ link' = link
    BY ONLY <1>10, <2>1, RequestInv, ServerServes
  <2>3. QED
    BY <2>1, <2>2 DEF StreamInv
<1>11. CASE ServerStarts
  BY <1>11, StreamFrame DEF ServerStarts, tcpVars, wireVars
<1>12. ASSUME NEW goesDown, ServerEnds(goesDown) PROVE StreamInv'
  BY <1>12, StreamFrame DEF ServerEnds, EndConnection
<1>13. CASE UNCHANGED vars
  BY <1>13, StreamFrame DEF vars, tcpVars, wireVars
<1>14. QED
  BY <1>1, <1>2, <1>3, <1>5, <1>9, <1>10, <1>11, <1>12, <1>13
     DEF Next, Tcp, Server

-----------------------------------------------------------------------------
(* The kinds of the other variables. *)

TcpKinds ==
  /\ sockFd \in {"none", "open", "failed"} /\ link \in Link
  /\ connecting \in BOOLEAN /\ emptyMessageCounter \in 0 .. 4
  /\ serverAddr \in Hosts /\ dialled \subseteq Hosts
UdpKinds == sockFd_udp \in {"none", "open"} /\ sourceAddress \in Word
ReadKinds == receivedData \in Bytes(CodeIndex + 1) /\ printed \subseteq Ack
AppKinds ==
  /\ asked \in BOOLEAN /\ automatic \in BOOLEAN /\ dead \in BOOLEAN
  /\ sent \in 0 .. MaxRequests
ServerKinds ==
  /\ server \in {"up", "down"} /\ objections \subseteq Objection
  /\ ends \in 0 .. MaxEnds

ClientInv ==
  /\ TcpKinds /\ UdpKinds /\ ReadKinds /\ AppKinds /\ ServerKinds
  /\ RequestInv /\ StreamInv

LEMMA BoundKinds == ReadSizes \subseteq Nat /\ MaxRequests \in Nat /\ MaxEnds \in Nat
<1>1. 1 .. MaxDataSize \subseteq Nat
  BY DEF MaxDataSize
<1>2. QED
  BY <1>1, ClientBoundsAssumption, Zenon

LEMMA OpenKinds ==
  ASSUME TcpKinds, OpenSocket, UNCHANGED dialled, link' = "unconnected",
         emptyMessageCounter' \in 0 .. 4
  PROVE  TcpKinds'
  BY DEF TcpKinds, OpenSocket, Link, Hosts

LEMMA TcpKindsNext ==
  ASSUME ClientInv, [Next]_vars
  PROVE  TcpKinds'
<1> USE DEF TcpKinds
<1>1. TcpKinds
  BY DEF ClientInv
<1>2. CASE Udp
  <2>1. UNCHANGED tcpVars
    BY <1>2, UdpFrame DEF udpUnchanged
  <2>2. serverAddr' \in Hosts
    BY <1>1, <1>2 DEF Udp, startUdpConnection, closeUdpConnection, Hosts,
         sendVehicleIdentificationRequest, ReceiveUdp, setSourceAddress
  <2>3. QED
    BY ONLY <1>1, <2>1, <2>2 DEF tcpVars, TcpKinds
<1>3. CASE startTcpConnection
  BY <1>1, <1>3, OpenKinds DEF startTcpConnection, FreshSocket
<1>4. CASE Connect
  BY <1>1, <1>4 DEF Connect, Link
<1>5. CASE closeTcpConnection
  BY <1>1, <1>5 DEF closeTcpConnection, FreshSocket, Link
<1>6. ASSUME NEW request, Write(request) PROVE TcpKinds'
  BY <1>1, <1>6 DEF Write, Link
<1>7. CASE \/ sendRoutingActivationRequest \/ sendAliveCheckResponse
           \/ sendDiagnosticMessage(1)
  BY ONLY <1>6, <1>7 DEF sendRoutingActivationRequest, sendAliveCheckResponse,
                         sendDiagnosticMessage
<1>8. ASSUME NEW n, ReceiveData(n) PROVE TcpKinds'
  BY <1>1, <1>8 DEF ReceiveData, tcpVars
<1>9. CASE ReceiveError
  BY <1>1, <1>9 DEF ReceiveError, Link
<1>10. CASE ReceiveEmpty
  <2>1. CountEmptyMessage
    BY <1>10 DEF ReceiveEmpty
  <2>2. \/ emptyMessageCounter' = 0 /\ reconnectServer
        \/ /\ emptyMessageCounter + 1 # 5
           /\ emptyMessageCounter' = emptyMessageCounter + 1
           /\ UNCHANGED <<sockFd, link, connecting, dialled, serverAddr>>
    BY <2>1 DEF CountEmptyMessage, MaxEmptyMessages
  <2>3. CASE emptyMessageCounter' = 0 /\ reconnectServer
    BY <1>1, <2>3, OpenKinds DEF reconnectServer, FreshSocket
  <2>4. CASE /\ emptyMessageCounter + 1 # 5
             /\ emptyMessageCounter' = emptyMessageCounter + 1
             /\ UNCHANGED <<sockFd, link, connecting, dialled, serverAddr>>
    BY <1>1, <2>4
  <2>5. QED
    BY <2>2, <2>3, <2>4
<1>11. CASE ServerReacts
  <2>1. link' = link
    BY <1>11, ServerServes DEF ClientInv, StreamInv
  <2>2. UNCHANGED <<sockFd, connecting, emptyMessageCounter, dialled, serverAddr>>
    BY <1>11 DEF ServerReacts, serverUnchanged
  <2>3. QED
    BY <1>1, <2>1, <2>2
<1>12. CASE ServerStarts
  BY <1>1, <1>12 DEF ServerStarts, tcpVars
<1>13. ASSUME NEW goesDown, ServerEnds(goesDown) PROVE TcpKinds'
  BY <1>1, <1>13 DEF ServerEnds, EndConnection, serverUnchanged, Link
<1>14. CASE UNCHANGED vars
  BY <1>1, <1>14 DEF vars, tcpVars
<1>15. QED
  BY <1>2, <1>3, <1>4, <1>5, <1>7, <1>8, <1>9, <1>10, <1>11, <1>12, <1>13, <1>14
     DEF Next, Tcp, Server, receiveMessage

(* only setSourceAddress writes the address, and only UDP its socket *)
LEMMA UdpKindsNext ==
  ASSUME UdpKinds, [Next]_vars
  PROVE  UdpKinds'
<1>1. CASE Udp
  <2>1. \/ sockFd_udp' \in {"none", "open"} /\ sourceAddress' = sourceAddress
        \/ UNCHANGED udpVars
        \/ setSourceAddress(TesterAddress + 1)
    BY ONLY <1>1, Zenon
       DEF Udp, startUdpConnection, closeUdpConnection, ReceiveUdp,
           sendVehicleIdentificationRequest
  <2>2. QED
    BY <2>1, WordConstants DEF setSourceAddress, udpVars, UdpKinds
<1>2. CASE Tcp
  <2>1. UNCHANGED udpVars
    <3>1. \A request : Write(request) => UNCHANGED udpVars
      BY DEF Write
    <3>2. \A n : ReceiveData(n) => UNCHANGED udpVars
      BY DEF ReceiveData, receiveUnchanged
    <3>3. QED
      BY <1>2, <3>1, <3>2
         DEF Tcp, startTcpConnection, Connect, closeTcpConnection,
             sendRoutingActivationRequest, sendAliveCheckResponse,
             sendDiagnosticMessage, receiveMessage, ReceiveError, ReceiveEmpty,
             receiveUnchanged
  <2>2. QED
    BY <2>1 DEF udpVars, UdpKinds
<1>3. CASE Server
  <2>1. UNCHANGED udpVars
    BY <1>3 DEF Server, ServerReacts, ServerStarts, ServerEnds, serverUnchanged
  <2>2. QED
    BY <2>1 DEF udpVars, UdpKinds
<1>4. CASE UNCHANGED vars
  BY <1>4 DEF vars, udpVars, UdpKinds
<1>5. QED
  BY <1>1, <1>2, <1>3, <1>4 DEF Next

(* what a read leaves in the buffer, and what it prints *)
LEMMA ReceivedKind ==
  ASSUME NEW buffer \in Bytes(CodeIndex + 1), NEW message, NEW size \in Nat,
         \A i \in 0 .. size - 1 : message[i] \in Byte
  PROVE  Received(buffer, message, size) \in Bytes(CodeIndex + 1)
<1>1. PICK D : D = 0 .. (CodeIndex + 1) - 1
  OBVIOUS
<1>2. D \subseteq Nat
  BY <1>1 DEF CodeIndex
<1>3. Bytes(CodeIndex + 1) = [D -> Byte]
  BY ONLY <1>1, Zenon DEF Bytes
<1>4. buffer \in [D -> Byte]
  BY ONLY <1>3, Zenon, buffer \in Bytes(CodeIndex + 1)
<1>5. Received(buffer, message, size)
        = [i \in D |-> IF i < size THEN message[i] ELSE buffer[i]]
  BY ONLY <1>4 DEF Received
<1>6. ASSUME NEW i \in D
      PROVE  (IF i < size THEN message[i] ELSE buffer[i]) \in Byte
  <2>1. i < size => i \in 0 .. size - 1
    BY ONLY <1>2, size \in Nat, i \in D
  <2>2. buffer[i] \in Byte
    BY ONLY <1>4, i \in D
  <2>3. QED
    BY ONLY <2>1, <2>2, Zenon, \A j \in 0 .. size - 1 : message[j] \in Byte
<1>7. Received(buffer, message, size) \in [D -> Byte]
  BY ONLY <1>5, <1>6, Zenon
<1>8. QED
  BY ONLY <1>3, <1>7, Zenon

LEMMA AcknowledgeKind ==
  ASSUME NEW data \in Bytes(CodeIndex + 1), NEW size, NEW p \in Acknowledge(data, size)
  PROVE  p \subseteq Ack
<1>1. data[CodeIndex] \in Byte
  BY DEF Bytes, CodeIndex
<1>2. PICK a \in parseGenericHeader(data, size) :
        p = IF a.type \in AckTypes
              THEN {[type |-> a.type, code |-> data[CodeIndex]]} ELSE {}
  BY DEF Acknowledge, AckTypes
<1>3. QED
  BY ONLY <1>1, <1>2 DEF Ack, AckTypes

LEMMA ReadKindsNext ==
  ASSUME ClientInv, [Next]_vars
  PROVE  ReadKinds'
<1> USE DEF ReadKinds
<1>1. ReadKinds /\ Stream(down)
  BY DEF ClientInv, StreamInv
<1>2. ASSUME Quiet, UNCHANGED receivedData PROVE ReadKinds'
  BY <1>1, <1>2 DEF Quiet
<1>3. ASSUME UNCHANGED readVars PROVE ReadKinds'
  BY <1>1, <1>3 DEF readVars
<1>4. ASSUME NEW d \in Datagrams, ReceiveUdp(d) PROVE ReadKinds'
  <2>1. d \in Seq(Byte)
    BY ClientBoundsAssumption
  <2>2. PICK m : m = [i \in 0 .. Len(d) - 1 |-> d[i + 1]]
    OBVIOUS
  <2>3. receivedData' = Received(receivedData, m, Len(d)) /\ printed' = {}
    BY <1>4, <2>2 DEF ReceiveUdp, Quiet
  <2>4. Len(d) \in Nat
    BY ONLY <2>1, LenProperties
  <2>5. ASSUME NEW i \in 0 .. Len(d) - 1 PROVE m[i] \in Byte
    <3>1. i + 1 \in 1 .. Len(d)
      BY ONLY <2>4, i \in 0 .. Len(d) - 1
    <3>2. m[i] = d[i + 1]
      BY ONLY <2>2, i \in 0 .. Len(d) - 1
    <3>3. QED
      BY ONLY <2>1, <3>1, <3>2, ElementOfSeq
  <2>6. receivedData' \in Bytes(CodeIndex + 1)
    BY ONLY <1>1, <2>3, <2>4, <2>5, ReceivedKind DEF ReadKinds
  <2>7. QED
    BY ONLY <2>3, <2>6 DEF ReadKinds
<1>5. CASE Udp
  BY <1>2, <1>4, <1>5
     DEF Udp, startUdpConnection, closeUdpConnection,
         sendVehicleIdentificationRequest, setSourceAddress
<1>6. CASE startTcpConnection \/ closeTcpConnection \/ ReceiveEmpty
  BY <1>2, <1>6 DEF startTcpConnection, closeTcpConnection, ReceiveEmpty
<1>7. CASE Connect
  BY <1>3, <1>7 DEF Connect
<1>8. CASE \/ sendRoutingActivationRequest \/ sendAliveCheckResponse
           \/ sendDiagnosticMessage(1)
  <2>1. \A request : Write(request) => Quiet /\ UNCHANGED receivedData
    BY DEF Write
  <2>2. QED
    BY <1>2, <1>8, <2>1 DEF sendRoutingActivationRequest, sendAliveCheckResponse,
                            sendDiagnosticMessage
<1>9. ASSUME NEW n \in Nat, ReceiveData(n) PROVE ReadKinds'
  <2>1. down \in Seq(WireByte) /\ Len(down) \in Nat
    BY <1>1, LenProperties DEF Stream
  <2>2. PICK m : m = [i \in 0 .. n - 1 |-> down[i + 1].byte]
    OBVIOUS
  <2>3. /\ receivedData' = Received(receivedData, m, n) /\ n <= Len(down)
        /\ printed' \in Acknowledge(receivedData', n)
    BY <1>9, <2>2 DEF ReceiveData
  <2>4. ASSUME NEW i \in 0 .. n - 1 PROVE m[i] \in Byte
    <3>1. i + 1 \in 1 .. Len(down)
      BY ONLY <2>1, <2>3, i \in 0 .. n - 1, n \in Nat
    <3>2. m[i] = down[i + 1].byte
      BY ONLY <2>2, i \in 0 .. n - 1
    <3>3. down[i + 1] \in WireByte
      BY ONLY <2>1, <3>1, ElementOfSeq
    <3>4. QED
      BY ONLY <3>2, <3>3 DEF WireByte
  <2>5. receivedData' \in Bytes(CodeIndex + 1)
    BY ONLY <1>1, <2>3, <2>4, ReceivedKind, n \in Nat DEF ReadKinds
  <2>6. QED
    BY ONLY <2>3, <2>5, AcknowledgeKind DEF ReadKinds
<1>10. CASE ReceiveError
  <2>1. receivedData' = receivedData /\ printed' \in Acknowledge(receivedData, -1)
    BY <1>10 DEF ReceiveError
  <2>2. QED
    BY ONLY <1>1, <2>1, AcknowledgeKind DEF ReadKinds
<1>11. CASE receiveMessage
  <2>1. Shortest(Len(down), MaxDataSize) \in Nat
    <3>1. Len(down) \in Nat
      BY <1>1, LenProperties DEF Stream
    <3>2. QED
      BY ONLY <3>1 DEF Shortest, MaxDataSize
  <2>2. QED
    BY <1>6, <1>9, <1>10, <1>11, <2>1, BoundKinds DEF receiveMessage
<1>12. CASE Server
  BY <1>3, <1>12 DEF Server, ServerReacts, ServerStarts, ServerEnds, serverUnchanged
<1>13. CASE UNCHANGED vars
  BY <1>3, <1>13 DEF vars
<1>14. QED
  BY <1>5, <1>6, <1>7, <1>8, <1>11, <1>12, <1>13 DEF Next, Tcp

LEMMA AppKindsNext ==
  ASSUME AppKinds, [Next]_vars
  PROVE  AppKinds'
<1> USE DEF AppKinds
<1>1. ASSUME UNCHANGED appVars PROVE AppKinds'
  BY <1>1 DEF appVars
<1>2. CASE Udp \/ Server \/ UNCHANGED vars
  <2>1. UNCHANGED appVars
    BY <1>2, UdpFrame DEF udpUnchanged, Server, ServerReacts, ServerStarts,
                          ServerEnds, serverUnchanged, vars
  <2>2. QED
    BY <1>1, <2>1
<1>3. CASE startTcpConnection
  BY <1>3 DEF startTcpConnection
<1>4. CASE Connect \/ closeTcpConnection
  BY <1>1, <1>4 DEF Connect, closeTcpConnection
<1>5. ASSUME NEW request, Write(request), asked' = TRUE \/ asked' = asked
      PROVE  AppKinds'
  <2>1. sent' \in 0 .. MaxRequests
    BY <1>5, BoundKinds DEF Write
  <2>2. dead' \in BOOLEAN /\ automatic' = automatic
    BY <1>5 DEF Write
  <2>3. QED
    BY <1>5, <2>1, <2>2
<1>6. CASE \/ sendRoutingActivationRequest \/ sendAliveCheckResponse
           \/ sendDiagnosticMessage(1)
  BY <1>5, <1>6 DEF sendRoutingActivationRequest, sendAliveCheckResponse,
                    sendDiagnosticMessage
<1>7. CASE receiveMessage
  <2>1. UNCHANGED <<asked, dead, sent>> /\ (automatic' = TRUE \/ automatic' = automatic)
    <3>1. \A n : ReceiveData(n) => UNCHANGED appVars
      BY DEF ReceiveData, receiveUnchanged, appVars
    <3>2. QED
      BY <1>7, <3>1 DEF receiveMessage, ReceiveError, ReceiveEmpty, appVars,
           receiveUnchanged, CountEmptyMessage, reconnectServer
  <2>2. QED
    BY <2>1
<1>8. QED
  BY <1>2, <1>3, <1>4, <1>6, <1>7 DEF Next, Tcp

LEMMA NotedKinds ==
  ASSUME automatic \in BOOLEAN
  PROVE  /\ Noted("unknown type", AliveCheckResponseType) \in Objection
         /\ Noted("unrouted", DiagnosticMessageType) \in Objection
<1>1. AliveCheckResponseType \in Word /\ DiagnosticMessageType \in Word
  BY WordConstants DEF AliveCheckResponseType, DiagnosticMessageType
<1>2. QED
  BY ONLY <1>1, automatic \in BOOLEAN, Zenon DEF Noted, Objection

LEMMA ServerKindsNext ==
  ASSUME ClientInv, [Next]_vars
  PROVE  ServerKinds'
<1> USE DEF ServerKinds
<1>1. ServerKinds
  BY DEF ClientInv
<1>2. ASSUME UNCHANGED <<server, objections, ends>> PROVE ServerKinds'
  BY <1>1, <1>2
<1>3. CASE Udp \/ Tcp \/ UNCHANGED vars
  <2>1. CASE Udp \/ UNCHANGED vars
    BY <1>2, <2>1, UdpFrame DEF udpUnchanged, serverVars, vars
  <2>2. CASE Tcp
    <3>1. \A n : ReceiveData(n) => UNCHANGED receiveUnchanged
      BY DEF ReceiveData
    <3>2. \A request : Write(request) => UNCHANGED serverVars
      BY DEF Write
    <3>3. UNCHANGED <<server, objections, ends>>
      BY <2>2, <3>1, <3>2
         DEF Tcp, startTcpConnection, Connect, closeTcpConnection, serverVars,
             sendRoutingActivationRequest, sendAliveCheckResponse,
             sendDiagnosticMessage, receiveMessage, ReceiveError, ReceiveEmpty,
             receiveUnchanged
    <3>4. QED
      BY <1>2, <3>3
  <2>3. QED
    BY <1>3, <2>1, <2>2
<1>4. CASE ServerReacts
  <2>1. /\ ends' = ends
        /\ \/ objections' = objections
           \/ objections' = objections \cup
                {Noted("unknown type", AliveCheckResponseType)}
           \/ objections' = objections \cup
                {Noted("unrouted", DiagnosticMessageType)}
    BY <1>4, ServerServes DEF ClientInv, StreamInv
  <2>2. server' = server
    BY <1>4 DEF ServerReacts
  <2>3. QED
    BY <1>1, <2>1, <2>2, NotedKinds DEF ClientInv, AppKinds
<1>5. CASE ServerStarts
  BY <1>1, <1>5 DEF ServerStarts
<1>6. ASSUME NEW goesDown, ServerEnds(goesDown) PROVE ServerKinds'
  BY <1>1, <1>6, BoundKinds DEF ServerEnds, EndConnection
<1>7. QED
  BY <1>3, <1>4, <1>5, <1>6 DEF Next, Server

-----------------------------------------------------------------------------
(* What the client promises. *)

LEMMA ClientInit == Init => ClientInv
<1> SUFFICES ASSUME Init PROVE ClientInv
  OBVIOUS
<1>1. Unwritten \in Byte
  <2>1. GarbageByte # {}
    BY GarbageAssumption DEF GarbageByte
  <2>2. Unwritten \in GarbageByte
    BY ONLY <2>1, Zenon DEF Unwritten
  <2>3. QED
    BY <2>2, GarbageKind
<1>2. TcpKinds
  <2>1. connecting \in BOOLEAN
    BY Zenon DEF Init
  <2>2. /\ sockFd = "none" /\ link = "unconnected" /\ emptyMessageCounter = 0
        /\ serverAddr = "none" /\ dialled = {}
    BY Zenon DEF Init
  <2>3. QED
    BY ONLY <2>1, <2>2 DEF TcpKinds, Link, Hosts
<1>3. UdpKinds
  BY GarbageKind DEF Init, UdpKinds
<1>4. ReadKinds
  <2>1. PICK D : D = 0 .. CodeIndex
    OBVIOUS
  <2>2. D = 0 .. (CodeIndex + 1) - 1
    BY <2>1 DEF CodeIndex
  <2>3. receivedData = [i \in D |-> Unwritten] /\ printed = {}
    BY <2>1 DEF Init
  <2>4. receivedData \in [D -> Byte]
    BY ONLY <1>1, <2>3
  <2>5. receivedData \in Bytes(CodeIndex + 1)
    BY ONLY <2>2, <2>4, Zenon DEF Bytes
  <2>6. QED
    BY ONLY <2>3, <2>5 DEF ReadKinds
<1>5. AppKinds
  <2>1. asked \in BOOLEAN /\ automatic \in BOOLEAN /\ dead \in BOOLEAN
    BY Zenon DEF Init
  <2>2. sent = 0
    BY Zenon DEF Init
  <2>3. QED
    BY ONLY <2>1, <2>2, BoundKinds DEF AppKinds
<1>6. ServerKinds
  BY BoundKinds DEF Init, ServerKinds
<1>7. RequestInv
  <2>1. /\ up = <<>> /\ route = {} /\ ~connecting /\ link # "up"
    BY DEF Init
  <2>2. up \in Seq(Requests) /\ Len(up) = 0
    BY ONLY <2>1, EmptySeq
  <2>3. \A i \in 1 .. Len(up) : FALSE
    BY ONLY <2>2
  <2>4. route \subseteq {TesterAddress}
    BY ONLY <2>1
  <2>5. QED
    BY ONLY <2>1, <2>2, <2>3, <2>4, Zenon DEF RequestInv
<1>8. StreamInv
  <2>1. down = <<>>
    BY DEF Init
  <2>2. QED
    BY ONLY <2>1, EmptyStream, Zenon DEF StreamInv
<1>9. QED
  BY <1>2, <1>3, <1>4, <1>5, <1>6, <1>7, <1>8 DEF ClientInv

LEMMA ClientNext == ClientInv /\ [Next]_vars => ClientInv'
<1> SUFFICES ASSUME ClientInv, [Next]_vars PROVE ClientInv'
  OBVIOUS
<1>1. /\ UdpKinds /\ AppKinds /\ RequestInv /\ StreamInv /\ Stream(down)
      /\ sourceAddress \in Word /\ ReadSizes \subseteq Nat
  BY BoundKinds DEF ClientInv, StreamInv, UdpKinds
<1>2. TcpKinds' /\ ReadKinds' /\ ServerKinds'
  BY TcpKindsNext, ReadKindsNext, ServerKindsNext
<1>3. UdpKinds' /\ AppKinds'
  BY <1>1, UdpKindsNext, AppKindsNext
<1>4. RequestInv' /\ StreamInv'
  BY <1>1, RequestNext, StreamNext
<1>5. QED
  BY <1>2, <1>3, <1>4 DEF ClientInv

(* The counter of empty messages stays below its limit between two calls    *)
(* and every variable keeps its kind, whatever arrives, in pieces of any    *)
(* size.                                                                    *)
THEOREM ClientTypeCorrect == Spec => []TypeOK
<1>1. ClientInv => TypeOK
  <2> SUFFICES ASSUME ClientInv PROVE TypeOK
    OBVIOUS
  <2>1. up \in Seq(Seq(Byte))
    <3>1. Requests \subseteq Seq(Byte)
      BY RequestKinds
    <3>2. up \in Seq(Requests)
      BY DEF ClientInv, RequestInv
    <3>3. QED
      BY ONLY <3>1, <3>2, SeqMonotonic
  <2>2. down \in Seq(WireByte)
    BY DEF ClientInv, StreamInv, Stream
  <2>3. route \subseteq Word
    BY WordConstants DEF ClientInv, RequestInv
  <2>4. TcpKinds /\ UdpKinds /\ ReadKinds /\ AppKinds /\ ServerKinds
    BY DEF ClientInv
  <2>5. QED
    BY ONLY <2>1, <2>2, <2>3, <2>4, Zenon
       DEF TypeOK, TcpKinds, UdpKinds, ReadKinds, AppKinds, ServerKinds
<1>2. QED
  BY ClientInit, ClientNext, <1>1, PTL DEF Spec

(* What the server objects to is excused. *)
LEMMA ServedStep ==
  ASSUME ClientInv, TesterServed, [Next]_vars
  PROVE  TesterServed'
<1>1. ASSUME UNCHANGED objections PROVE TesterServed'
  BY <1>1 DEF TesterServed, Excused
<1>2. CASE Udp \/ UNCHANGED vars
  BY <1>1, <1>2, UdpFrame DEF udpUnchanged, serverVars, vars
<1>3. CASE Tcp
  <2>1. \A n : ReceiveData(n) => UNCHANGED objections
    BY DEF ReceiveData, receiveUnchanged
  <2>2. \A request : Write(request) => UNCHANGED objections
    BY DEF Write, serverVars
  <2>3. UNCHANGED objections
    BY <1>3, <2>1, <2>2
       DEF Tcp, startTcpConnection, Connect, closeTcpConnection, serverVars,
           sendRoutingActivationRequest, sendAliveCheckResponse,
           sendDiagnosticMessage, receiveMessage, ReceiveError, ReceiveEmpty,
           receiveUnchanged
  <2>4. QED
    BY <1>1, <2>3
<1>4. CASE ServerReacts
  <2>1. \/ objections' = objections
        \/ objections' = objections \cup
             {Noted("unknown type", AliveCheckResponseType)}
        \/ automatic /\ objections' = objections \cup
             {Noted("unrouted", DiagnosticMessageType)}
    BY <1>4, ServerServes DEF ClientInv, StreamInv
  <2>2. Excused(Noted("unknown type", AliveCheckResponseType))
    BY Zenon DEF Excused, Noted
  <2>3. automatic => Excused(Noted("unrouted", DiagnosticMessageType))
    BY Zenon DEF Excused, Noted
  <2>4. ASSUME NEW o \in objections' PROVE Excused(o)
    <3>1. \/ o \in objections
          \/ o = Noted("unknown type", AliveCheckResponseType)
          \/ automatic /\ o = Noted("unrouted", DiagnosticMessageType)
      BY ONLY <2>1, <2>4
    <3>2. \A q \in objections : Excused(q)
      BY ONLY TesterServed DEF TesterServed
    <3>3. QED
      BY ONLY <2>2, <2>3, <3>1, <3>2, Zenon
  <2>5. QED
    BY ONLY <2>4, Zenon DEF TesterServed, Excused
<1>5. CASE ServerStarts
  BY <1>1, <1>5 DEF ServerStarts
<1>6. ASSUME NEW goesDown, ServerEnds(goesDown) PROVE TesterServed'
  BY <1>1, <1>6 DEF ServerEnds
<1>7. QED
  BY <1>2, <1>3, <1>4, <1>5, <1>6 DEF Next, Server

(* The library's server grants what the library's client asks for, in       *)
(* whatever order the application calls the client's methods, provided that *)
(* it asks for an activation before its first diagnostic message.  The      *)
(* exceptions are every alive check response, and diagnostic messages on a  *)
(* connection that the client re-established by itself.                     *)
THEOREM TesterServedCorrect == Spec => []TesterServed
<1>1. Init => TesterServed
  BY DEF Init, TesterServed
<1>2. ClientInv /\ TesterServed /\ [Next]_vars => TesterServed'
  BY ServedStep
<1>3. QED
  BY ClientInit, ClientNext, <1>1, <1>2, PTL DEF Spec

(* The bytes of the buffer that a read has filled, and what the parser      *)
(* makes of them.                                                           *)
LEMMA FilledBytes ==
  ASSUME NEW buffer \in Bytes(CodeIndex + 1), NEW q, NEW n \in Nat, n >= 8,
         NEW data, data = Received(buffer, [i \in 0 .. n - 1 |-> q[i + 1].byte], n)
  PROVE  /\ parseGenericHeader(data, n) = parseGenericHeader(HeaderOf(q, 1), 8)
         /\ n >= 13 => data[CodeIndex] = q[1 + 12].byte
<1>1. PICK m : m = [i \in 0 .. n - 1 |-> q[i + 1].byte]
  OBVIOUS
<1>2. PICK D : D = 0 .. (CodeIndex + 1) - 1
  OBVIOUS
<1>3. DOMAIN buffer = D
  BY ONLY <1>2, buffer \in Bytes(CodeIndex + 1) DEF Bytes
<1>4. data = [i \in D |-> IF i < n THEN m[i] ELSE buffer[i]]
  <2>1. data = Received(buffer, m, n)
    BY ONLY <1>1, Zenon,
            data = Received(buffer, [i \in 0 .. n - 1 |-> q[i + 1].byte], n)
  <2>2. QED
    BY ONLY <1>3, <2>1 DEF Received
<1>5. ASSUME NEW i \in D, i < n PROVE data[i] = q[i + 1].byte
  <2>1. i \in 0 .. n - 1
    <3>1. i \in Nat
      BY <1>2 DEF CodeIndex
    <3>2. QED
      BY ONLY <1>5, <3>1, n \in Nat
  <2>2. data[i] = m[i]
    BY ONLY <1>4, <1>5, Zenon
  <2>3. m[i] = q[i + 1].byte
    BY ONLY <1>1, <2>1, Zenon
  <2>4. QED
    BY ONLY <2>2, <2>3
<1>6. /\ 0 \in D /\ 1 \in D /\ 2 \in D /\ 3 \in D /\ 4 \in D /\ 5 \in D
      /\ 6 \in D /\ 7 \in D /\ 12 \in D
  BY <1>2 DEF CodeIndex
<1>7. /\ 0 < n /\ 1 < n /\ 2 < n /\ 3 < n /\ 4 < n /\ 5 < n /\ 6 < n /\ 7 < n
      /\ n >= 13 => 12 < n
  BY ONLY n \in Nat, n >= 8
<1>8. PICK h : h = HeaderOf(q, 1)
  OBVIOUS
<1>9. /\ data[0] = h[0] /\ data[1] = h[1] /\ data[2] = h[2] /\ data[3] = h[3]
      /\ data[4] = h[4] /\ data[5] = h[5] /\ data[6] = h[6] /\ data[7] = h[7]
  <2>1. /\ data[0] = q[0 + 1].byte /\ data[1] = q[1 + 1].byte
        /\ data[2] = q[2 + 1].byte /\ data[3] = q[3 + 1].byte
        /\ data[4] = q[4 + 1].byte /\ data[5] = q[5 + 1].byte
        /\ data[6] = q[6 + 1].byte /\ data[7] = q[7 + 1].byte
    BY ONLY <1>5, <1>6, <1>7, Zenon
  <2>2. /\ h[0] = q[1].byte /\ h[1] = q[2].byte /\ h[2] = q[3].byte
        /\ h[3] = q[4].byte /\ h[4] = q[5].byte /\ h[5] = q[6].byte
        /\ h[6] = q[7].byte /\ h[7] = q[8].byte
    BY ONLY <1>8 DEF HeaderOf
  <2>3. QED
    BY ONLY <2>1, <2>2
<1>10. parseGenericHeader(data, n) = parseGenericHeader(h, 8)
  <2>1. /\ PatternOk(data) = PatternOk(h) /\ PayloadCode(data) = PayloadCode(h)
        /\ PayloadLength(data) = PayloadLength(h)
    BY ONLY <1>9, SMT DEF PatternOk, PayloadCode, PayloadLength
  <2>2. n >= GenericHeaderLength /\ 8 >= GenericHeaderLength
    BY DEF GenericHeaderLength
  <2>3. QED
    BY ONLY <2>1, <2>2, Zenon DEF parseGenericHeader
<1>11. ASSUME n >= 13 PROVE data[CodeIndex] = q[1 + 12].byte
  <2>1. data[12] = q[12 + 1].byte
    BY ONLY <1>5, <1>6, <1>7, <1>11, Zenon
  <2>2. 12 + 1 = 1 + 12
    OBVIOUS
  <2>3. QED
    BY ONLY <2>1, <2>2, Zenon DEF CodeIndex
<1>12. QED
  BY ONLY <1>8, <1>10, <1>11, Zenon

(* a read that takes a message's end with it is longer than the message's   *)
(* first k + 1 bytes                                                        *)
LEMMA WholeLength ==
  ASSUME NEW n \in 1 .. Len(down), BeginsWhole(n), Len(down) \in Nat,
         NEW k \in Nat, 1 + k <= Len(down), \A i \in 1 .. k : ~down[1 + i].first
  PROVE  n >= k + 1
<1>1. CASE n = Len(down)
  BY <1>1
<1>2. CASE n # Len(down)
  <2>1. PICK i \in 2 .. n + 1 : down[i].first
    BY <1>2 DEF BeginsWhole
  <2>2. PICK j : j = i - 1
    OBVIOUS
  <2>3. i = 1 + j /\ j \in Nat /\ j >= 1 /\ j <= n
    BY ONLY <2>1, <2>2, n \in 1 .. Len(down), Len(down) \in Nat
  <2>4. ~(j \in 1 .. k)
    BY ONLY <2>1, <2>3, Zenon, \A x \in 1 .. k : ~down[1 + x].first
  <2>5. QED
    BY ONLY <2>3, <2>4, n \in 1 .. Len(down), Len(down) \in Nat, k \in Nat
<1>3. QED
  BY <1>1, <1>2

LEMMA ReportedRead ==
  ASSUME ClientInv, NEW n \in 1 .. Len(down), ReceiveData(n), BeginsWhole(n)
  PROVE  printed' = down[1].ack
<1>1. /\ Stream(down) /\ Len(down) \in Nat
      /\ receivedData \in Bytes(CodeIndex + 1)
  BY LenProperties DEF ClientInv, StreamInv, Stream, ReadKinds
<1>2. n \in Nat /\ 1 \in 1 .. Len(down) /\ down[1].first
  BY <1>1 DEF BeginsWhole
<1>3. PICK data : data = Received(receivedData,
                           [i \in 0 .. n - 1 |-> down[i + 1].byte], n)
  OBVIOUS
<1>4. printed' \in Acknowledge(data, n)
  BY <1>3 DEF ReceiveData
<1>5. PICK a \in parseGenericHeader(data, n) :
        printed' = IF a.type \in AckTypes
                     THEN {[type |-> a.type, code |-> data[CodeIndex]]} ELSE {}
  BY <1>4 DEF Acknowledge, AckTypes
<1>6. CASE PlainAt(down, 1)
  <2>1. /\ 1 + 7 <= Len(down) /\ (\A k \in 1 .. 7 : ~down[1 + k].first)
        /\ 7 \in Nat /\ down[1].ack = {}
        /\ \A b \in parseGenericHeader(HeaderOf(down, 1), 8) : b.type \notin AckTypes
    BY ONLY <1>6, Zenon DEF PlainAt
  <2>2. n >= 7 + 1
    BY ONLY <1>1, <2>1, WholeLength, BeginsWhole(n), n \in 1 .. Len(down), Zenon
  <2>3. n >= 8
    BY ONLY <1>2, <2>2
  <2>4. parseGenericHeader(data, n) = parseGenericHeader(HeaderOf(down, 1), 8)
    BY ONLY <1>1, <1>2, <1>3, <2>3, FilledBytes, Zenon
  <2>5. a.type \notin AckTypes
    BY ONLY <1>5, <2>1, <2>4, Zenon
  <2>6. QED
    BY ONLY <1>5, <2>1, <2>5, Zenon
<1>7. CASE AckAt(down, 1)
  <2>1. /\ 1 + 12 <= Len(down) /\ (\A k \in 1 .. 12 : ~down[1 + k].first)
        /\ 12 \in Nat
        /\ \A b \in parseGenericHeader(HeaderOf(down, 1), 8) :
             /\ b.type \in AckTypes
             /\ down[1].ack = {[type |-> b.type, code |-> down[1 + 12].byte]}
    BY ONLY <1>7, Zenon DEF AckAt
  <2>2. n >= 12 + 1
    BY ONLY <1>1, <2>1, WholeLength, BeginsWhole(n), n \in 1 .. Len(down), Zenon
  <2>3. n >= 8 /\ n >= 13
    BY ONLY <1>2, <2>2
  <2>4. /\ parseGenericHeader(data, n) = parseGenericHeader(HeaderOf(down, 1), 8)
        /\ data[CodeIndex] = down[1 + 12].byte
    BY ONLY <1>1, <1>2, <1>3, <2>3, FilledBytes, Zenon
  <2>5. /\ a.type \in AckTypes
        /\ down[1].ack = {[type |-> a.type, code |-> down[1 + 12].byte]}
    BY ONLY <1>5, <2>1, <2>4, Zenon
  <2>6. QED
    BY ONLY <1>5, <2>4, <2>5, Zenon
<1>8. QED
  BY ONLY <1>1, <1>2, <1>6, <1>7, Zenon DEF Stream

(* Only a read makes what is under way shorter without a new socket. *)
LEMMA OnlyReads ==
  ASSUME ClientInv, Next
  PROVE  \/ Len(down') >= Len(down)
         \/ FreshSocket
         \/ \E n \in 1 .. Len(down) : ReceiveData(n)
<1>1. Stream(down) /\ Len(down) \in Nat
  BY LenProperties DEF ClientInv, StreamInv, Stream
<1>2. down' = down => Len(down') >= Len(down)
  BY ONLY <1>1
<1>3. CASE Udp
  BY <1>2, <1>3, UdpFrame DEF udpUnchanged, wireVars
<1>4. \A request : Write(request) => UNCHANGED down
  BY DEF Write
<1>5. ASSUME NEW n \in Nat, n > 0, ReceiveData(n) PROVE n \in 1 .. Len(down)
  BY ONLY <1>1, <1>5 DEF ReceiveData
<1>6. CASE receiveMessage
  <2>1. CASE \E n \in ReadSizes \cup {Shortest(Len(down), MaxDataSize)} :
               n > 0 /\ ReceiveData(n)
    <3>1. Shortest(Len(down), MaxDataSize) \in Nat
      BY ONLY <1>1 DEF Shortest, MaxDataSize
    <3>2. PICK n \in Nat : n > 0 /\ ReceiveData(n)
      BY <2>1, <3>1, BoundKinds
    <3>3. QED
      BY <1>5, <3>2
  <2>2. CASE ReceiveError
    BY <1>2, <2>2 DEF ReceiveError, wireVars
  <2>3. CASE ReceiveEmpty
    <3>1. FreshSocket \/ UNCHANGED wireVars
      BY <2>3 DEF ReceiveEmpty, CountEmptyMessage, reconnectServer
    <3>2. QED
      BY <1>2, <3>1 DEF wireVars
  <2>4. QED
    BY <1>6, <2>1, <2>2, <2>3 DEF receiveMessage
<1>7. CASE Tcp
  BY <1>2, <1>4, <1>6, <1>7
     DEF Tcp, startTcpConnection, Connect, closeTcpConnection, wireVars,
         sendRoutingActivationRequest, sendAliveCheckResponse,
         sendDiagnosticMessage
<1>8. CASE ServerReacts
  BY <1>1, <1>8, ServerServes DEF ClientInv
<1>9. CASE ServerStarts
  BY <1>2, <1>9 DEF ServerStarts, wireVars
<1>10. ASSUME NEW goesDown, ServerEnds(goesDown) PROVE down' = down
  BY <1>10 DEF ServerEnds
<1>11. QED
  BY <1>2, <1>3, <1>7, <1>8, <1>9, <1>10 DEF Next, Server

LEMMA ReportedStep ==
  ASSUME ClientInv, Next, NEW n \in 1 .. Len(down),
         down' = SubSeq(down, n + 1, Len(down)), link' = link, BeginsWhole(n)
  PROVE  printed' = down[1].ack
<1>1. Stream(down) /\ Len(down) \in Nat
  BY LenProperties DEF ClientInv, StreamInv, Stream
<1>2. ASSUME NEW k \in 1 .. Len(down)
      PROVE  Len(SubSeq(down, k + 1, Len(down))) = Len(down) - k
  <2>1. k \in 0 .. Len(down)
    BY ONLY <1>1, k \in 1 .. Len(down)
  <2>2. QED
    BY ONLY <1>1, <2>1, StreamCut
<1>3. PICK l : l = Len(down')
  OBVIOUS
<1>4. l = Len(down) - n
  BY ONLY <1>2, <1>3, Zenon, n \in 1 .. Len(down),
          down' = SubSeq(down, n + 1, Len(down))
<1>5. ~(Len(down') >= Len(down))
  BY ONLY <1>1, <1>3, <1>4, n \in 1 .. Len(down)
<1>6. ~FreshSocket
  <2>1. SUFFICES ASSUME FreshSocket PROVE FALSE
    OBVIOUS
  <2>2. down = <<>>
    BY <2>1 DEF FreshSocket, ClientInv, StreamInv
  <2>3. Len(down) = 0
    BY ONLY <2>2
  <2>4. QED
    BY ONLY <2>3, n \in 1 .. Len(down)
<1>7. PICK k \in 1 .. Len(down) : ReceiveData(k)
  BY <1>5, <1>6, OnlyReads
<1>8. k = n
  <2>1. down' = SubSeq(down, k + 1, Len(down))
    BY <1>7 DEF ReceiveData
  <2>2. l = Len(down) - k
    BY ONLY <1>2, <1>3, <2>1, Zenon, k \in 1 .. Len(down)
  <2>3. QED
    BY ONLY <1>1, <1>4, <2>2, n \in 1 .. Len(down), k \in 1 .. Len(down)
<1>9. QED
  BY <1>7, <1>8, ReportedRead

(* A read that begins with a whole message prints that message's            *)
(* acknowledge if it is one and nothing otherwise, whatever the buffer held *)
(* before, however much more the read took, and whatever the application    *)
(* and the server did before.                                               *)
THEOREM AcksReportedCorrect == Spec => AcksReported
<1>1. ClientInv /\ [Next]_vars =>
        [\A n \in 1 .. Len(down) :
           (down' = SubSeq(down, n + 1, Len(down)) /\ link' = link
              /\ BeginsWhole(n))
             => printed' = down[1].ack]_vars
  BY ReportedStep
<1>2. QED
  BY ClientInit, ClientNext, <1>1, PTL DEF Spec, AcksReported
=============================================================================
