--------------------------- MODULE HeaderExchange ---------------------------
(***************************************************************************)
(* Exercises parseGenericHeader and createGenericHeader: one end of a      *)
(* connection creates a header, or a foreign peer sends any header of a    *)
(* bounded set, and the other end parses what it received.  And a tester   *)
(* takes the identification responses of several vehicles, other datagrams *)
(* of any content and size, and TCP data, all into one buffer.             *)
(***************************************************************************)
EXTENDS VehicleIdentification

CONSTANTS
  ForeignHeaders,   \* the headers a foreign peer may send
  CreatedLengths,   \* the payload lengths the library creates headers for
  Vehicles,         \* the vehicles that answer
  CutSizes,         \* where a response may be cut
  OtherDatagrams    \* whatever else arrives, on the UDP or the TCP socket

(* a 32 bit number, written so that TLC can evaluate it *)
Length32 == {n \in Nat : n \div 65536 < 65536}

(* Bytes a socket delivers; a longer datagram is cut to the buffer's size,   *)
(* and size 0 stands for a recvfrom that fails as well.                      *)
Datagram == [size : 0 .. MaxDataSize, bytes : Buffer]

ASSUME ExchangeAssumption ==
  /\ ForeignHeaders \subseteq Header
  /\ CreatedLengths \subseteq Length32
  /\ Vehicles \subseteq Vehicle
  /\ CutSizes \subseteq 0 .. VIResponseSize - 1
  /\ OtherDatagrams \subseteq Datagram

VARIABLES
  stage,       \* "idle", "sent", "parsed", or "tester" for the UDP side
  data,        \* the bytes received
  dataLength,  \* how many of them arrived
  made,        \* the type and length the header was created from, if it was
  action,      \* what parseGenericHeader returned
  buffer,      \* the tester's _receivedData
  results,     \* what it knows of the vehicle
  heard,       \* for checking: the vehicle the results should show, as a set
  intact       \* for checking: its data are still in the buffer

headerVars == <<stage, data, dataLength, made, action>>
testerVars == <<buffer, results, heard, intact>>
vars == <<headerVars, testerVars>>

(* the types createGenericHeader is called with *)
CreatedTypes == PayloadType \ {"ROUTINGACTIVATIONREQUEST", "VEHICLEIDENTREQUEST"}
ParsedTypes == {t.type : t \in ReceivedTypes}

NoHeader == [i \in 0 .. 7 |-> 0]
NotMade == [type |-> "none", length |-> 0]
EmptyBuffer == [i \in 0 .. MaxDataSize - 1 |-> 255]
NoAction == [type |-> "none", value |-> 0, payloadLength |-> 0]

Init ==
  /\ stage \in {"idle", "tester"}
  /\ data = NoHeader /\ dataLength = 0
  /\ made = NotMade /\ action = NoAction
  /\ buffer = EmptyBuffer
  /\ results = parseVIResponseInformation(EmptyBuffer)
  /\ heard = {} /\ intact = FALSE

(* a library endpoint creates the header of a message it sends *)
Create(type, length) ==
  /\ stage = "idle"
  /\ data' \in createGenericHeader(type, length)
  /\ dataLength' = GenericHeaderLength
  /\ made' = [type |-> type, length |-> length]
  /\ stage' = "sent"
  /\ UNCHANGED <<action, testerVars>>

(* any peer sends a header; it may arrive cut short *)
Foreign(h, n) ==
  /\ stage = "idle"
  /\ data' = h /\ dataLength' = n
  /\ made' = NotMade
  /\ stage' = "sent"
  /\ UNCHANGED <<action, testerVars>>

Parse ==
  /\ stage = "sent"
  /\ action' \in parseGenericHeader(data, dataLength)
  /\ stage' = "parsed"
  /\ UNCHANGED <<data, dataLength, made, testerVars>>

Again ==
  /\ stage = "parsed"
  /\ stage' = "idle"
  /\ data' = NoHeader /\ dataLength' = 0
  /\ made' = NotMade /\ action' = NoAction
  /\ UNCHANGED testerVars

(* the tester's receiveUdpMessage takes a datagram of the given size *)
TesterReceives(message, size) ==
  /\ buffer' = Received(buffer, message, size)
  /\ results' \in receiveUdpMessage(buffer', size, results)
  /\ UNCHANGED headerVars

(* What the parser may take for an identification response: a header that    *)
(* says so, and anything shorter than a header.                              *)
MayPassForResponse(message, size) ==
  \/ size < GenericHeaderLength
  \/ /\ PatternOk(message)
     /\ PayloadCode(message) = 4
     /\ PayloadLength(message) \in {32, 33}

(* Something arrives that is not the whole response of a vehicle: the data   *)
(* of the last one stay in the buffer if it has a header at most.            *)
Overwrites(message, size) ==
  /\ intact' = (intact /\ size <= GenericHeaderLength)
  /\ heard' = IF intact' \/ ~MayPassForResponse(message, size) THEN heard ELSE {}

(* a vehicle's response or announcement, whole *)
VehicleAnswers(v) ==
  /\ stage = "tester"
  /\ \E message \in createVehicleIdentificationResponse(v) :
       TesterReceives(message, VIResponseSize)
  /\ heard' = {v} /\ intact' = TRUE

(* a response of which only the first bytes came *)
ResponseCut(v, size) ==
  /\ stage = "tester"
  /\ \E message \in createVehicleIdentificationResponse(v) :
       TesterReceives(message, size) /\ Overwrites(message, size)

(* something else: another tester's broadcast request, an acknowledge, the   *)
(* response of a vehicle with other software, or no DoIP message at all      *)
OtherDatagram(d) ==
  /\ stage = "tester"
  /\ TesterReceives(d.bytes, d.size)
  /\ Overwrites(d.bytes, d.size)

(* receiveMessage reads TCP data into the same buffer *)
TcpData(d) ==
  /\ stage = "tester"
  /\ buffer' = Received(buffer, d.bytes, d.size)
  /\ intact' = (intact /\ d.size <= GenericHeaderLength)
  /\ UNCHANGED <<headerVars, results, heard>>

Next ==
  \/ \E type \in CreatedTypes, length \in CreatedLengths : Create(type, length)
  \/ \E h \in ForeignHeaders, n \in {7, 8} : Foreign(h, n)
  \/ Parse
  \/ Again
  \/ \E v \in Vehicles :
       VehicleAnswers(v) \/ \E size \in CutSizes : ResponseCut(v, size)
  \/ \E d \in OtherDatagrams : OtherDatagram(d) \/ TcpData(d)

Spec == Init /\ [][Next]_vars

-----------------------------------------------------------------------------
Complete == stage = "parsed" /\ dataLength >= GenericHeaderLength

(* How many payload bytes the server's handlers read without looking at the *)
(* length again: parseRoutingActivation reads data[0] to data[2];           *)
(* reactOnReceivedTcpMessage, parseDiagnosticMessage and then the           *)
(* application's callback read payload[0] to payload[4].  The client's      *)
(* parseVIResponseInformation reads data[8] to data[39].                    *)
FixedReads ==
  {[type |-> "ROUTINGACTIVATIONREQUEST", bytes |-> 3],
   [type |-> "DIAGNOSTICMESSAGE", bytes |-> 5],
   [type |-> "VEHICLEIDENTRESPONSE", bytes |-> 32]}

(* A header the parser accepts for a handler declares a                     *)
(* payload that covers every byte the handler reads unconditionally, so no  *)
(* handler reads past the buffer allocated from that length.                *)
HandlersReadInBounds ==
  Complete => \A r \in FixedReads :
                r.type = action.type => r.bytes <= action.payloadLength

(* What one end creates, the other end does not mistake: the declared       *)
(* length always survives, a header created for a type the parser has a     *)
(* branch for is parsed as that type when the length is valid for it, and   *)
(* any other created header never makes the receiver run a handler of the   *)
(* connection.                                                              *)
CreatedIsUnderstood ==
  (Complete /\ made # NotMade)
  => /\ action.payloadLength = made.length
     /\ \/ action.type = made.type
        \/ ~(made.type \in ParsedTypes /\ LengthValid(made.type, made.length))
     /\ \/ made.type \in ParsedTypes /\ LengthValid(made.type, made.length)
        \/ \A r \in FixedReads : r.type # action.type

(* A tester shows the vehicle whose whole response it received last: every  *)
(* field as it was configured, the VIN cut or padded to 17 characters.  It  *)
(* goes on showing it whatever arrives and overwrites the buffer then, with *)
(* two exceptions: a datagram with the header of a response (one that was   *)
(* cut, or one of other software), and, once bytes behind the header were   *)
(* overwritten, one that is shorter than a header, whose uninitialised      *)
(* action may be that of a response.  While the response's data are still   *)
(* in the buffer even these change nothing.                                 *)
VehicleInfoUnderstood ==
  \A v \in heard : results = Identity(v)
=============================================================================
