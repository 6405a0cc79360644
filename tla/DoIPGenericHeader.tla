------------------------- MODULE DoIPGenericHeader -------------------------
(***************************************************************************)
(* The generic DoIP header: libdoipcommon/src/DoIPGenericHeaderHandler.cpp *)
(* A header is eight bytes: protocol version, its complement, a two byte   *)
(* payload type and a four byte big-endian payload length.                 *)
(*                                                                         *)
(* A field that the code leaves uninitialised may hold anything, so the    *)
(* operators return SETS of results; Garbage is the set of values such a   *)
(* field is taken from.                                                    *)
(***************************************************************************)
EXTENDS Integers

CONSTANT Garbage

ASSUME GarbageAssumption == Garbage # {} /\ Garbage \subseteq Nat

Byte == 0 .. 255
GenericHeaderLength == 8
Header == [0 .. GenericHeaderLength - 1 -> Byte]

(* enum PayloadType *)
PayloadType ==
  {"NEGATIVEACK", "ROUTINGACTIVATIONREQUEST", "ROUTINGACTIVATIONRESPONSE",
   "VEHICLEIDENTREQUEST", "VEHICLEIDENTRESPONSE", "DIAGNOSTICMESSAGE",
   "DIAGNOSTICPOSITIVEACK", "DIAGNOSTICNEGATIVEACK", "ALIVECHECKRESPONSE"}

IncorrectPatternFormatCode == 0
UnknownPayloadTypeCode == 1
InvalidPayloadLengthCode == 4

(* struct GenericHeaderAction *)
GenericHeaderAction == [type : PayloadType, value : Byte, payloadLength : Nat]

Action(type, value, length) ==
  [type |-> type, value |-> value, payloadLength |-> length]

GarbageByte == {g % 256 : g \in Garbage}

-----------------------------------------------------------------------------
(* What a received header says, before it is judged. *)

(* data[1] ^ 0xFF is 255 - data[1] for a byte *)
PatternOk(data) == 255 - data[1] = data[0]

PayloadCode(data) == data[2] * 256 + data[3]

PayloadLength(data) ==
  data[4] * 16777216 + data[5] * 65536 + data[6] * 256 + data[7]

(* The payload type codes parseGenericHeader recognises; the enumerators    *)
(* for a negative acknowledge, a routing activation response and an alive   *)
(* check response exist but are not among them.                             *)
ReceivedTypes ==
  {[code |-> 5, type |-> "ROUTINGACTIVATIONREQUEST"],
   [code |-> 4, type |-> "VEHICLEIDENTRESPONSE"],
   [code |-> 1, type |-> "VEHICLEIDENTREQUEST"],
   [code |-> 32769, type |-> "DIAGNOSTICMESSAGE"],
   [code |-> 32770, type |-> "DIAGNOSTICPOSITIVEACK"],
   [code |-> 32771, type |-> "DIAGNOSTICNEGATIVEACK"]}

KnownCodes == {t.code : t \in ReceivedTypes}
TypeOfCode(code) == (CHOOSE t \in ReceivedTypes : t.code = code).type

(* mutant: accepts a diagnostic message without user data *)
LengthValidOffByOne(type, length) ==
  /\ type = "ROUTINGACTIVATIONREQUEST" => length \in {7, 11}
  /\ type = "VEHICLEIDENTREQUEST" => length = 0
  /\ type = "VEHICLEIDENTRESPONSE" => length \in {32, 33}
  /\ type = "DIAGNOSTICMESSAGE" => length > 3
  /\ type \in {"DIAGNOSTICPOSITIVEACK", "DIAGNOSTICNEGATIVEACK"} => length >= 5

LengthValid(type, length) ==
  /\ type = "ROUTINGACTIVATIONREQUEST" => length \in {7, 11}
  /\ type = "VEHICLEIDENTREQUEST" => length = 0
  /\ type = "VEHICLEIDENTRESPONSE" => length \in {32, 33}
  /\ type = "DIAGNOSTICMESSAGE" => length > 4
  /\ type \in {"DIAGNOSTICPOSITIVEACK", "DIAGNOSTICNEGATIVEACK"} => length >= 5

(* The early returns of parseGenericHeader in their order.  The cases of   *)
(* the two diagnostic acknowledges break instead of returning: the         *)
(* negative acknowledge they set is overwritten by line 132 and only the   *)
(* value survives.  A valid header leaves value uninitialised.             *)
ReturnsOnBadLength(type) ==
  type \notin {"DIAGNOSTICPOSITIVEACK", "DIAGNOSTICNEGATIVEACK"}

HeaderActions(pattern, code, length) ==
  IF ~pattern
    THEN {Action("NEGATIVEACK", IncorrectPatternFormatCode, 0)}
  ELSE IF code \notin KnownCodes
    THEN {Action("NEGATIVEACK", UnknownPayloadTypeCode, length)}
  ELSE IF LengthValid(TypeOfCode(code), length)
    THEN {Action(TypeOfCode(code), v, length) : v \in GarbageByte}
  ELSE {Action(IF ReturnsOnBadLength(TypeOfCode(code))
                 THEN "NEGATIVEACK" ELSE TypeOfCode(code),
               InvalidPayloadLengthCode, length)}

(* parseGenericHeader: fewer than eight bytes leave the whole action        *)
(* uninitialised.                                                           *)
parseGenericHeader(data, dataLength) ==
  IF dataLength >= GenericHeaderLength
    THEN HeaderActions(PatternOk(data), PayloadCode(data), PayloadLength(data))
    ELSE [type : PayloadType, value : GarbageByte, payloadLength : Garbage]

-----------------------------------------------------------------------------
(* createGenericHeader has no case for the two requests: bytes 2 and 3 of   *)
(* such a header stay uninitialised.                                        *)
WrittenTypes ==
  {[code |-> 6, type |-> "ROUTINGACTIVATIONRESPONSE"],
   [code |-> 0, type |-> "NEGATIVEACK"],
   [code |-> 4, type |-> "VEHICLEIDENTRESPONSE"],
   [code |-> 32769, type |-> "DIAGNOSTICMESSAGE"],
   [code |-> 32770, type |-> "DIAGNOSTICPOSITIVEACK"],
   [code |-> 32771, type |-> "DIAGNOSTICNEGATIVEACK"],
   [code |-> 8, type |-> "ALIVECHECKRESPONSE"]}

WrittenCodes(type) ==
  IF type \in {"ROUTINGACTIVATIONREQUEST", "VEHICLEIDENTREQUEST"}
    THEN {g % 65536 : g \in Garbage}
    ELSE {t.code : t \in {w \in WrittenTypes : w.type = type}}

HeaderBytes(code, length) ==
  LET bytes == <<2, 253, code \div 256, code % 256,
                 (length \div 16777216) % 256, (length \div 65536) % 256,
                 (length \div 256) % 256, length % 256>>
  IN  [i \in 0 .. 7 |-> bytes[i + 1]]

(* mutant: only the low half of the length is written *)
createGenericHeaderShortLength(type, length) ==
  {HeaderBytes(code, length % 65536) : code \in WrittenCodes(type)}

createGenericHeader(type, length) ==
  {HeaderBytes(code, length) : code \in WrittenCodes(type)}

=============================================================================
