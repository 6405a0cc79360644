---------------------- MODULE DoIPGenericHeaderProofs ----------------------
(***************************************************************************)
(* What the generic header handler guarantees for every header and length. *)
(***************************************************************************)
EXTENDS DoIPGenericHeader, TLAPS

(* uint32_t *)
UInt32 == {n \in Nat : n < 4294967296}

(* A code the parser knows names one of the payload types. *)
LEMMA KnownCodeType ==
  ASSUME NEW code \in KnownCodes
  PROVE  /\ TypeOfCode(code) \in PayloadType
         /\ [code |-> code, type |-> TypeOfCode(code)] \in ReceivedTypes
<1>1. PICK t \in ReceivedTypes : t.code = code
  BY DEF KnownCodes
<1> DEFINE u == CHOOSE r \in ReceivedTypes : r.code = code
<1>2. u \in ReceivedTypes /\ u.code = code
  BY <1>1
<1>3. TypeOfCode(code) = u.type
  BY DEF TypeOfCode
<1> HIDE DEF u
<1>4. u.type \in PayloadType /\ u = [code |-> u.code, type |-> u.type]
  BY <1>2 DEF ReceivedTypes, PayloadType
<1>5. QED
  BY <1>2, <1>3, <1>4

(* An uninitialised byte is a byte. *)
LEMMA GarbageIsByte == GarbageByte \subseteq Byte
  BY GarbageAssumption DEF GarbageByte, Byte

(* parseGenericHeader's verdict on a complete header is a GenericHeaderAction *)
(* whose payload length is the declared one, or 0 after a wrong pattern.      *)
LEMMA HeaderActionsType ==
  ASSUME NEW pattern \in BOOLEAN, NEW code \in Nat, NEW length \in Nat,
         NEW a \in HeaderActions(pattern, code, length)
  PROVE  /\ a \in GenericHeaderAction
         /\ a.payloadLength \in {0, length}
         /\ pattern => a.payloadLength = length
<1>1. CASE ~pattern
  BY <1>1 DEF HeaderActions, Action, GenericHeaderAction, PayloadType, Byte,
              IncorrectPatternFormatCode
<1>2. CASE pattern /\ code \notin KnownCodes
  BY <1>2 DEF HeaderActions, Action, GenericHeaderAction, PayloadType, Byte,
              UnknownPayloadTypeCode
<1>3. CASE pattern /\ code \in KnownCodes
  <2>1. TypeOfCode(code) \in PayloadType
    BY <1>3, KnownCodeType
  <2>2. CASE LengthValid(TypeOfCode(code), length)
    <3>1. PICK v \in GarbageByte : a = Action(TypeOfCode(code), v, length)
      BY <1>3, <2>2 DEF HeaderActions
    <3>2. QED
      BY <3>1, <2>1, GarbageIsByte DEF Action, GenericHeaderAction
  <2>3. CASE ~LengthValid(TypeOfCode(code), length)
    <3>1. a = Action(IF ReturnsOnBadLength(TypeOfCode(code))
                       THEN "NEGATIVEACK" ELSE TypeOfCode(code),
                     InvalidPayloadLengthCode, length)
      BY <1>3, <2>3 DEF HeaderActions
    <3>2. QED
      BY <3>1, <2>1 DEF Action, GenericHeaderAction, PayloadType, Byte,
                        InvalidPayloadLengthCode
  <2>4. QED
    BY <2>2, <2>3
<1>4. QED
  BY <1>1, <1>2, <1>3

(* A header that is accepted for one of the handlers declares a payload that *)
(* covers the bytes the handler reads without a further check: three for a   *)
(* routing activation, five (addresses and the first user data byte) for a   *)
(* diagnostic message, 32 for an identification response.                    *)
THEOREM AcceptedLengthCoversReads ==
  ASSUME NEW pattern \in BOOLEAN, NEW code \in Nat, NEW length \in Nat,
         NEW a \in HeaderActions(pattern, code, length)
  PROVE  /\ a.type = "ROUTINGACTIVATIONREQUEST" => a.payloadLength >= 3
         /\ a.type = "DIAGNOSTICMESSAGE" => a.payloadLength >= 5
         /\ a.type = "VEHICLEIDENTRESPONSE" => a.payloadLength >= 32
<1>1. CASE ~pattern
  BY <1>1 DEF HeaderActions, Action
<1>2. CASE pattern /\ code \notin KnownCodes
  BY <1>2 DEF HeaderActions, Action
<1>3. CASE pattern /\ code \in KnownCodes /\ LengthValid(TypeOfCode(code), length)
  <2>1. PICK v \in GarbageByte : a = Action(TypeOfCode(code), v, length)
    BY <1>3 DEF HeaderActions
  <2>2. QED
    BY <1>3, <2>1 DEF Action, LengthValid
<1>4. CASE pattern /\ code \in KnownCodes /\ ~LengthValid(TypeOfCode(code), length)
  <2>1. a = Action(IF ReturnsOnBadLength(TypeOfCode(code))
                     THEN "NEGATIVEACK" ELSE TypeOfCode(code),
                   InvalidPayloadLengthCode, length)
    BY <1>4 DEF HeaderActions
  <2>2. QED
    BY <2>1 DEF Action, ReturnsOnBadLength
<1>5. QED
  BY <1>1, <1>2, <1>3, <1>4

(* Every number is its low byte and 256 times the rest. *)
LEMMA DivideByte ==
  ASSUME NEW n \in Nat
  PROVE  \E q \in Nat, r \in 0 .. 255 : n = 256 * q + r
<1>1. n \div 256 \in Nat /\ n % 256 \in 0 .. 255
  BY SMT
<1>2. n = 256 * (n \div 256) + (n % 256)
  BY SMT
<1>3. QED
  BY <1>1, <1>2

(* The four length bytes createGenericHeader writes are the ones             *)
(* parseGenericHeader puts together again, for every 32 bit length, and the  *)
(* synchronisation pattern and the payload type code survive as well.        *)
THEOREM CreatedHeaderDecodes ==
  ASSUME NEW type \in PayloadType, NEW length \in UInt32,
         NEW h \in createGenericHeader(type, length)
  PROVE  /\ PatternOk(h)
         /\ PayloadLength(h) = length
         /\ PayloadCode(h) \in WrittenCodes(type)
<1>1. PICK code \in WrittenCodes(type) : h = HeaderBytes(code, length)
  BY DEF createGenericHeader
<1>2. code \in Nat /\ code < 65536
  <2>1. CASE type \in {"ROUTINGACTIVATIONREQUEST", "VEHICLEIDENTREQUEST"}
    <3>1. PICK g \in Garbage : code = g % 65536
      BY <2>1 DEF WrittenCodes
    <3>2. QED
      BY <3>1, GarbageAssumption, SMT
  <2>2. CASE type \notin {"ROUTINGACTIVATIONREQUEST", "VEHICLEIDENTREQUEST"}
    <3>1. PICK w \in WrittenTypes : code = w.code
      BY <2>2 DEF WrittenCodes
    <3>2. QED
      BY <3>1 DEF WrittenTypes
  <2>3. QED
    BY <2>1, <2>2
<1>3. /\ h[0] = 2 /\ h[1] = 253
      /\ h[2] = code \div 256 /\ h[3] = code % 256
      /\ h[4] = (length \div 16777216) % 256
      /\ h[5] = (length \div 65536) % 256
      /\ h[6] = (length \div 256) % 256
      /\ h[7] = length % 256
  BY <1>1, SMT DEF HeaderBytes
<1>4. PayloadLength(h) = length
  <2>1. length \in Nat /\ length < 4294967296
    BY SMT DEF UInt32
  <2>2. PICK q1 \in Nat, r1 \in 0 .. 255 : length = 256 * q1 + r1
    BY <2>1, DivideByte
  <2>3. PICK q2 \in Nat, r2 \in 0 .. 255 : q1 = 256 * q2 + r2
    BY DivideByte
  <2>4. PICK q3 \in Nat, r3 \in 0 .. 255 : q2 = 256 * q3 + r3
    BY DivideByte
  <2>5. q3 \in 0 .. 255
    BY <2>1, <2>2, <2>3, <2>4, SMT
  <2>6. h[7] = r1 /\ h[6] = r2
    BY <1>3, <2>2, <2>3, SMT
  <2>7. h[5] = r3
    BY <1>3, <2>2, <2>3, <2>4, SMT
  <2>8. h[4] = q3
    BY <1>3, <2>2, <2>3, <2>4, <2>5, SMT
  <2>9. QED
    BY <2>2, <2>3, <2>4, <2>6, <2>7, <2>8, SMT DEF PayloadLength
<1>5. PayloadCode(h) = code
  BY <1>2, <1>3, SMT DEF PayloadCode
<1>6. QED
  BY <1>1, <1>3, <1>4, <1>5 DEF PatternOk
=============================================================================
