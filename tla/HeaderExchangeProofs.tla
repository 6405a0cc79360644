------------------------ MODULE HeaderExchangeProofs ------------------------
(***************************************************************************)
(* What HeaderExchange checks, for every header a peer may send, every     *)
(* length a header may be created for and every vehicle.                   *)
(***************************************************************************)
EXTENDS HeaderExchange, VehicleIdentificationProofs, DoIPGenericHeaderProofs

(* Where the header came from, and that the action is the parser's. *)
HeaderInv ==
  /\ stage \in {"sent", "parsed"} =>
       \/ made = NotMade /\ data \in ForeignHeaders
       \/ /\ made.type \in CreatedTypes /\ made.length \in CreatedLengths
          /\ data \in createGenericHeader(made.type, made.length)
  /\ stage = "parsed" => action \in parseGenericHeader(data, dataLength)

(* The buffer keeps its size, the results are the last vehicle's, and so    *)
(* are the data in the buffer while they are intact.                        *)
TesterInv ==
  /\ DOMAIN buffer = 0 .. MaxDataSize - 1
  /\ VehicleInfoUnderstood
  /\ intact => \A v \in heard : parseVIResponseInformation(buffer) = Identity(v)

LEMMA HeaderInit == Init => HeaderInv
  BY DEF Init, HeaderInv

LEMMA HeaderFrame ==
  ASSUME HeaderInv, UNCHANGED headerVars
  PROVE  HeaderInv'
<1>1. /\ stage' = stage /\ data' = data /\ dataLength' = dataLength
      /\ made' = made /\ action' = action
  BY DEF headerVars
<1>2. QED
  BY ONLY <1>1, HeaderInv, Zenon DEF HeaderInv

LEMMA TesterLeavesHeaders ==
  ASSUME \/ \E v \in Vehicles :
              VehicleAnswers(v) \/ \E size \in CutSizes : ResponseCut(v, size)
         \/ \E d \in OtherDatagrams : OtherDatagram(d) \/ TcpData(d)
  PROVE  UNCHANGED headerVars
<1>1. \A message, size : TesterReceives(message, size) => UNCHANGED headerVars
  BY DEF TesterReceives
<1>2. QED
  BY ONLY <1>1, Zenon,
     \/ \E v \in Vehicles :
          VehicleAnswers(v) \/ \E size \in CutSizes : ResponseCut(v, size)
     \/ \E d \in OtherDatagrams : OtherDatagram(d) \/ TcpData(d)
     DEF VehicleAnswers, ResponseCut, OtherDatagram, TcpData

LEMMA HeaderNext == HeaderInv /\ [Next]_vars => HeaderInv'
<1> SUFFICES ASSUME HeaderInv, [Next]_vars PROVE HeaderInv'
  OBVIOUS
<1>1. ASSUME NEW type \in CreatedTypes, NEW length \in CreatedLengths,
             Create(type, length)
      PROVE  HeaderInv'
  <2>1. /\ stage' = "sent" /\ data' \in createGenericHeader(type, length)
        /\ made' = [type |-> type, length |-> length]
    BY <1>1 DEF Create
  <2>2. made'.type = type /\ made'.length = length
    BY ONLY <2>1
  <2>3. QED
    BY ONLY <2>1, <2>2, Zenon, type \in CreatedTypes, length \in CreatedLengths
       DEF HeaderInv
<1>2. ASSUME NEW h \in ForeignHeaders, NEW n, Foreign(h, n) PROVE HeaderInv'
  <2>1. stage' = "sent" /\ data' = h /\ made' = NotMade
    BY <1>2 DEF Foreign
  <2>2. QED
    BY ONLY <2>1, Zenon, h \in ForeignHeaders DEF HeaderInv
<1>3. CASE Parse
  <2>1. /\ stage = "sent" /\ stage' = "parsed" /\ data' = data
        /\ dataLength' = dataLength /\ made' = made
        /\ action' \in parseGenericHeader(data, dataLength)
    BY <1>3 DEF Parse
  <2>2. QED
    BY ONLY <2>1, HeaderInv, Zenon DEF HeaderInv
<1>4. CASE Again
  BY <1>4 DEF Again, HeaderInv
<1>5. CASE \/ \E v \in Vehicles :
                VehicleAnswers(v) \/ \E size \in CutSizes : ResponseCut(v, size)
           \/ \E d \in OtherDatagrams : OtherDatagram(d) \/ TcpData(d)
  BY ONLY <1>5, HeaderInv, HeaderFrame, TesterLeavesHeaders
<1>6. CASE UNCHANGED vars
  BY ONLY <1>6, HeaderInv, HeaderFrame DEF vars
<1>7. QED
  BY <1>1, <1>2, <1>3, <1>4, <1>5, <1>6 DEF Next

(* A created header's bytes say what it was created from. *)
LEMMA CreatedHeader ==
  ASSUME NEW type \in CreatedTypes, NEW length \in CreatedLengths,
         NEW h \in createGenericHeader(type, length)
  PROVE  /\ PatternOk(h) /\ PayloadLength(h) = length /\ length \in Nat
         /\ \E w \in WrittenTypes : w.type = type /\ w.code = PayloadCode(h)
<1>1. length \in UInt32
  <2>1. length \in Nat /\ length \div 65536 < 65536
    BY ExchangeAssumption DEF Length32
  <2>2. length < 4294967296
    BY ONLY <2>1, SMT
  <2>3. QED
    BY <2>1, <2>2 DEF UInt32
<1>2. /\ type \in PayloadType
      /\ type \notin {"ROUTINGACTIVATIONREQUEST", "VEHICLEIDENTREQUEST"}
  BY DEF CreatedTypes
<1>3. /\ PatternOk(h) /\ PayloadLength(h) = length
      /\ PayloadCode(h) \in WrittenCodes(type)
  BY <1>1, <1>2, CreatedHeaderDecodes
<1>4. \E w \in WrittenTypes : w.type = type /\ w.code = PayloadCode(h)
  <2>1. PICK c : c = PayloadCode(h)
    OBVIOUS
  <2>2. c \in {t.code : t \in {w \in WrittenTypes : w.type = type}}
    BY ONLY <1>2, <1>3, <2>1, SMT DEF WrittenCodes
  <2>3. \E w \in WrittenTypes : w.type = type /\ w.code = c
    BY ONLY <2>2
  <2>4. QED
    BY ONLY <2>1, <2>3, Zenon
<1>5. length \in Nat
  BY <1>1 DEF UInt32
<1>6. QED
  BY <1>3, <1>4, <1>5

LEMMA CodeKinds == \A w \in WrittenTypes : w.code \in Nat
  BY DEF WrittenTypes

LEMMA ForeignKinds ==
  ASSUME NEW h \in Header
  PROVE  PayloadCode(h) \in Nat /\ PayloadLength(h) \in Nat
<1>1. ASSUME NEW i \in 0 .. 7 PROVE h[i] \in Nat
  <2>1. h \in [0 .. 7 -> Byte]
    <3>1. GenericHeaderLength - 1 = 7
      BY DEF GenericHeaderLength
    <3>2. QED
      BY ONLY <3>1, Zenon, h \in Header DEF Header
  <2>2. Byte \subseteq Nat
    BY DEF Byte
  <2>3. QED
    BY ONLY <2>1, <2>2, Zenon, i \in 0 .. 7
<1>2. /\ h[0] \in Nat /\ h[1] \in Nat /\ h[2] \in Nat /\ h[3] \in Nat
      /\ h[4] \in Nat /\ h[5] \in Nat /\ h[6] \in Nat /\ h[7] \in Nat
  BY ONLY <1>1
<1>3. QED
  BY ONLY <1>2, SMT DEF PayloadCode, PayloadLength

LEMMA CompleteAction ==
  ASSUME HeaderInv, Complete
  PROVE  /\ action \in HeaderActions(PatternOk(data), PayloadCode(data),
                                     PayloadLength(data))
         /\ PayloadCode(data) \in Nat /\ PayloadLength(data) \in Nat
<1>1. stage = "parsed" /\ dataLength >= GenericHeaderLength
  BY DEF Complete
<1>2. action \in parseGenericHeader(data, dataLength)
  BY ONLY <1>1, HeaderInv, Zenon DEF HeaderInv
<1>3. action \in HeaderActions(PatternOk(data), PayloadCode(data),
                               PayloadLength(data))
  BY ONLY <1>1, <1>2, Zenon DEF parseGenericHeader
<1>4. CASE data \in ForeignHeaders
  BY <1>3, <1>4, ForeignKinds, ExchangeAssumption
<1>5. CASE /\ made.type \in CreatedTypes /\ made.length \in CreatedLengths
           /\ data \in createGenericHeader(made.type, made.length)
  BY <1>3, <1>5, CreatedHeader, CodeKinds
<1>6. QED
  BY ONLY <1>1, <1>4, <1>5, HeaderInv DEF HeaderInv

LEMMA InBounds == HeaderInv => HandlersReadInBounds
<1> SUFFICES ASSUME HeaderInv, Complete, NEW r \in FixedReads,
                    r.type = action.type
             PROVE  r.bytes <= action.payloadLength
  BY DEF HandlersReadInBounds
<1>1. PICK pattern : pattern = PatternOk(data)
  OBVIOUS
<1>2. pattern \in BOOLEAN
  BY ONLY <1>1, Zenon DEF PatternOk
<1>3. PICK code : code = PayloadCode(data)
  OBVIOUS
<1>4. PICK length : length = PayloadLength(data)
  OBVIOUS
<1>5. action \in HeaderActions(pattern, code, length) /\ code \in Nat /\ length \in Nat
  BY ONLY <1>1, <1>3, <1>4, CompleteAction, HeaderInv, Complete, Zenon
<1>6. /\ action.type = "ROUTINGACTIVATIONREQUEST" => action.payloadLength >= 3
      /\ action.type = "DIAGNOSTICMESSAGE" => action.payloadLength >= 5
      /\ action.type = "VEHICLEIDENTRESPONSE" => action.payloadLength >= 32
      /\ action.payloadLength \in Nat
  <2>1. action \in GenericHeaderAction
    BY ONLY <1>2, <1>5, HeaderActionsType
  <2>2. action.payloadLength \in Nat
    BY ONLY <2>1 DEF GenericHeaderAction
  <2>3. QED
    BY ONLY <1>2, <1>5, <2>2, AcceptedLengthCoversReads
<1>7. QED
  BY ONLY <1>6, r \in FixedReads, r.type = action.type DEF FixedReads

(* No handler reads past the payload its header declares, for every header  *)
(* a peer may send and every one the library creates.                       *)
THEOREM ReadsCorrect == Spec => []HandlersReadInBounds
  BY HeaderInit, HeaderNext, InBounds, PTL DEF Spec

(* The creator's table agrees with the parser's where both have a code. *)
LEMMA TablesAgree ==
  ASSUME NEW w \in WrittenTypes
  PROVE  /\ w.code \in KnownCodes <=> w.type \in ParsedTypes
         /\ w.code \in KnownCodes => TypeOfCode(w.code) = w.type
         /\ \A r \in FixedReads :
              r.type = w.type => w.type \in ParsedTypes /\ ReturnsOnBadLength(w.type)
         /\ \A r \in FixedReads : r.type # "NEGATIVEACK"
<1>1. w.code \in KnownCodes <=> w.type \in ParsedTypes
  BY DEF WrittenTypes, KnownCodes, ParsedTypes, ReceivedTypes
<1>2. ASSUME w.code \in KnownCodes PROVE TypeOfCode(w.code) = w.type
  <2>1. PICK t : t = [code |-> w.code, type |-> TypeOfCode(w.code)]
    OBVIOUS
  <2>2. t \in ReceivedTypes /\ t.code = w.code /\ t.type = TypeOfCode(w.code)
    BY <1>2, <2>1, KnownCodeType
  <2>3. \A u \in ReceivedTypes : u.code = w.code => u.type = w.type
    BY DEF WrittenTypes, ReceivedTypes
  <2>4. QED
    BY ONLY <2>2, <2>3, Zenon
<1>3. \A r \in FixedReads :
        r.type = w.type => w.type \in ParsedTypes /\ ReturnsOnBadLength(w.type)
  BY DEF FixedReads, ParsedTypes, ReceivedTypes, ReturnsOnBadLength
<1>4. \A r \in FixedReads : r.type # "NEGATIVEACK"
  BY DEF FixedReads
<1>5. QED
  BY <1>1, <1>2, <1>3, <1>4

LEMMA Understood == HeaderInv => CreatedIsUnderstood
<1> SUFFICES ASSUME HeaderInv, Complete, made # NotMade
             PROVE  /\ action.payloadLength = made.length
                    /\ \/ action.type = made.type
                       \/ ~(made.type \in ParsedTypes
                              /\ LengthValid(made.type, made.length))
                    /\ \/ made.type \in ParsedTypes
                            /\ LengthValid(made.type, made.length)
                       \/ \A r \in FixedReads : r.type # action.type
  BY DEF CreatedIsUnderstood
<1>1. PICK type : type = made.type
  OBVIOUS
<1>2. PICK length : length = made.length
  OBVIOUS
<1>3. PICK code : code = PayloadCode(data)
  OBVIOUS
<1>4. /\ type \in CreatedTypes /\ length \in CreatedLengths
      /\ data \in createGenericHeader(type, length)
  BY ONLY <1>1, <1>2, HeaderInv, Complete, made # NotMade, Zenon
     DEF HeaderInv, Complete
<1>5. /\ PatternOk(data) /\ PayloadLength(data) = length
      /\ \E w \in WrittenTypes : w.type = type /\ w.code = code
  BY ONLY <1>3, <1>4, CreatedHeader
<1>6. PICK w \in WrittenTypes : w.type = type /\ w.code = code
  BY <1>5
<1>7. /\ code \in KnownCodes <=> type \in ParsedTypes
      /\ code \in KnownCodes => TypeOfCode(code) = type
      /\ \A r \in FixedReads :
           r.type = type => type \in ParsedTypes /\ ReturnsOnBadLength(type)
      /\ \A r \in FixedReads : r.type # "NEGATIVEACK"
  BY ONLY <1>6, TablesAgree, Zenon
<1>8. action \in HeaderActions(PatternOk(data), code, length)
  BY ONLY <1>3, <1>5, CompleteAction, HeaderInv, Complete, Zenon
<1>9. CASE code \notin KnownCodes
  <2>1. action = Action("NEGATIVEACK", UnknownPayloadTypeCode, length)
    BY ONLY <1>5, <1>8, <1>9 DEF HeaderActions
  <2>2. action.type = "NEGATIVEACK" /\ action.payloadLength = length
    BY ONLY <2>1 DEF Action
  <2>3. QED
    BY ONLY <1>1, <1>2, <1>7, <1>9, <2>2, Zenon
<1>10. CASE code \in KnownCodes /\ LengthValid(type, length)
  <2>1. PICK v \in GarbageByte : action = Action(type, v, length)
    BY ONLY <1>5, <1>7, <1>8, <1>10 DEF HeaderActions
  <2>2. action.type = type /\ action.payloadLength = length
    BY ONLY <2>1 DEF Action
  <2>3. QED
    BY ONLY <1>1, <1>2, <1>7, <1>10, <2>2, Zenon
<1>11. CASE code \in KnownCodes /\ ~LengthValid(type, length)
  <2>1. action = Action(IF ReturnsOnBadLength(type) THEN "NEGATIVEACK" ELSE type,
                        InvalidPayloadLengthCode, length)
    BY ONLY <1>5, <1>7, <1>8, <1>11 DEF HeaderActions
  <2>2. /\ action.payloadLength = length
        /\ action.type = IF ReturnsOnBadLength(type) THEN "NEGATIVEACK" ELSE type
    BY ONLY <2>1 DEF Action
  <2>3. QED
    BY ONLY <1>1, <1>2, <1>7, <1>11, <2>2, Zenon
<1>12. QED
  BY <1>9, <1>10, <1>11

(* A header one end creates is not mistaken by the other, for every length. *)
THEOREM CreatedCorrect == Spec => []CreatedIsUnderstood
  BY HeaderInit, HeaderNext, Understood, PTL DEF Spec

-----------------------------------------------------------------------------
(* The tester. *)

LEMMA TesterInit == Init => TesterInv
<1>1. DOMAIN EmptyBuffer = 0 .. MaxDataSize - 1
  BY ONLY Zenon DEF EmptyBuffer
<1>2. Init => buffer = EmptyBuffer /\ heard = {}
  BY DEF Init
<1>3. QED
  BY ONLY <1>1, <1>2, Zenon DEF TesterInv, VehicleInfoUnderstood

LEMMA TesterFrame ==
  ASSUME TesterInv, UNCHANGED testerVars
  PROVE  TesterInv'
<1>1. buffer' = buffer /\ results' = results /\ heard' = heard /\ intact' = intact
  BY DEF testerVars
<1>2. QED
  BY ONLY <1>1, TesterInv, Zenon DEF TesterInv, VehicleInfoUnderstood

LEMMA BufferKept ==
  ASSUME NEW b, NEW message, NEW size
  PROVE  DOMAIN Received(b, message, size) = DOMAIN b
  BY Zenon DEF Received

(* What has a header at most leaves the data of a response alone. *)
LEMMA DataKept ==
  ASSUME NEW b, DOMAIN b = 0 .. MaxDataSize - 1, NEW message,
         NEW size \in Nat, size <= GenericHeaderLength
  PROVE  parseVIResponseInformation(Received(b, message, size))
           = parseVIResponseInformation(b)
<1>1. PICK next : next = Received(b, message, size)
  OBVIOUS
<1>2. \A i \in 8 .. 39 : next[i] = b[i]
  <2>1. \A i \in 8 .. 39 : i \in 0 .. MaxDataSize - 1 /\ ~(i < size)
    BY DEF MaxDataSize, GenericHeaderLength
  <2>2. \A i \in 0 .. MaxDataSize - 1 : next[i] = IF i < size THEN message[i] ELSE b[i]
    BY ONLY <1>1, DOMAIN b = 0 .. MaxDataSize - 1, Zenon DEF Received
  <2>3. QED
    BY ONLY <2>1, <2>2, Zenon
<1>3. /\ [j \in 0 .. 16 |-> next[8 + j]] = [j \in 0 .. 16 |-> b[8 + j]]
      /\ [j \in 0 .. 1 |-> next[25 + j]] = [j \in 0 .. 1 |-> b[25 + j]]
      /\ [j \in 0 .. 5 |-> next[27 + j]] = [j \in 0 .. 5 |-> b[27 + j]]
      /\ [j \in 0 .. 5 |-> next[33 + j]] = [j \in 0 .. 5 |-> b[33 + j]]
      /\ next[39] = b[39]
  BY ONLY <1>2
<1>4. QED
  BY ONLY <1>1, <1>3, Zenon DEF parseVIResponseInformation

(* Only the code and the length of a response make an action for one. *)
LEMMA ResponseActions ==
  ASSUME NEW pattern \in BOOLEAN, NEW code, NEW length,
         ~(pattern /\ code = 4 /\ length \in {32, 33}),
         NEW a \in HeaderActions(pattern, code, length)
  PROVE  a.type # "VEHICLEIDENTRESPONSE"
<1>1. CASE ~pattern
  BY <1>1 DEF HeaderActions, Action
<1>2. CASE pattern /\ code \notin KnownCodes
  BY <1>2 DEF HeaderActions, Action
<1>3. CASE pattern /\ code \in KnownCodes
  <2>1. PICK type : type = TypeOfCode(code)
    OBVIOUS
  <2>2. type = "VEHICLEIDENTRESPONSE" => code = 4
    <3>1. [code |-> code, type |-> type] \in ReceivedTypes
      BY <1>3, <2>1, KnownCodeType
    <3>2. QED
      BY ONLY <3>1 DEF ReceivedTypes
  <2>3. CASE LengthValid(type, length)
    <3>1. PICK v \in GarbageByte : a = Action(type, v, length)
      BY <1>3, <2>1, <2>3 DEF HeaderActions
    <3>2. type # "VEHICLEIDENTRESPONSE"
      BY <1>3, <2>2, <2>3 DEF LengthValid
    <3>3. QED
      BY <3>1, <3>2 DEF Action
  <2>4. CASE ~LengthValid(type, length)
    <3>1. a = Action(IF ReturnsOnBadLength(type) THEN "NEGATIVEACK" ELSE type,
                     InvalidPayloadLengthCode, length)
      BY <1>3, <2>1, <2>4 DEF HeaderActions
    <3>2. QED
      BY ONLY <3>1 DEF Action, ReturnsOnBadLength
  <2>5. QED
    BY <2>3, <2>4
<1>4. QED
  BY <1>1, <1>2, <1>3

(* What cannot pass for a response changes nothing of what the tester       *)
(* shows, whatever its payload.                                             *)
LEMMA OtherIgnored ==
  ASSUME NEW message, NEW size \in Nat, ~MayPassForResponse(message, size),
         NEW b, DOMAIN b = 0 .. MaxDataSize - 1, NEW shown,
         NEW next \in receiveUdpMessage(Received(b, message, size), size, shown)
  PROVE  next = shown
<1>1. PICK bytes : bytes = Received(b, message, size)
  OBVIOUS
<1>2. size >= 8
  BY DEF MayPassForResponse, GenericHeaderLength
<1>3. \A i \in 0 .. 7 : bytes[i] = message[i]
  <2>1. \A i \in 0 .. 7 : i \in 0 .. MaxDataSize - 1 /\ i < size
    BY <1>2 DEF MaxDataSize
  <2>2. \A i \in 0 .. MaxDataSize - 1 :
          bytes[i] = IF i < size THEN message[i] ELSE b[i]
    BY ONLY <1>1, DOMAIN b = 0 .. MaxDataSize - 1, Zenon DEF Received
  <2>3. QED
    BY ONLY <2>1, <2>2, Zenon
<1>4. /\ bytes[0] = message[0] /\ bytes[1] = message[1] /\ bytes[2] = message[2]
      /\ bytes[3] = message[3] /\ bytes[4] = message[4] /\ bytes[5] = message[5]
      /\ bytes[6] = message[6] /\ bytes[7] = message[7]
  BY ONLY <1>3
<1>5. /\ PatternOk(bytes) = PatternOk(message)
      /\ PayloadCode(bytes) = PayloadCode(message)
      /\ PayloadLength(bytes) = PayloadLength(message)
  <2>1. PatternOk(bytes) = PatternOk(message)
    BY ONLY <1>4, Zenon DEF PatternOk
  <2>2. PayloadCode(bytes) = PayloadCode(message)
    BY ONLY <1>4, Zenon DEF PayloadCode
  <2>3. PayloadLength(bytes) = PayloadLength(message)
    BY ONLY <1>4, SMT DEF PayloadLength
  <2>4. QED
    BY <2>1, <2>2, <2>3
<1>6. PICK pattern : pattern = PatternOk(bytes)
  OBVIOUS
<1>7. PICK code : code = PayloadCode(bytes)
  OBVIOUS
<1>8. PICK length : length = PayloadLength(bytes)
  OBVIOUS
<1>9. pattern \in BOOLEAN /\ ~(pattern /\ code = 4 /\ length \in {32, 33})
  <2>1. pattern \in BOOLEAN
    BY <1>6 DEF PatternOk
  <2>2. ~(PatternOk(message) /\ PayloadCode(message) = 4
            /\ PayloadLength(message) \in {32, 33})
    BY ONLY ~MayPassForResponse(message, size), Zenon DEF MayPassForResponse
  <2>3. QED
    BY ONLY <1>5, <1>6, <1>7, <1>8, <2>1, <2>2, Zenon
<1>10. parseGenericHeader(bytes, size) = HeaderActions(pattern, code, length)
  BY ONLY <1>2, <1>6, <1>7, <1>8 DEF parseGenericHeader, GenericHeaderLength
<1>11. \A a \in parseGenericHeader(bytes, size) : a.type # "VEHICLEIDENTRESPONSE"
  BY ONLY <1>9, <1>10, ResponseActions, Zenon
<1>12. next \in receiveUdpMessage(bytes, size, shown)
  BY ONLY <1>1, Zenon, next \in receiveUdpMessage(Received(b, message, size), size, shown)
<1>13. QED
  BY ONLY <1>11, <1>12 DEF receiveUdpMessage

(* Nor does anything that is not a whole response, while the data of the    *)
(* last one are in the buffer.                                              *)
LEMMA OverwritesKeeps ==
  ASSUME NEW message, NEW size \in Nat, TesterInv,
         TesterReceives(message, size), Overwrites(message, size)
  PROVE  TesterInv'
<1>1. /\ DOMAIN buffer = 0 .. MaxDataSize - 1
      /\ \A v \in heard : results = Identity(v)
      /\ intact => \A v \in heard : parseVIResponseInformation(buffer) = Identity(v)
  BY ONLY TesterInv, Zenon DEF TesterInv, VehicleInfoUnderstood
<1>2. /\ buffer' = Received(buffer, message, size)
      /\ results' \in receiveUdpMessage(buffer', size, results)
  BY DEF TesterReceives
<1>3. /\ intact' = (intact /\ size <= GenericHeaderLength)
      /\ heard' = IF intact' \/ ~MayPassForResponse(message, size) THEN heard ELSE {}
  BY DEF Overwrites
<1>4. DOMAIN buffer' = 0 .. MaxDataSize - 1
  BY ONLY <1>1, <1>2, BufferKept, Zenon
<1>5. CASE intact'
  <2>1. intact /\ size <= GenericHeaderLength /\ heard' = heard
    BY ONLY <1>3, <1>5, Zenon
  <2>2. parseVIResponseInformation(buffer') = parseVIResponseInformation(buffer)
    <3>1. parseVIResponseInformation(Received(buffer, message, size))
            = parseVIResponseInformation(buffer)
      BY ONLY <1>1, <2>1, DataKept, size \in Nat
    <3>2. QED
      BY ONLY <1>2, <3>1, Zenon
  <2>3. results' \in {results, parseVIResponseInformation(buffer')}
    BY ONLY <1>2 DEF receiveUdpMessage
  <2>4. \A v \in heard' : /\ results' = Identity(v)
                         /\ parseVIResponseInformation(buffer') = Identity(v)
    BY ONLY <1>1, <2>1, <2>2, <2>3, Zenon
  <2>5. QED
    BY ONLY <1>4, <2>4, Zenon DEF TesterInv, VehicleInfoUnderstood
<1>6. CASE ~intact' /\ MayPassForResponse(message, size)
  <2>1. heard' = {}
    BY ONLY <1>3, <1>6, Zenon
  <2>2. QED
    BY ONLY <1>4, <2>1, Zenon DEF TesterInv, VehicleInfoUnderstood
<1>7. CASE ~intact' /\ ~MayPassForResponse(message, size)
  <2>1. heard' = heard
    BY ONLY <1>3, <1>7, Zenon
  <2>2. results' \in receiveUdpMessage(Received(buffer, message, size), size, results)
    BY ONLY <1>2, Zenon
  <2>3. results' = results
    BY ONLY <1>1, <1>7, <2>2, OtherIgnored, size \in Nat
  <2>4. QED
    BY ONLY <1>1, <1>4, <1>7, <2>1, <2>3, Zenon DEF TesterInv, VehicleInfoUnderstood
<1>8. QED
  BY ONLY <1>5, <1>6, <1>7, Zenon

LEMMA TesterNext == TesterInv /\ [Next]_vars => TesterInv'
<1> SUFFICES ASSUME TesterInv, [Next]_vars PROVE TesterInv'
  OBVIOUS
<1>1. DOMAIN buffer = 0 .. MaxDataSize - 1 /\ VehicleInfoUnderstood
  BY DEF TesterInv
<1>2. ASSUME NEW v \in Vehicles, VehicleAnswers(v) PROVE TesterInv'
  <2>1. PICK message \in createVehicleIdentificationResponse(v) :
          TesterReceives(message, VIResponseSize)
    BY <1>2 DEF VehicleAnswers
  <2>2. heard' = {v} /\ v \in Vehicle
    BY <1>2, ExchangeAssumption DEF VehicleAnswers
  <2>3. /\ buffer' = Received(buffer, message, VIResponseSize)
        /\ results' \in receiveUdpMessage(
                          Received(buffer, message, VIResponseSize), VIResponseSize, results)
    BY <2>1 DEF TesterReceives
  <2>4. /\ receiveUdpMessage(Received(buffer, message, VIResponseSize), VIResponseSize,
                             results) = {Identity(v)}
        /\ parseVIResponseInformation(Received(buffer, message, VIResponseSize))
             = Identity(v)
    BY ONLY <1>1, <2>1, <2>2, VehicleInfoDecodes
  <2>5. results' = Identity(v) /\ parseVIResponseInformation(buffer') = Identity(v)
    BY ONLY <2>3, <2>4, Zenon
  <2>6. DOMAIN buffer' = 0 .. MaxDataSize - 1
    BY ONLY <1>1, <2>3, BufferKept, Zenon
  <2>7. QED
    BY ONLY <2>2, <2>5, <2>6, Zenon DEF TesterInv, VehicleInfoUnderstood
<1>3. ASSUME NEW v \in Vehicles, NEW size \in CutSizes, ResponseCut(v, size)
      PROVE  TesterInv'
  <2>1. size \in Nat
    BY ExchangeAssumption DEF VIResponseSize, VIResponseLength, GenericHeaderLength
  <2>2. PICK message : TesterReceives(message, size) /\ Overwrites(message, size)
    BY <1>3, Zenon DEF ResponseCut
  <2>3. QED
    BY ONLY <2>1, <2>2, TesterInv, OverwritesKeeps
<1>4. ASSUME NEW d \in OtherDatagrams, OtherDatagram(d) PROVE TesterInv'
  <2>1. d.size \in Nat
    BY ExchangeAssumption DEF Datagram, MaxDataSize
  <2>2. TesterReceives(d.bytes, d.size) /\ Overwrites(d.bytes, d.size)
    BY <1>4 DEF OtherDatagram
  <2>3. QED
    BY ONLY <2>1, <2>2, TesterInv, OverwritesKeeps
<1>5. ASSUME NEW d \in OtherDatagrams, TcpData(d) PROVE TesterInv'
  <2>1. d.size \in Nat
    BY ExchangeAssumption DEF Datagram, MaxDataSize
  <2>2. /\ buffer' = Received(buffer, d.bytes, d.size)
        /\ intact' = (intact /\ d.size <= GenericHeaderLength)
        /\ results' = results /\ heard' = heard
    BY <1>5 DEF TcpData
  <2>3. DOMAIN buffer' = 0 .. MaxDataSize - 1
    BY ONLY <1>1, <2>2, BufferKept, Zenon
  <2>4. intact' => parseVIResponseInformation(buffer') = parseVIResponseInformation(buffer)
    <3>1. d.size <= GenericHeaderLength =>
            parseVIResponseInformation(Received(buffer, d.bytes, d.size))
              = parseVIResponseInformation(buffer)
      BY ONLY <1>1, <2>1, DataKept
    <3>2. QED
      BY ONLY <2>2, <3>1, Zenon
  <2>5. QED
    BY ONLY <2>2, <2>3, <2>4, TesterInv, Zenon DEF TesterInv, VehicleInfoUnderstood
<1>6. CASE \/ \E type \in CreatedTypes, length \in CreatedLengths : Create(type, length)
           \/ \E h \in ForeignHeaders, n \in {7, 8} : Foreign(h, n)
           \/ Parse \/ Again \/ UNCHANGED vars
  <2>1. UNCHANGED testerVars
    BY <1>6 DEF Create, Foreign, Parse, Again, vars
  <2>2. QED
    BY ONLY <2>1, TesterInv, TesterFrame
<1>7. QED
  BY <1>2, <1>3, <1>4, <1>5, <1>6 DEF Next

(* For every vehicle and every datagram: the tester shows the vehicle that  *)
(* answered last exactly as it was configured, and no other datagram or TCP *)
(* data change that, except what MayPassForResponse says once the           *)
(* response's data in the buffer were overwritten.                          *)
THEOREM VehicleCorrect == Spec => []VehicleInfoUnderstood
<1>1. TesterInv => VehicleInfoUnderstood
  BY DEF TesterInv
<1>2. QED
  BY TesterInit, TesterNext, <1>1, PTL DEF Spec
=============================================================================
