--------------------- MODULE VehicleIdentificationProofs ---------------------
(***************************************************************************)
(* What a client makes of an identification response, for every vehicle    *)
(* and every content of its buffer.                                        *)
(***************************************************************************)
EXTENDS VehicleIdentification, SequenceTheorems, TLAPS

(* The header of an identification response is accepted as one. *)
LEMMA ResponseHeaderAccepted ==
  ASSUME NEW header \in createGenericHeader("VEHICLEIDENTRESPONSE", VIResponseLength),
         NEW data, \A i \in 0 .. 7 : data[i] = header[i]
  PROVE  /\ parseGenericHeader(data, VIResponseSize) # {}
         /\ \A a \in parseGenericHeader(data, VIResponseSize) :
              a.type = "VEHICLEIDENTRESPONSE"
<1>1. header = HeaderBytes(4, 32)
  BY DEF createGenericHeader, WrittenCodes, WrittenTypes, VIResponseLength
<1>2. /\ data[0] = 2 /\ data[1] = 253 /\ data[2] = 0 /\ data[3] = 4
      /\ data[4] = 0 /\ data[5] = 0 /\ data[6] = 0 /\ data[7] = 32
  BY <1>1 DEF HeaderBytes
<1>3. PatternOk(data) /\ PayloadCode(data) = 4 /\ PayloadLength(data) = 32
  BY <1>2 DEF PatternOk, PayloadCode, PayloadLength
<1>4. TypeOfCode(4) = "VEHICLEIDENTRESPONSE" /\ 4 \in KnownCodes
  BY DEF TypeOfCode, KnownCodes, ReceivedTypes
<1>5. LengthValid("VEHICLEIDENTRESPONSE", 32)
  BY DEF LengthValid
<1>6. parseGenericHeader(data, VIResponseSize)
        = {Action("VEHICLEIDENTRESPONSE", v, 32) : v \in GarbageByte}
  BY <1>3, <1>4, <1>5
     DEF parseGenericHeader, HeaderActions, VIResponseSize, VIResponseLength,
         GenericHeaderLength
<1>7. PICK g : g \in GarbageByte
  BY GarbageAssumption DEF GarbageByte
<1>8. Action("VEHICLEIDENTRESPONSE", g, 32) \in parseGenericHeader(data, VIResponseSize)
  BY <1>6, <1>7
<1>9. ASSUME NEW a \in parseGenericHeader(data, VIResponseSize)
      PROVE  a.type = "VEHICLEIDENTRESPONSE"
  <2>1. PICK w \in GarbageByte : a = Action("VEHICLEIDENTRESPONSE", w, 32)
    BY <1>6
  <2>2. QED
    BY <2>1 DEF Action
<1>10. QED
  BY <1>8, <1>9

(* The VIN is cut or padded to 17 characters. *)
LEMMA VINPadded ==
  ASSUME NEW VIN \in Seq(Byte), NEW i \in 0 .. 16
  PROVE  VINBytes(VIN)[i] = (VIN \o [k \in 1 .. VINLength |-> 48])[i + 1]
<1> DEFINE zeros == [k \in 1 .. VINLength |-> 48]
           n == Len(VIN)
<1>1. /\ zeros \in Seq(Byte) /\ Len(zeros) = 17
      /\ \A k \in 1 .. 17 : zeros[k] = 48
  BY DEF VINLength, Byte
<1>2. n \in Nat
  OBVIOUS
<1>3. VINBytes(VIN)[i] = IF i < n THEN VIN[i + 1] ELSE 48
  BY DEF VINBytes, VINLength
<1> HIDE DEF zeros
<1>4. \A k \in 1 .. n + 17 :
        (VIN \o zeros)[k] = IF k <= n THEN VIN[k] ELSE zeros[k - n]
  <2>1. \A k \in 1 .. n + Len(zeros) :
          (VIN \o zeros)[k] = IF k <= n THEN VIN[k] ELSE zeros[k - n]
    <3>1. VIN \in Seq(Byte) /\ zeros \in Seq(Byte)
      BY <1>1
    <3>2. QED
      BY ONLY <3>1, ConcatProperties
  <2>2. QED
    BY <1>1, <2>1
<1> HIDE DEF n
<1>5. CASE i < n
  <2>1. i + 1 \in 1 .. n + 17 /\ i + 1 <= n
    BY <1>2, <1>5
  <2>2. (VIN \o zeros)[i + 1] = VIN[i + 1]
    BY <1>4, <2>1
  <2>3. QED
    BY <1>3, <1>5, <2>2 DEF zeros
<1>6. CASE ~(i < n)
  <2>1. /\ i + 1 \in 1 .. n + 17 /\ ~(i + 1 <= n)
        /\ i + 1 - n \in 1 .. 17
    <3>1. i \in Nat /\ i <= 16
      OBVIOUS
    <3>2. n <= i
      BY ONLY <1>2, <1>6, <3>1
    <3>3. QED
      BY ONLY <1>2, <3>1, <3>2
  <2>2. (VIN \o zeros)[i + 1] = 48
    <3>1. (VIN \o zeros)[i + 1] = zeros[i + 1 - n]
      <4>1. PICK k \in Int : k = i + 1
        OBVIOUS
      <4>2. k \in 1 .. n + 17 /\ ~(k <= n) /\ k - n = i + 1 - n
        BY <1>2, <2>1, <4>1
      <4>3. (VIN \o zeros)[k] = zeros[k - n]
        BY ONLY <1>2, <1>4, <4>2
      <4>4. (VIN \o zeros)[k] = zeros[i + 1 - n]
        BY ONLY <4>2, <4>3, Zenon
      <4>5. QED
        BY ONLY <4>1, <4>4, Zenon
    <3>2. zeros[i + 1 - n] = 48
      BY ONLY <1>1, <2>1, Zenon
    <3>3. QED
      BY <3>1, <3>2
  <2>3. QED
    BY <1>3, <1>6, <2>2 DEF zeros
<1>7. QED
  BY <1>5, <1>6

(* Six bytes are what their indices say. *)
LEMMA SixBytes ==
  ASSUME NEW f \in Bytes(6)
  PROVE  f = [j \in 0 .. 5 |-> f[j]]
<1>1. f \in [0 .. 5 -> Byte]
  <2>1. 6 - 1 = 5
    OBVIOUS
  <2>2. QED
    BY <2>1 DEF Bytes
<1>2. QED
  BY ONLY <1>1, Zenon

(* A client that receives a vehicle's response shows exactly what was       *)
(* configured, whatever its buffer and its results held before.             *)
THEOREM VehicleInfoDecodes ==
  ASSUME NEW v \in Vehicle, NEW results,
         NEW b, DOMAIN b = 0 .. MaxDataSize - 1,
         NEW message \in createVehicleIdentificationResponse(v)
  PROVE  /\ receiveUdpMessage(Received(b, message, VIResponseSize), VIResponseSize,
                              results) = {Identity(v)}
         /\ parseVIResponseInformation(Received(b, message, VIResponseSize)) = Identity(v)
<1> DEFINE data == Received(b, message, VIResponseSize)
<1>1. PICK header \in createGenericHeader("VEHICLEIDENTRESPONSE", VIResponseLength) :
        message = [i \in 0 .. VIResponseSize - 1 |->
                     IF i <= 7 THEN header[i]
                     ELSE IF i <= 24 THEN VINBytes(v.VIN)[i - 8]
                     ELSE IF i = 25 THEN v.LogicalGatewayAddress \div 256
                     ELSE IF i = 26 THEN v.LogicalGatewayAddress % 256
                     ELSE IF i <= 32 THEN v.EID[i - 27]
                     ELSE IF i <= 38 THEN v.GID[i - 33]
                     ELSE v.FurtherActionReq]
  BY DEF createVehicleIdentificationResponse
<1>2. \A i \in 0 .. 39 : data[i] = message[i]
  BY DEF Received, MaxDataSize, VIResponseSize, VIResponseLength,
         GenericHeaderLength
<1> HIDE DEF data
<1>3. \A i \in 0 .. 7 : data[i] = header[i]
  BY ONLY <1>1, <1>2 DEF VIResponseSize, VIResponseLength, GenericHeaderLength
<1>4. /\ \A j \in 0 .. 16 : data[8 + j] = VINBytes(v.VIN)[j]
      /\ data[25] = v.LogicalGatewayAddress \div 256
      /\ data[26] = v.LogicalGatewayAddress % 256
      /\ \A j \in 0 .. 5 : data[27 + j] = v.EID[j]
      /\ \A j \in 0 .. 5 : data[33 + j] = v.GID[j]
      /\ data[39] = v.FurtherActionReq
  BY <1>1, <1>2 DEF VIResponseSize, VIResponseLength, GenericHeaderLength
<1>5. v.VIN \in Seq(Byte) /\ v.EID \in Bytes(6) /\ v.GID \in Bytes(6)
  BY DEF Vehicle
<1>6. parseVIResponseInformation(data) = Identity(v)
  <2>1. \A j \in 0 .. 16 :
          data[8 + j] = (v.VIN \o [k \in 1 .. VINLength |-> 48])[j + 1]
    <3> TAKE j \in 0 .. 16
    <3>1. data[8 + j] = VINBytes(v.VIN)[j]
      BY ONLY <1>4, Zenon, j \in 0 .. 16
    <3>2. QED
      BY ONLY <1>5, <3>1, VINPadded, Zenon, j \in 0 .. 16
  <2>2. [j \in 0 .. 16 |-> data[8 + j]]
          = [j \in 0 .. 16 |-> (v.VIN \o [k \in 1 .. VINLength |-> 48])[j + 1]]
    BY ONLY <2>1
  <2>3. [j \in 0 .. 1 |-> data[25 + j]]
          = [j \in 0 .. 1 |-> IF j = 0 THEN v.LogicalGatewayAddress \div 256
                             ELSE v.LogicalGatewayAddress % 256]
    BY ONLY <1>4
  <2>4. [j \in 0 .. 5 |-> data[27 + j]] = v.EID
    <3>1. [j \in 0 .. 5 |-> data[27 + j]] = [j \in 0 .. 5 |-> v.EID[j]]
      BY ONLY <1>4
    <3>2. QED
      BY <1>5, <3>1, SixBytes
  <2>5. [j \in 0 .. 5 |-> data[33 + j]] = v.GID
    <3>1. [j \in 0 .. 5 |-> data[33 + j]] = [j \in 0 .. 5 |-> v.GID[j]]
      BY ONLY <1>4
    <3>2. QED
      BY <1>5, <3>1, SixBytes
  <2>6. QED
    BY ONLY <1>4, <2>2, <2>3, <2>4, <2>5, Zenon
       DEF parseVIResponseInformation, Identity
<1>7. QED
  <2>1. \A a \in parseGenericHeader(data, VIResponseSize) :
          a.type = "VEHICLEIDENTRESPONSE"
    BY <1>3, ResponseHeaderAccepted
  <2>2. PICK a : a \in parseGenericHeader(data, VIResponseSize)
    BY <1>3, ResponseHeaderAccepted
  <2>3. QED
    BY ONLY <1>6, <2>1, <2>2 DEF receiveUdpMessage, data
=============================================================================
