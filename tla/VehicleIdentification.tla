----------------------- MODULE VehicleIdentification -----------------------
(***************************************************************************)
(* What a vehicle tells about itself: the setters of DoIPServer.cpp,       *)
(* VehicleIdentificationHandler.cpp, which lays the data out as a message, *)
(* and receiveUdpMessage of DoIPClient.cpp, which takes it apart again.    *)
(* The client receives into a buffer that keeps the bytes of earlier       *)
(* messages.                                                               *)
(***************************************************************************)
EXTENDS DoIPGenericHeader, Sequences

VIResponseLength == 32
VIResponseSize == GenericHeaderLength + VIResponseLength
MaxDataSize == 64
VINLength == 17

Word == {n \in Nat : n < 65536}  \* uint16_t
Bytes(n) == [0 .. n - 1 -> Byte]
Buffer == Bytes(MaxDataSize)

(* the data members of DoIPServer that the setters write *)
Vehicle ==
  [VIN : Seq(Byte), LogicalGatewayAddress : Word, EID : Bytes(6),
   GID : Bytes(6), FurtherActionReq : Byte]

(* A 64 bit number, given by its eight bytes: the highest two are dropped. *)
setEID(inputEID) == [i \in 0 .. 5 |-> inputEID[i + 2]]
setGID(inputGID) == [i \in 0 .. 5 |-> inputGID[i + 2]]
setFAR(inputFAR) == inputFAR % 256

(* setVIN takes any string *)
Configured(vin, address, eid, gid, far) ==
  [VIN |-> vin, LogicalGatewayAddress |-> address, EID |-> setEID(eid),
   GID |-> setGID(gid), FurtherActionReq |-> setFAR(far)]

(* a VIN is cut, or padded with the character '0', to 17 bytes *)
VINBytes(VIN) == [i \in 0 .. VINLength - 1 |-> IF i < Len(VIN) THEN VIN[i + 1] ELSE 48]

createVehicleIdentificationResponse(v) ==
  {[i \in 0 .. VIResponseSize - 1 |->
      IF i <= 7 THEN header[i]
      ELSE IF i <= 24 THEN VINBytes(v.VIN)[i - 8]
      ELSE IF i = 25 THEN v.LogicalGatewayAddress \div 256
      ELSE IF i = 26 THEN v.LogicalGatewayAddress % 256
      ELSE IF i <= 32 THEN v.EID[i - 27]
      ELSE IF i <= 38 THEN v.GID[i - 33]
      ELSE v.FurtherActionReq] :
   header \in createGenericHeader("VEHICLEIDENTRESPONSE", VIResponseLength)}

-----------------------------------------------------------------------------
(* The client. *)

(* recvfrom overwrites as many bytes of the buffer as the datagram has *)
Received(buffer, message, size) ==
  [i \in DOMAIN buffer |-> IF i < size THEN message[i] ELSE buffer[i]]

parseVIResponseInformation(data) ==
  [VINResult |-> [j \in 0 .. 16 |-> data[8 + j]],
   LogicalAddressResult |-> [j \in 0 .. 1 |-> data[25 + j]],
   EIDResult |-> [j \in 0 .. 5 |-> data[27 + j]],
   GIDResult |-> [j \in 0 .. 5 |-> data[33 + j]],
   FurtherActionReqResult |-> data[39]]

(* mutant: whatever arrives is taken for an identification response *)
receiveUdpMessageAny(data, size, results) == {parseVIResponseInformation(data)}

(* The results after a datagram of the given size: they change only if the  *)
(* header says that it is an identification response.                       *)
receiveUdpMessage(data, size, results) ==
  {IF a.type = "VEHICLEIDENTRESPONSE" THEN parseVIResponseInformation(data)
   ELSE results : a \in parseGenericHeader(data, size)}

(* What a client should show of a vehicle; the VIN, followed by as many     *)
(* characters '0' as it takes, up to its 17th character.                    *)
Identity(v) ==
  [VINResult |-> [j \in 0 .. 16 |->
                    (v.VIN \o [k \in 1 .. VINLength |-> 48])[j + 1]],
   LogicalAddressResult |->
     [j \in 0 .. 1 |-> IF j = 0 THEN v.LogicalGatewayAddress \div 256
                      ELSE v.LogicalGatewayAddress % 256],
   EIDResult |-> v.EID, GIDResult |-> v.GID,
   FurtherActionReqResult |-> v.FurtherActionReq]
=============================================================================
