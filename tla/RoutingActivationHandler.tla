---------------------- MODULE RoutingActivationHandler ----------------------
(***************************************************************************)
(* libdoipserver/src/RoutingActivationHandler.cpp: which tester may talk   *)
(* to the server.  A logical address is the number its two bytes spell.    *)
(***************************************************************************)
EXTENDS Integers

UnknownSourceAddressCode == 0
UnsupportedRoutingTypeCode == 6
SuccessfullyRoutedCode == 16

RoutingCode == {UnknownSourceAddressCode, UnsupportedRoutingTypeCode,
                SuccessfullyRoutedCode}

(* the loop compares with every address from 0x0E00 to 0x0FFF *)
checkSourceAddress(address) == address \in 3584 .. 4095

ActivationTypeSupported(type) == type \in {0, 1}

parseRoutingActivation(address, type) ==
  IF ~checkSourceAddress(address) THEN UnknownSourceAddressCode
  ELSE IF ~ActivationTypeSupported(type) THEN UnsupportedRoutingTypeCode
  ELSE SuccessfullyRoutedCode

(* the fields of the response that tell responses apart *)
createRoutingActivationResponse(clientAddress, responseCode) ==
  [kind |-> "ROUTINGACTIVATIONRESPONSE", to |-> clientAddress,
   code |-> responseCode]
=============================================================================
