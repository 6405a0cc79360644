---------------------- MODULE DiagnosticMessageHandler ----------------------
(***************************************************************************)
(* libdoipcommon/src/DiagnosticMessageHandler.cpp.                         *)
(*                                                                         *)
(* IntMax is the largest value of the build's int, 2^31 - 1; TLC's         *)
(* instances shrink it so that lengths beyond it are among their inputs.   *)
(***************************************************************************)
EXTENDS Integers

CONSTANT IntMax

ASSUME IntMaxAssumption == IntMax \in Nat /\ IntMax >= 11

UIntMax == 2 * IntMax + 1

(* a 32 bit length passed as an int *)
ToInt(n) == IF n > IntMax THEN n - UIntMax - 1 ELSE n

ValidDiagnosticMessageCode == 0
InvalidSourceAddressCode == 2
UnknownTargetAddressCode == 3

DiagnosticMessageMinimumLength == 4

(* mutant: the registered address is not compared *)
parseDiagnosticMessageAnySource(sourceAddress, sa, diagMessageLength) ==
  IF diagMessageLength < DiagnosticMessageMinimumLength
    THEN UnknownTargetAddressCode ELSE ValidDiagnosticMessageCode

(* The returned code; the callback runs exactly when it is                  *)
(* ValidDiagnosticMessageCode.                                              *)
parseDiagnosticMessage(sourceAddress, sa, diagMessageLength) ==
  IF diagMessageLength < DiagnosticMessageMinimumLength
    THEN UnknownTargetAddressCode
  ELSE IF sa # sourceAddress THEN InvalidSourceAddressCode
  ELSE ValidDiagnosticMessageCode

(* the fields of the messages that tell them apart *)
createDiagnosticACK(ackType, targetAddress, responseCode) ==
  [kind |-> IF ackType THEN "DIAGNOSTICPOSITIVEACK" ELSE "DIAGNOSTICNEGATIVEACK",
   to |-> targetAddress, code |-> responseCode]

createDiagnosticMessage(targetAddress) ==
  [kind |-> "DIAGNOSTICMESSAGE", to |-> targetAddress, code |-> 0]
=============================================================================
