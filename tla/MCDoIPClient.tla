---------------------------- MODULE MCDoIPClient ----------------------------
(***************************************************************************)
(* A small instance of DoIPClient.                                         *)
(***************************************************************************)
EXTENDS DoIPClient

(* A read may end behind the addresses of an acknowledge: its code stays    *)
(* for the next read, which is then too short for a header or begins in     *)
(* the middle of a message.                                                 *)
MCReadSizes == {12}

(* the identification response of a vehicle *)
MCDatagrams ==
  {Wire("VEHICLEIDENTRESPONSE", [i \in 1 .. VIResponseLength |-> 64 + i])}

MCGarbage == {204}
=============================================================================
