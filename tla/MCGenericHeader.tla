-------------------------- MODULE MCGenericHeader --------------------------
(***************************************************************************)
(* The bounded inputs of HeaderExchange.                                   *)
(***************************************************************************)
EXTENDS HeaderExchange

(* A right and a wrong pattern, every code the parser knows with its         *)
(* neighbours, lengths at each boundary.  TLC's integers end at 2^31 - 1,    *)
(* so the top length byte stays below 128.                                   *)
MCForeignHeaders ==
  {[i \in 0 .. 7 |-> b[i + 1]] :
     b \in {2} \X {253, 252} \X {0, 128} \X (0 .. 8) \X
           {0, 127} \X {0} \X {0, 1} \X {0, 4, 5, 7, 8, 11, 32, 33, 34}}
MCCreatedLengths ==
  {0, 1, 2, 4, 5, 9, 32, 33, 300, 65541, 16777221, 2147483647}
MCGarbage == {4, 65540}

(* Vehicles with a short, an exact and a long VIN, and values whose unused  *)
(* high bytes are not zero.                                                 *)
Eight(bytes) == [i \in 0 .. 7 |-> bytes[i + 1]]
Vin(n) == [i \in 1 .. n |-> 64 + i]
MCVehicles ==
  {Configured(Vin(6), 4660, Eight(<<9, 8, 7, 6, 5, 4, 3, 2>>), Eight(<<0, 0, 1, 2, 3, 4, 5, 6>>), 0),
   Configured(Vin(17), 0, Eight(<<0, 0, 0, 0, 0, 0, 0, 1>>), Eight(<<1, 1, 0, 0, 0, 0, 0, 0>>), 256),
   Configured(Vin(18), 65535, Eight(<<0, 0, 1, 0, 0, 0, 0, 0>>), Eight(<<0, 0, 0, 0, 0, 0, 0, 9>>), 511)}
MCCutSizes == {7, 8, 39}

(* A bare request, an acknowledge with a payload, a bare header of a         *)
(* response, one whose length no response has, and two bytes.                *)
Other(header, payload, size) ==
  [size |-> size,
   bytes |-> [i \in 0 .. MaxDataSize - 1 |-> IF i < 8 THEN header[i] ELSE payload]]
MCOtherDatagrams ==
  {Other(HeaderBytes(1, 0), 0, 8), Other(HeaderBytes(32770, 5), 7, 13),
   Other(HeaderBytes(4, 32), 0, 8), Other(HeaderBytes(4, 31), 7, 39),
   Other(HeaderBytes(1, 0), 0, 2)}
=============================================================================
