-------------------------- MODULE MCDoIPConnection --------------------------
(***************************************************************************)
(* Instances of DoIPConnection for TLC.                                    *)
(***************************************************************************)
EXTENDS DoIPConnection

(* Bounds.  An int ends at 15 here instead of 2^31 - 1, so that lengths      *)
(* beyond it (16) and the largest unsigned length (31) are among the inputs. *)
MCIntMax == 15
MCGarbage == {4}

Req(code, len, sa, act) ==
  [pattern |-> TRUE, code |-> code, len |-> len, sa |-> sa, act |-> act]

Activate == Req(5, 7, 3584, 0)
ActivateOther == Req(5, 11, 4095, 1)
ActivateUnknown == Req(5, 7, 4096, 0)
ActivateUnsupported == Req(5, 7, 3584, 2)
Diagnose == Req(32769, 5, 3584, 0)
DiagnoseOther == Req(32769, 5, 4095, 0)
DiagnoseLong == Req(32769, 16, 3584, 0)
DiagnoseLongest == Req(32769, 31, 3584, 0)
DiagnoseShort == Req(32769, 4, 3584, 0)
AliveResponse == Req(8, 2, 3584, 0)
Identify == Req(1, 0, 0, 0)
AckShort == Req(32770, 3, 3584, 0)
WrongPattern == [Activate EXCEPT !.pattern = FALSE]

AllRequests ==
  {Activate, ActivateOther, ActivateUnknown, ActivateUnsupported, Diagnose,
   DiagnoseOther, DiagnoseLong, DiagnoseLongest, DiagnoseShort, AliveResponse,
   Identify, AckShort, WrongPattern}

(* With two threads there are fewer requests: one that starts the timer, one *)
(* that is answered twice and one that ends the connection.                  *)
TimerRequests == {Activate, Diagnose, ActivateUnknown}
=============================================================================
