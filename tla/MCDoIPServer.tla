---------------------------- MODULE MCDoIPServer ----------------------------
(***************************************************************************)
(* An instance of DoIPServer for TLC.                                      *)
(***************************************************************************)
EXTENDS DoIPServer

MCGarbage == {4}

Identify == [whole |-> TRUE, pattern |-> TRUE, code |-> 1, len |-> 0]
Unknown == [whole |-> TRUE, pattern |-> TRUE, code |-> 2, len |-> 0]
Short == [whole |-> FALSE, pattern |-> TRUE, code |-> 1, len |-> 0]

(* a request, a message the parser refuses, and one cut short *)
AllDatagrams == {Identify, Unknown, Short}
=============================================================================
