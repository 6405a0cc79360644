---------------------------- MODULE DoIPSession ----------------------------
(***************************************************************************)
(* What a DoIP server promises to one client: the abstract specification   *)
(* that DoIPConnection implements.  There are no sockets, threads or        *)
(* buffers here, only the dialogue.  A reply to a client that has reset    *)
(* the connection is lost.                                                 *)
(***************************************************************************)
EXTENDS Integers, Sequences

CONSTANT NoRoute   \* no address has been activated

VARIABLES
  phase,     \* "open", "refused", "closed" or "reported" to the application
  route,     \* the activated tester address
  replies,   \* what was answered to the request in hand
  served,    \* the addresses whose data reached the application
  broken     \* the process ended, or no longer does what its source says

sessionVars == <<phase, route, replies, served, broken>>

Testers == 3584 .. 4095
Reply(kind, to, code) == [kind |-> kind, to |-> to, code |-> code]

(* what the server may answer to a request *)
Malformed(m) == m.kind = "NEGATIVEACK" /\ m.code \in {0, 1, 4}
Denied(m) == m.kind = "ROUTINGACTIVATIONRESPONSE" /\ m.code \in {0, 6}
Accepted(m, a) == m = Reply("ROUTINGACTIVATIONRESPONSE", a, 16)
Confirmed(m) == route # NoRoute /\ m = Reply("DIAGNOSTICPOSITIVEACK", route, 0)
Rejected(m) == route # NoRoute /\ m = Reply("DIAGNOSTICNEGATIVEACK", route, 3)

SessionInit ==
  /\ phase = "open" /\ route = NoRoute /\ replies = <<>>
  /\ served = {} /\ broken = FALSE

(* the next request is awaited, or there is none *)
NextRequest ==
  /\ replies' = <<>>
  /\ UNCHANGED <<phase, route, served, broken>>

(* A request is answered: its header is malformed, an activation is         *)
(* accepted or denied, or a diagnostic message is confirmed or rejected by  *)
(* the application, which is possible for the activated tester only.        *)
Answer ==
  /\ phase = "open"
  /\ replies = <<>> /\ Len(replies') = 1
  /\ \/ Malformed(replies'[1]) \/ Denied(replies'[1])
     \/ \E a \in Testers : Accepted(replies'[1], a)
     \/ Confirmed(replies'[1]) \/ Rejected(replies'[1])
  /\ UNCHANGED <<phase, route, served, broken>>

(* the accepted tester becomes the one that is served *)
Activate(a) ==
  /\ phase = "open"
  /\ replies = <<>> \/ Accepted(replies[1], a)
  /\ route' = a
  /\ UNCHANGED <<phase, replies, served, broken>>

(* Data reach the application from the activated tester only, after they    *)
(* were confirmed, and are answered to that tester.                         *)
Serve ==
  /\ phase = "open"
  /\ route # NoRoute
  /\ replies = <<>> \/ (Len(replies) = 1 /\ Confirmed(replies[1]))
  /\ served' = served \cup {route}
  /\ replies' \in {replies, Append(replies, Reply("DIAGNOSTICMESSAGE", route, 0))}
  /\ UNCHANGED <<phase, route, broken>>

(* a wrong pattern or length, or a denied activation, ends the session *)
Refuse ==
  /\ phase = "open"
  /\ \/ replies = <<>>
     \/ Malformed(replies[1]) /\ replies[1].code # 1
     \/ Denied(replies[1])
  /\ phase' = "refused"
  /\ UNCHANGED <<route, replies, served, broken>>

Close ==
  /\ phase \in {"open", "refused"}
  /\ phase' = "closed"
  /\ UNCHANGED <<route, replies, served, broken>>

Report ==
  /\ phase = "closed"
  /\ phase' = "reported"
  /\ UNCHANGED <<route, replies, served, broken>>

Break == broken'

SessionNext ==
  \/ NextRequest \/ Answer \/ Serve \/ Refuse \/ Close \/ Report \/ Break
  \/ \E a \in Testers : Activate(a)

SessionSpec == SessionInit /\ [][SessionNext]_sessionVars

(* a closed session is reported to the application *)
SessionReports == phase = "closed" ~> phase = "reported" \/ broken
=============================================================================
