------------------------ MODULE DoIPConnectionSafety ------------------------
(***************************************************************************)
(* The safety properties of DoIPConnection, proved for every set of        *)
(* requests, every inactivity time, with and without TLS.  Each section    *)
(* has an inductive invariant, the lemma that every step keeps it and the  *)
(* theorems that follow from it.                                           *)
(***************************************************************************)
EXTENDS DoIPConnectionProofs

-----------------------------------------------------------------------------
(* The release of the descriptor and the SSL object.  closeSocket's places  *)
(* tell how much of the work is done, whichever thread did it.              *)

Released == session \notin {"ok", "failed"}

ClosePlaces ==
  \A t \in Threads :
    /\ cpc[t] = "null" => Released
    /\ cpc[t] \in {"close", "zero"} => ~ssl
    /\ cpc[t] = "zero" => owner[Fd] # "conn"

ReleaseInv ==
  /\ client_sock = 0 => ~ssl /\ owner[Fd] # "conn"
  /\ ~ssl => Released
  /\ ssl => session # "none"
  /\ ClosePlaces
  /\ rd \notin {"none", "tls"} => ~ssl

releaseVars == <<client_sock, ssl, session, owner, cpc, rd>>

(* A step that touches none of the variables involved keeps the invariant. *)
LEMMA ReleaseFrame ==
  ASSUME ReleaseInv, UNCHANGED releaseVars
  PROVE  ReleaseInv'
  BY DEF ReleaseInv, ClosePlaces, Released, releaseVars

(* closeSocket keeps the invariant, in whichever thread it runs. *)
LEMMA ReleaseClose ==
  ASSUME TypeOK, ReleaseInv, NEW t \in Threads, closeSocket(t)
  PROVE  ReleaseInv'
<1> USE DEF TypeOK, SocketTypeOK, CloseTypeOK
<1>1. rd' = rd
  BY DEF closeSocket, CloseCheck, CloseShutdown, CloseAwait, CloseFree, CloseNull,
     CloseDescriptor, CloseZero, closeUnchanged, receiverVars
<1>2. CASE CloseCheck(t) \/ CloseShutdown(t) \/ CloseAwait(t)
  BY <1>1, <1>2 DEF CloseCheck, CloseShutdown, CloseAwait, CloseGoto, socketVars,
     ReleaseInv, ClosePlaces, Released, ClosePc
<1>3. CASE CloseFree(t)
  BY <1>1, <1>3 DEF CloseFree, CloseGoto, ReleaseInv, ClosePlaces, Released, ClosePc
<1>4. CASE CloseNull(t)
  BY <1>1, <1>4 DEF CloseNull, CloseGoto, ReleaseInv, ClosePlaces, Released, ClosePc
<1>5. CASE CloseDescriptor(t)
  BY <1>1, <1>5, FdAssumption
     DEF CloseDescriptor, CloseGoto, ReleaseInv, ClosePlaces, Released, ClosePc
<1>6. CASE CloseZero(t)
  BY <1>1, <1>6 DEF CloseZero, CloseGoto, ReleaseInv, ClosePlaces, Released, ClosePc
<1>7. QED
  BY <1>2, <1>3, <1>4, <1>5, <1>6 DEF closeSocket

(* A step that calls closeSocket and otherwise touches nothing but rd. *)
LEMMA ReleaseCall ==
  ASSUME TypeOK, ReleaseInv, UNCHANGED socketVars, rd' \in {"none", rd},
         NEW t \in Threads, NEW s, CallClose(t, s)
  PROVE  ReleaseInv'
  BY DEF CallClose, ReleaseInv, ClosePlaces, Released, socketVars, TypeOK, CloseTypeOK

(* Sending may only find out that the session failed, while it exists. *)
LEMMA ReleaseSend ==
  ASSUME TypeOK, ReleaseInv, NEW m, NEW fs, sendMessage(m, fs),
         UNCHANGED <<client_sock, ssl, owner, cpc, rd>>
  PROVE  ReleaseInv'
<1>1. session' = session \/ (ssl /\ session = "ok" /\ session' = "failed")
  <2>1. CASE Channel \in {"ok", "conn"} /\ SendToClient(m)
    BY <2>1 DEF SendToClient, Channel, TypeOK, SocketTypeOK
  <2>2. CASE UNCHANGED session
    BY <2>2
  <2>3. QED
    BY <2>1, <2>2 DEF sendMessage
<1>2. QED
  BY <1>1 DEF ReleaseInv, ClosePlaces, Released

(* Every step keeps the invariant. *)
LEMMA ReleaseNext == TypeOK /\ ReleaseInv /\ [Next]_vars => ReleaseInv'
<1> SUFFICES ASSUME TypeOK, ReleaseInv, [Next]_vars PROVE ReleaseInv'
  OBVIOUS
<1> USE DEF releaseVars, socketVars, closeVars, receiverVars
<1>1. CASE ~ReceiveStray /\ ~(\E d \in {0, Fd} : ReuseDescriptor(d)) /\ Environment
  BY <1>1, ReleaseFrame
     DEF Environment, ClientSends, ClientCompletes, ClientCloses
<1>2. CASE \E d \in {0, Fd} : ReuseDescriptor(d)
  BY <1>2 DEF ReuseDescriptor, ReleaseInv, ClosePlaces, Released, TypeOK, SocketTypeOK
<1>3. CASE ReceiveStray
  <2>1. CASE CallClose("receiver", FALSE)
    BY <1>3, <2>1, ReleaseCall DEF ReceiveStray, Threads
  <2>2. CASE UNCHANGED closeVars
    BY <1>3, <2>2 DEF ReceiveStray, ReleaseInv, ClosePlaces, Released
  <2>3. QED
    BY <1>3, <2>1, <2>2 DEF ReceiveStray
<1>4. CASE \/ Setup \/ LoopTest \/ MessageReceived \/ CloseReturns \/ ActivateRouting
           \/ DropDiagnostic \/ ReadUnsetAddress \/ IgnoreMessage
           \/ triggerDisconnection \/ DestroyCallbacks \/ DisarmTimer \/ JoinTimer
  BY <1>4, ReleaseFrame
     DEF Setup, LoopTest, MessageReceived, CloseReturns, ActivateRouting,
         DropDiagnostic, ReadUnsetAddress, IgnoreMessage, triggerDisconnection,
         DestroyCallbacks, DisarmTimer, JoinTimer
<1>5. CASE BeginRead("header", "inHeader") \/ BeginRead("payload", "inPayload")
  BY <1>5 DEF BeginRead, ReleaseInv, ClosePlaces, Released
<1>6. CASE ReadPart \/ ReceiveHeader \/ ReceivePayload
  BY <1>6 DEF ReadPart, ReceiveHeader, ReceivePayload, ReleaseInv, ClosePlaces,
              Released
<1>7. CASE ReceiveShort \/ ReceiveFreed
  BY <1>7, ReleaseCall DEF ReceiveShort, ReceiveFreed, Threads
<1>8. CASE ReceiveFatal
  <2>1. ssl /\ session \in {"ok", "failed"}
    BY <1>8 DEF ReceiveFatal, ReadStops, ReadsClient, TooLong, ReleaseInv, TypeOK,
                SocketTypeOK
  <2>2. client_sock # 0 /\ \A t \in Threads : cpc[t] \notin {"null", "close", "zero"}
    BY <2>1 DEF ReleaseInv, ClosePlaces, Released
  <2>3. \A t \in Threads : cpc'[t] \notin {"null", "close", "zero"}
    BY <1>8, <2>2 DEF ReceiveFatal, CallClose, TypeOK, CloseTypeOK
  <2>4. QED
    BY <1>8, <2>1, <2>2, <2>3
       DEF ReceiveFatal, ReleaseInv, ClosePlaces, Released
<1>9. CASE AfterFatal
  <2>1. CASE CallClose("receiver", FALSE)
    BY <1>9, <2>1, ReleaseCall DEF AfterFatal, Threads
  <2>2. CASE UNCHANGED closeVars
    BY <1>9, <2>2, ReleaseFrame DEF AfterFatal
  <2>3. QED
    BY <1>9, <2>1, <2>2 DEF AfterFatal
<1>10. CASE NackAnswered \/ RefuseRouting
  <2>1. CASE CallClose("receiver", FALSE)
    BY <1>10, <2>1, ReleaseCall DEF NackAnswered, RefuseRouting, Threads
  <2>2. CASE UNCHANGED closeVars
    BY <1>10, <2>2, ReleaseFrame DEF NackAnswered, RefuseRouting
  <2>3. QED
    BY <1>10, <2>1, <2>2 DEF NackAnswered, RefuseRouting
<1>11. CASE \/ sendNegativeAck \/ RespondToActivation
            \/ NotifyApplication \/ DeliverDiagnostic
  <2>1. PICK m, fs : sendMessage(m, fs)
    BY <1>11 DEF sendNegativeAck, RespondToActivation, NotifyApplication,
       DeliverDiagnostic
  <2>2. UNCHANGED <<client_sock, ssl, owner, cpc, rd>>
    BY <1>11 DEF sendNegativeAck, RespondToActivation, NotifyApplication,
       DeliverDiagnostic, sendUnchanged
  <2>3. QED
    BY <2>1, <2>2, ReleaseSend
<1>12. CASE \E t \in Threads : closeSocket(t)
  BY <1>12, ReleaseClose
<1>13. CASE PollTimer \/ Second \/ CallbackReturns
  BY <1>13, ReleaseFrame DEF PollTimer, Second, CallbackReturns, untimed
<1>14. CASE aliveCheckTimeout
  BY <1>14, ReleaseCall DEF aliveCheckTimeout, untimed, Threads
<1>15. CASE UNCHANGED vars
  BY <1>15, ReleaseFrame DEF vars
<1>16. QED
  BY <1>1, <1>2, <1>3, <1>4, <1>5, <1>6, <1>7, <1>8, <1>9, <1>10, <1>11, <1>12,
     <1>13, <1>14, <1>15
     DEF Next, Environment, Receiver, Timer, Halted, Threads

(* However the receiver and the timer interleave in closeSocket, client_sock *)
(* is 0 only after the descriptor was closed and the SSL object freed.       *)
THEOREM ReleaseCorrect == Spec => []DescriptorReleased
<1>1. Init => ReleaseInv
  BY FdAssumption, TlsAssumption DEF Init, ReleaseInv, ClosePlaces, Released
<1>2. ReleaseInv => DescriptorReleased
  BY DEF ReleaseInv, DescriptorReleased, Released
<1>3. QED
  BY <1>1, <1>2, TypeCorrect, ReleaseNext, PTL DEF Spec

-----------------------------------------------------------------------------
(* The timer thread.  active is the only record that a thread was started.  *)

TimerInv ==
  /\ ~active => timerThreads = 0
  /\ timerThreads = 0 <=> tpc = "none"
  /\ timeout => tpc # "none"
  /\ TimerThreadJoined
  /\ tpc # "none" => routedClientAddress # Unset

(* A step that does not end the receiver or touch the timer. *)
LEMMA TimerFrame ==
  ASSUME TimerInv, UNCHANGED <<timerVars, routedClientAddress>>,
         rpc' = "gone" => rpc = "gone"
  PROVE  TimerInv'
  BY DEF TimerInv, TimerThreadJoined, timerVars

(* A step of the timer thread, or of the clock, while the thread runs. *)
LEMMA TimerThreadStep ==
  ASSUME TypeOK, TimerInv, PollTimer \/ Second \/ aliveCheckTimeout \/ CallbackReturns
  PROVE  TimerInv'
<1>1. UNCHANGED <<rpc, routedClientAddress, active, timerThreads>>
  BY DEF PollTimer, Second, aliveCheckTimeout, CallbackReturns, PollExpired,
     PollDisabled, Expire, Tick, TimerGoto, untimed, receiverVars, appVars
<1>2. tpc \in {"poll", "expired", "fire", "callback"} /\ tpc' # "none"
  BY DEF PollTimer, Second, aliveCheckTimeout, CallbackReturns, PollExpired,
     PollDisabled, Expire, Tick, TimerGoto
<1>3. QED
  BY <1>1, <1>2 DEF TimerInv, TimerThreadJoined

(* closeSocket leaves the timer and the receiver's place alone. *)
LEMMA CloseLeavesTimer ==
  ASSUME NEW t, closeSocket(t)
  PROVE  UNCHANGED <<timerVars, routedClientAddress, rpc>>
  BY DEF closeSocket, CloseCheck, CloseShutdown, CloseAwait, CloseFree, CloseNull,
     CloseDescriptor, CloseZero, closeUnchanged, receiverVars, appVars

(* Every step keeps the invariant. *)
LEMMA TimerNext == TypeOK /\ TimerInv /\ [Next]_vars => TimerInv'
<1> SUFFICES ASSUME TypeOK, TimerInv, [Next]_vars PROVE TimerInv'
  OBVIOUS
<1> USE DEF receiverVars, appVars, At
<1>1. CASE Environment
  <2>1. /\ UNCHANGED <<timerVars, routedClientAddress>>
        /\ rpc' # "gone" \/ UNCHANGED rpc
    BY <1>1 DEF Environment, ClientSends, ClientCompletes, ClientCloses,
       ReuseDescriptor, ReceiveStray
  <2>2. QED
    BY <2>1, TimerFrame
<1>2. CASE \/ LoopTest \/ BeginRead("header", "inHeader")
           \/ BeginRead("payload", "inPayload")
           \/ CloseReturns \/ AfterFatal \/ NackAnswered \/ RefuseRouting
           \/ DropDiagnostic \/ IgnoreMessage \/ triggerDisconnection
           \/ DestroyCallbacks
  BY <1>2, TimerFrame
     DEF LoopTest, BeginRead, CloseReturns, AfterFatal, NackAnswered, RefuseRouting,
         DropDiagnostic, IgnoreMessage, triggerDisconnection, DestroyCallbacks
<1>3. CASE \/ ReadPart \/ ReceiveHeader \/ ReceivePayload \/ ReceiveShort
           \/ ReceiveFatal \/ ReceiveFreed
  <2>1. UNCHANGED <<timerVars, routedClientAddress>> /\ rpc' # "gone"
    BY <1>3 DEF ReadPart, ReceiveHeader, ReceivePayload, ReceiveShort, ReceiveFatal,
                ReceiveFreed
  <2>2. QED
    BY <2>1, TimerFrame
<1>4. CASE \/ sendNegativeAck \/ RespondToActivation \/ NotifyApplication
           \/ DeliverDiagnostic \/ ReadUnsetAddress
  <2>1. UNCHANGED <<timerVars, routedClientAddress>> /\ (rpc' = "gone" => rpc = "gone")
    BY <1>4 DEF sendNegativeAck, RespondToActivation, NotifyApplication,
       DeliverDiagnostic, ReadUnsetAddress, sendUnchanged
  <2>2. QED
    BY <2>1, TimerFrame
<1>5. CASE Setup
  BY <1>5 DEF Setup, SetTimer, TimerInv, TimerThreadJoined
<1>6. CASE MessageReceived
  <2>1. CASE active /\ ResetTimer
    BY <1>6, <2>1 DEF MessageReceived, ResetTimer, TimerInv, TimerThreadJoined
  <2>2. CASE UNCHANGED timerVars
    BY <1>6, <2>2, TimerFrame DEF MessageReceived
  <2>3. QED
    BY <1>6, <2>1, <2>2 DEF MessageReceived
<1>7. CASE ActivateRouting
  <2>1. routedClientAddress' # Unset /\ rpc' # "gone"
    BY <1>7 DEF ActivateRouting, TypeOK, ReceiverTypeOK, Current, Unset
  <2>2. CASE UNCHANGED timerVars
    BY <2>1, <2>2 DEF TimerInv, TimerThreadJoined, timerVars
  <2>3. CASE ~active /\ ~disabled /\ StartTimer
    BY <2>1, <2>3 DEF StartTimer, TimerInv, TimerThreadJoined
  <2>4. QED
    BY <1>7, <2>2, <2>3 DEF ActivateRouting, StartTimer
<1>8. CASE DisarmTimer
  BY <1>8 DEF DisarmTimer, Disarm, TimerInv, TimerThreadJoined
<1>9. CASE JoinTimer
  BY <1>9 DEF JoinTimer, Joinable, TimerInv, TimerThreadJoined, timerVars, TypeOK,
     TimerTypeOK
<1>10. CASE \E t \in Threads : closeSocket(t)
  BY <1>10, CloseLeavesTimer, TimerFrame
<1>11. CASE PollTimer \/ Second \/ aliveCheckTimeout \/ CallbackReturns
  BY <1>11, TimerThreadStep
<1>12. CASE UNCHANGED vars
  BY <1>12, TimerFrame DEF vars
<1>13. QED
  BY <1>1, <1>2, <1>3, <1>4, <1>5, <1>6, <1>7, <1>8, <1>9, <1>10, <1>11, <1>12
     DEF Next, Receiver, Timer, Halted, Threads

(* The invariant of the timer holds throughout. *)
LEMMA TimerInvariant == Spec => []TimerInv
<1>1. Init => TimerInv
  BY DEF Init, TimerInit, TimerInv, TimerThreadJoined
<1>2. QED
  BY <1>1, TypeCorrect, TimerNext, PTL DEF Spec

(* At most one timer thread is started per connection, and it has ended     *)
(* when the connection object is gone.                                      *)
THEOREM TimerThreadCorrect == Spec => []TimerThreadJoined
<1>1. TimerInv => TimerThreadJoined
  BY DEF TimerInv
<1>2. QED
  BY <1>1, TimerInvariant, PTL

(* Only a client that was routed can time out. *)
THEOREM TimeoutCorrect == Spec => []TimeoutOnlyIfRouted
<1>1. TimerInv => TimeoutOnlyIfRouted
  BY DEF TimerInv, TimeoutOnlyIfRouted
<1>2. QED
  BY <1>1, TimerInvariant, PTL

-----------------------------------------------------------------------------
(* The silence that a timeout needs. *)

(* Until the timeout the clock runs at most MaxLoad times as fast as time;  *)
(* a thread that has decided on the timeout compared such a clock with the  *)
(* inactivity time, which is only set before a thread runs.                 *)
SilenceInv ==
  /\ ~timeout => /\ elapsed <= silent * MaxLoad /\ silent <= longest
                 /\ tpc = "expired" => maxSeconds <= longest * MaxLoad
  /\ rpc = "setup" => tpc = "none" /\ ~timeout

silenceVars == <<elapsed, silent, longest, maxSeconds, timeout, tpc>>

(* What a step may do to the clock. *)
ClockKept == UNCHANGED silenceVars /\ (rpc' = "setup" => rpc = "setup")

ClockSet ==
  /\ rpc = "setup" /\ rpc' # "setup"
  /\ UNCHANGED <<elapsed, silent, longest, timeout, tpc>>

ClockReset ==
  /\ rpc' # "setup"
  /\ elapsed' = 0 /\ silent' = 0 /\ tpc' \in {tpc, "poll"}
  /\ UNCHANGED <<longest, maxSeconds, timeout>>

ThreadMoves ==
  /\ tpc # "none" /\ tpc' # "expired"
  /\ UNCHANGED <<rpc, elapsed, silent, longest, maxSeconds, timeout>>

ClockStep ==
  \/ ClockKept \/ ClockSet \/ ClockReset \/ ThreadMoves
  \/ (PollExpired \/ Expire \/ Tick) /\ UNCHANGED rpc

(* Every step is one of these. *)
LEMMA ClockSteps ==
  ASSUME [Next]_vars
  PROVE  ClockStep
<1> USE DEF silenceVars, receiverVars, At
<1>1. UNCHANGED timerVars /\ (rpc' = "setup" => rpc = "setup") => ClockStep
  BY DEF timerVars, ClockStep, ClockKept
<1>2. Setup => ClockStep
  BY DEF Setup, SetTimer, ClockStep, ClockSet
<1>3. MessageReceived \/ ActivateRouting => ClockStep
  BY <1>1 DEF MessageReceived, ResetTimer, ActivateRouting, StartTimer, ClockStep,
     ClockReset
<1>4. DisarmTimer => ClockStep
  BY DEF DisarmTimer, Disarm, ClockStep, ClockKept
<1>5. PollTimer \/ Second \/ aliveCheckTimeout \/ CallbackReturns => ClockStep
  <2>1. (PollTimer \/ Second) /\ ~PollDisabled => ClockStep
    BY DEF PollTimer, Second, ClockStep, untimed
  <2>2. PollTimer /\ PollDisabled => ClockStep
    BY DEF PollTimer, PollDisabled, ClockStep, ThreadMoves, untimed
  <2>3. aliveCheckTimeout \/ CallbackReturns => ClockStep
    BY DEF aliveCheckTimeout, CallbackReturns, TimerGoto, ClockStep, ThreadMoves, untimed
  <2>4. Second => ~PollDisabled
    BY DEF Second, Tick, PollDisabled
  <2>5. QED
    BY <2>1, <2>2, <2>3, <2>4
<1>6. (\E t \in Threads : closeSocket(t)) => ClockStep
  BY <1>1, CloseLeavesTimer
<1>7. Environment \/ Halted \/ UNCHANGED vars => ClockStep
  BY <1>1 DEF Environment, ClientSends, ClientCompletes, ClientCloses,
     ReuseDescriptor, ReceiveStray, Halted, vars
<1>8. \/ LoopTest \/ BeginRead("header", "inHeader") \/ BeginRead("payload", "inPayload")
      \/ ReadPart \/ ReceiveHeader \/ ReceivePayload \/ ReceiveShort \/ ReceiveFatal
      \/ ReceiveFreed \/ AfterFatal \/ CloseReturns \/ triggerDisconnection
      \/ DestroyCallbacks \/ JoinTimer
      => ClockStep
  BY <1>1 DEF LoopTest, BeginRead, ReadPart, ReceiveHeader, ReceivePayload,
     ReceiveShort, ReceiveFatal, ReceiveFreed, AfterFatal, CloseReturns,
     triggerDisconnection, DestroyCallbacks, JoinTimer
<1>9. \/ sendNegativeAck \/ NackAnswered \/ RespondToActivation \/ RefuseRouting
      \/ NotifyApplication \/ DeliverDiagnostic \/ DropDiagnostic
      \/ ReadUnsetAddress \/ IgnoreMessage
      => ClockStep
  BY <1>1 DEF sendNegativeAck, NackAnswered, RespondToActivation, RefuseRouting,
     NotifyApplication, DeliverDiagnostic, DropDiagnostic, ReadUnsetAddress,
     IgnoreMessage, sendUnchanged
<1>10. Receiver => ClockStep
  BY <1>2, <1>3, <1>4, <1>6, <1>8, <1>9 DEF Receiver, Threads
<1>11. QED
  BY <1>5, <1>6, <1>7, <1>10 DEF Next, Timer, Threads

LEMMA TimesMonotone ==
  ASSUME NEW a \in Nat, NEW b \in Nat, NEW c \in Nat, a <= b
  PROVE  a * c <= b * c /\ b * c \in Nat /\ a * c \in Nat
  OBVIOUS

(* Every step keeps the invariant. *)
LEMMA SilenceNext == TypeOK /\ SilenceInv /\ [Next]_vars => SilenceInv'
<1> SUFFICES ASSUME TypeOK, SilenceInv, [Next]_vars PROVE SilenceInv'
  OBVIOUS
<1>1. /\ elapsed \in Nat /\ silent \in Nat /\ longest \in Nat /\ maxSeconds \in Nat
      /\ MaxLoad \in Nat
  BY LoadAssumption DEF TypeOK, TimerTypeOK
<1>2. CASE Tick /\ UNCHANGED rpc
  <2>1. PICK load \in 1 .. MaxLoad : elapsed' = AtMost(elapsed + load, maxSeconds)
    BY <1>2 DEF Tick
  <2>2. /\ silent' = silent + 1 /\ tpc = "poll"
        /\ longest' = IF longest < silent + 1 THEN silent + 1 ELSE longest
        /\ UNCHANGED <<timeout, maxSeconds, tpc>>
    BY <1>2 DEF Tick
  <2>3. (silent + 1) * MaxLoad = silent * MaxLoad + MaxLoad
    BY <1>1
  <2>4. elapsed' <= elapsed + load /\ elapsed' \in Nat
    BY <1>1, <2>1 DEF AtMost
  <2>5. ~timeout => elapsed + load <= silent * MaxLoad + MaxLoad
    BY <1>1, <2>1 DEF SilenceInv
  <2>6. ~timeout => elapsed' <= silent' * MaxLoad /\ silent' <= longest'
    BY <1>1, <2>1, <2>2, <2>3, <2>4, <2>5
  <2>7. QED
    BY <1>2, <2>2, <2>6 DEF SilenceInv
<1>3. CASE PollExpired /\ UNCHANGED rpc
  <2>1. /\ elapsed >= maxSeconds /\ tpc = "poll"
        /\ UNCHANGED <<timeout, elapsed, silent, longest, maxSeconds>>
    BY <1>3 DEF PollExpired
  <2>2. ~timeout => silent * MaxLoad <= longest * MaxLoad
    BY <1>1, TimesMonotone DEF SilenceInv
  <2>3. ~timeout => maxSeconds <= longest * MaxLoad
    BY <1>1, <2>1, <2>2 DEF SilenceInv
  <2>4. QED
    BY <1>3, <2>1, <2>3 DEF SilenceInv
<1>4. CASE Expire /\ UNCHANGED rpc
  BY <1>4 DEF Expire, SilenceInv
<1>5. CASE ClockKept
  BY <1>5 DEF ClockKept, silenceVars, SilenceInv
<1>6. CASE ClockSet
  BY <1>6 DEF ClockSet, SilenceInv
<1>7. CASE ClockReset
  BY <1>1, <1>7 DEF ClockReset, SilenceInv
<1>8. CASE ThreadMoves
  BY <1>8 DEF ThreadMoves, SilenceInv
<1>9. QED
  BY <1>2, <1>3, <1>4, <1>5, <1>6, <1>7, <1>8, ClockSteps DEF ClockStep

(* A step that sets the timeout is the timer thread's Expire. *)
LEMMA TimeoutStep ==
  ASSUME [Next]_vars, ~timeout, timeout'
  PROVE  Expire
BY ClockSteps DEF ClockStep, ClockKept, ClockSet, ClockReset, ThreadMoves,
   silenceVars, PollExpired, Tick

(* For every inactivity time and any number of busy threads: a client that  *)
(* never pauses for as long as the one divided by the other is never timed  *)
(* out, wherever its messages fall between the steps of the timer thread.   *)
THEOREM SilenceCorrect == Spec => TimeoutNeedsSilence
<1>1. Init => SilenceInv
  BY LoadAssumption DEF Init, TimerInit, SilenceInv
<1>2. SilenceInv /\ [Next]_vars
      => [~timeout /\ timeout' => maxSeconds <= longest * MaxLoad]_vars
  BY TimeoutStep DEF Expire, SilenceInv
<1>3. QED
  BY <1>1, <1>2, TypeCorrect, SilenceNext, PTL DEF Spec, TimeoutNeedsSilence

-----------------------------------------------------------------------------
(* What reaches the application. *)

RoutingInv ==
  /\ routedClientAddress \in activated \cup {Unset}
  /\ DeliveredOnlyRouted

routingVars == <<routedClientAddress, activated, delivered>>

(* A step that activates and delivers nothing; faults are never forgotten. *)
LEMMA RoutingFrame ==
  ASSUME RoutingInv, UNCHANGED routingVars, faults \subseteq faults'
  PROVE  RoutingInv'
  BY DEF RoutingInv, DeliveredOnlyRouted, routingVars

(* closeSocket delivers nothing. *)
LEMMA RoutingClose ==
  ASSUME NEW t, closeSocket(t)
  PROVE  UNCHANGED routingVars /\ faults \subseteq faults'
  BY DEF closeSocket, CloseCheck, CloseShutdown, CloseAwait, CloseFree, CloseNull,
     CloseDescriptor, CloseZero, closeUnchanged, appVars, errorVars, MayEnd,
     routingVars

(* Sending records the faults met while the message was put together. *)
LEMMA SendKeepsFaults ==
  ASSUME NEW m, NEW fs, sendMessage(m, fs)
  PROVE  faults \cup fs \subseteq faults'
  BY DEF sendMessage, MayEnd, UseNullSsl

(* Every step keeps the invariant. *)
LEMMA RoutingNext == RoutingInv /\ [Next]_vars => RoutingInv'
<1> SUFFICES ASSUME RoutingInv, [Next]_vars PROVE RoutingInv'
  OBVIOUS
<1> USE DEF appVars, errorVars, routingVars
<1>1. CASE Environment
  BY <1>1, RoutingFrame
     DEF Environment, ClientSends, ClientCompletes, ClientCloses, ReuseDescriptor,
         ReceiveStray
<1>2. CASE \/ Setup \/ LoopTest \/ BeginRead("header", "inHeader")
           \/ BeginRead("payload", "inPayload")
           \/ MessageReceived \/ CloseReturns \/ AfterFatal \/ NackAnswered
           \/ RefuseRouting \/ IgnoreMessage \/ triggerDisconnection
           \/ DestroyCallbacks \/ DisarmTimer \/ JoinTimer
  BY <1>2, RoutingFrame
     DEF Setup, LoopTest, BeginRead, MayEnd, UseNullSsl, MessageReceived, CloseReturns, AfterFatal,
         NackAnswered, RefuseRouting, IgnoreMessage, triggerDisconnection,
         DestroyCallbacks, DisarmTimer, JoinTimer
<1>3. CASE \/ ReadPart \/ ReceiveHeader \/ ReceivePayload \/ ReceiveShort
           \/ ReceiveFatal \/ ReceiveFreed \/ DropDiagnostic \/ ReadUnsetAddress
  BY <1>3, RoutingFrame
     DEF ReadPart, ReceiveHeader, ReceivePayload, ReceiveShort, ReceiveFatal, ReceiveFreed,
         DropDiagnostic, ReadUnsetAddress, MayEnd
<1>4. CASE sendNegativeAck \/ RespondToActivation \/ NotifyApplication
  <2>1. PICK m, fs : sendMessage(m, fs)
    BY <1>4 DEF sendNegativeAck, RespondToActivation, NotifyApplication
  <2>2. UNCHANGED routingVars
    BY <1>4 DEF sendNegativeAck, RespondToActivation, NotifyApplication, sendUnchanged
  <2>3. QED
    BY <2>1, <2>2, SendKeepsFaults, RoutingFrame
<1>5. CASE ActivateRouting
  BY <1>5 DEF ActivateRouting, RoutingInv, DeliveredOnlyRouted
<1>6. CASE DeliverDiagnostic
  <2>1. PICK a \in RoutedReads :
          /\ parseDiagnosticMessage(a, cur.sa, ToInt(cur.len))
               = ValidDiagnosticMessageCode
          /\ sendMessage(createDiagnosticMessage(a), RoutedFault)
    BY <1>6 DEF DeliverDiagnostic
  <2>2. faults \cup RoutedFault \subseteq faults'
    BY <2>1, SendKeepsFaults
  <2>3. /\ delivered' = delivered \cup {cur.sa}
        /\ UNCHANGED <<routedClientAddress, activated>>
    BY <1>6 DEF DeliverDiagnostic, sendUnchanged
  <2>4. a = cur.sa
    BY <2>1 DEF parseDiagnosticMessage, ValidDiagnosticMessageCode,
       InvalidSourceAddressCode, UnknownTargetAddressCode
  <2>5. CASE routedClientAddress = Unset
    BY <2>2, <2>3, <2>5 DEF RoutedFault, RoutingInv, DeliveredOnlyRouted
  <2>6. CASE routedClientAddress # Unset
    <3>1. cur.sa \in activated
      BY <2>1, <2>4, <2>6 DEF RoutedReads, RoutingInv
    <3>2. QED
      BY <2>2, <2>3, <3>1 DEF RoutingInv, DeliveredOnlyRouted
  <2>7. QED
    BY <2>5, <2>6
<1>7. CASE \E t \in Threads : closeSocket(t)
  BY <1>7, RoutingClose, RoutingFrame
<1>8. CASE PollTimer \/ Second \/ aliveCheckTimeout \/ CallbackReturns
  BY <1>8, RoutingFrame DEF PollTimer, Second, aliveCheckTimeout, CallbackReturns, MayEnd
<1>9. CASE UNCHANGED vars
  BY <1>9, RoutingFrame DEF vars
<1>10. QED
  BY <1>1, <1>2, <1>3, <1>4, <1>5, <1>6, <1>7, <1>8, <1>9
     DEF Next, Receiver, Timer, Halted, Threads

(* User data reaches the application only from an address that this         *)
(* connection activated, unless the uninitialised address was read.         *)
THEOREM DeliveryCorrect == Spec => []DeliveredOnlyRouted
<1>1. Init => RoutingInv
  BY DEF Init, RoutingInv, DeliveredOnlyRouted
<1>2. RoutingInv => DeliveredOnlyRouted
  BY DEF RoutingInv
<1>3. QED
  BY <1>1, <1>2, RoutingNext, PTL DEF Spec

-----------------------------------------------------------------------------
(* A refused connection.  The receiver leaves "closing" only when the       *)
(* socket is inactive, so it never reads another message.                   *)

LeavingPlaces == {"closing", "trigger", "destroy", "disarm", "join", "gone"}

RefusedInv ==
  /\ refused => rpc \in LeavingPlaces \/ (rpc = "loop" /\ client_sock = 0)
  /\ rpc = "closing" /\ cpc["receiver"] = "idle" => client_sock = 0

(* A step that refuses nothing and does not move the receiver. *)
LEMMA RefusedFrame ==
  ASSUME RefusedInv, UNCHANGED <<refused, rpc>>,
         client_sock' \in {client_sock, 0},
         cpc'["receiver"] = "idle" => cpc["receiver"] = "idle" \/ client_sock' = 0
  PROVE  RefusedInv'
  BY DEF RefusedInv

(* closeSocket ends with the socket inactive. *)
LEMMA RefusedClose ==
  ASSUME TypeOK, RefusedInv, NEW t \in Threads, closeSocket(t)
  PROVE  RefusedInv'
<1> USE DEF TypeOK, CloseTypeOK, CloseGoto, closeUnchanged, receiverVars, appVars,
            socketVars, Threads
<1>1. CASE CloseCheck(t)
  BY <1>1, RefusedFrame DEF CloseCheck, isSocketActive
<1>2. CASE CloseShutdown(t) \/ CloseAwait(t) \/ CloseFree(t)
  BY <1>2, RefusedFrame DEF CloseShutdown, CloseAwait, CloseFree
<1>3. CASE CloseNull(t) \/ CloseDescriptor(t) \/ CloseZero(t)
  BY <1>3, RefusedFrame DEF CloseNull, CloseDescriptor, CloseZero
<1>4. QED
  BY <1>1, <1>2, <1>3 DEF closeSocket

(* Every step keeps the invariant. *)
LEMMA RefusedNext == TypeOK /\ RefusedInv /\ [Next]_vars => RefusedInv'
<1> SUFFICES ASSUME TypeOK, RefusedInv, [Next]_vars PROVE RefusedInv'
  OBVIOUS
<1> USE DEF receiverVars, appVars, socketVars, closeVars, LeavingPlaces, At
<1>1. CASE ~ReceiveStray /\ Environment
  BY <1>1, RefusedFrame
     DEF Environment, ClientSends, ClientCompletes, ClientCloses, ReuseDescriptor
<1>2. CASE \/ Setup \/ LoopTest \/ MessageReceived \/ CloseReturns
           \/ triggerDisconnection \/ DestroyCallbacks \/ DisarmTimer \/ JoinTimer
  BY <1>2 DEF Setup, LoopTest, isSocketActive, MessageReceived, CloseReturns,
     triggerDisconnection, DestroyCallbacks, DisarmTimer, JoinTimer, RefusedInv
<1>3. CASE \/ BeginRead("header", "inHeader") \/ BeginRead("payload", "inPayload")
           \/ ReadPart \/ ReceiveHeader \/ ReceivePayload
           \/ DropDiagnostic \/ IgnoreMessage \/ ActivateRouting
  <2>1. ~refused /\ ~refused'
    BY <1>3 DEF BeginRead, ReadPart, Reading, ReceiveHeader, ReceivePayload,
       DropDiagnostic, IgnoreMessage, ActivateRouting, RefusedInv
  <2>2. rpc' # "closing"
    BY <1>3 DEF BeginRead, ReadPart, ReceiveHeader, ReceivePayload, DropDiagnostic,
       IgnoreMessage, ActivateRouting
  <2>3. QED
    BY <2>1, <2>2 DEF RefusedInv
<1>4. CASE \/ ReceiveShort \/ ReceiveFatal \/ ReceiveFreed \/ ReceiveStray
           \/ AfterFatal \/ NackAnswered \/ RefuseRouting
  <2>1. ~refused
    BY <1>4 DEF ReceiveShort, ReceiveFatal, ReceiveFreed, ReceiveStray, Reading,
       AfterFatal, NackAnswered, RefuseRouting, RefusedInv
  <2>2. rpc' = "closing" => cpc'["receiver"] # "idle"
    BY <1>4 DEF ReceiveShort, ReceiveFatal, ReceiveFreed, ReceiveStray, AfterFatal,
       NackAnswered, RefuseRouting, CallClose, TypeOK, CloseTypeOK, Threads
  <2>3. refused' => rpc' = "closing"
    BY <1>4, <2>1 DEF ReceiveShort, ReceiveFatal, ReceiveFreed, ReceiveStray,
       AfterFatal, NackAnswered, RefuseRouting
  <2>4. QED
    BY <2>2, <2>3 DEF RefusedInv
<1>5. CASE \/ sendNegativeAck \/ RespondToActivation \/ NotifyApplication
           \/ DeliverDiagnostic
  <2>1. ~refused /\ refused' = refused
    BY <1>5 DEF sendNegativeAck, RespondToActivation, NotifyApplication,
       DeliverDiagnostic, sendUnchanged, RefusedInv
  <2>2. rpc' # "closing"
    BY <1>5 DEF sendNegativeAck, RespondToActivation, NotifyApplication,
       DeliverDiagnostic
  <2>3. QED
    BY <2>1, <2>2 DEF RefusedInv
<1>6. CASE ReadUnsetAddress
  BY <1>6, RefusedFrame DEF ReadUnsetAddress
<1>7. CASE \E t \in Threads : closeSocket(t)
  BY <1>7, RefusedClose
<1>8. CASE PollTimer \/ Second \/ CallbackReturns
  BY <1>8, RefusedFrame DEF PollTimer, Second, CallbackReturns, untimed
<1>9. CASE aliveCheckTimeout
  <2>1. cpc'["receiver"] = cpc["receiver"]
    BY <1>9 DEF aliveCheckTimeout, CallClose, TypeOK, CloseTypeOK, Threads
  <2>2. QED
    BY <1>9, <2>1, RefusedFrame DEF aliveCheckTimeout, untimed
<1>10. CASE UNCHANGED vars
  BY <1>10, RefusedFrame DEF vars
<1>11. QED
  BY <1>1, <1>2, <1>3, <1>4, <1>5, <1>6, <1>7, <1>8, <1>9, <1>10
     DEF Next, Environment, Receiver, Timer, Halted, Threads

(* Only processing a message sends or delivers anything. *)
LEMMA ServingPlaces ==
  ASSUME TypeOK, [Next]_vars, rpc \notin {"react", "deliver"}
  PROVE  Len(out') <= Len(out) /\ delivered' = delivered
<1> USE DEF appVars, At
<1>1. Len(out) \in Nat
  BY DEF TypeOK, AppTypeOK
<1> DEFINE ServesNothing == (out' = out \/ out' = <<>>) /\ delivered' = delivered
<1>2. Receiver /\ ~closeSocket("receiver") => ServesNothing
  BY DEF Receiver, Setup, LoopTest, BeginRead, ReadPart, ReceiveHeader, ReceivePayload,
     ReceiveShort, ReceiveFatal, ReceiveFreed, AfterFatal, MessageReceived,
     CloseReturns, sendNegativeAck, NackAnswered, RespondToActivation,
     RefuseRouting, ActivateRouting, NotifyApplication, DeliverDiagnostic,
     DropDiagnostic, ReadUnsetAddress, IgnoreMessage, triggerDisconnection,
     DestroyCallbacks, DisarmTimer, JoinTimer
<1>3. (\E t \in Threads : closeSocket(t)) => ServesNothing
  BY DEF closeSocket, CloseCheck, CloseShutdown, CloseAwait, CloseFree,
     CloseNull, CloseDescriptor, CloseZero, closeUnchanged
<1>4. \/ PollTimer \/ Second \/ aliveCheckTimeout \/ CallbackReturns
      \/ Environment \/ Halted \/ UNCHANGED vars
      => ServesNothing
  BY DEF PollTimer, Second, aliveCheckTimeout, CallbackReturns, Environment,
     ClientSends, ClientCompletes, ClientCloses, ReuseDescriptor, ReceiveStray,
     Halted, vars
<1>5. ServesNothing
  BY <1>2, <1>3, <1>4 DEF Next, Timer, Threads
<1>6. QED
  BY <1>1, <1>5

(* After an error that ends the connection nothing more is sent to the      *)
(* client or passed to the application.                                     *)
THEOREM RefusalCorrect == Spec => RefusedNotServed
<1>1. Init => RefusedInv
  BY DEF Init, RefusedInv
<1>2. TypeOK /\ RefusedInv /\ [Next]_vars
      => [refused => Len(out') <= Len(out) /\ delivered' = delivered]_vars
  BY ServingPlaces DEF RefusedInv, LeavingPlaces
<1>3. QED
  BY <1>1, <1>2, TypeCorrect, RefusedNext, PTL DEF Spec, RefusedNotServed
=============================================================================
