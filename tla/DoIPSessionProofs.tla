------------------------- MODULE DoIPSessionProofs -------------------------
(***************************************************************************)
(* DoIPConnection while its timer has not fired: only the receiver thread  *)
(* uses the socket and the SSL object.  What is proved holds for every set *)
(* of requests and every inactivity time until the timeout, and for the    *)
(* whole life of a connection whose timer is disabled.                     *)
(***************************************************************************)
EXTENDS DoIPConnectionSafety

ReadPlaces == {"header", "inHeader", "payload", "inPayload"}
MessagePlaces == {"received", "react", "answered", "deliver"}
EndPlaces == {"destroy", "disarm", "join", "gone"}
CallPlaces == {"closing", "failedHeader", "failedPayload"}

(* The timer thread is outside its callback, and the receiver's places tell *)
(* whether the socket is open: only a message whose payload never came is   *)
(* processed after it was closed.                                           *)
AlonePlaces ==
  /\ tpc \notin {"fire", "callback"} /\ cpc["timer"] = "idle"
  /\ cpc["receiver"] # "idle" => rpc \in CallPlaces
  /\ cpc["receiver"] \notin {"idle", "check"} => client_sock = Fd
  /\ cpc["receiver"] \in {"shutdown", "await", "free", "null"} => ssl
  /\ rpc \in ReadPlaces => client_sock = Fd
  /\ rpc \in MessagePlaces => client_sock = Fd \/ "uninitialised" \in faults
  /\ rpc = "trigger" \/ rpc \in EndPlaces => client_sock = 0

(* What the members refer to: the descriptor is the connection's own until  *)
(* close, and the SSL object exists until SSL_free.                         *)
AloneObjects ==
  /\ owner[0] = "stdin"
  /\ client_sock = Fd /\ cpc["receiver"] # "zero" => owner[Fd] = "conn"
  /\ ssl /\ cpc["receiver"] # "null" => session # "freed"
  /\ rd \in {"none", "conn"} \/ (rd = "tls" /\ ssl)
  /\ rd # "none" => Reading

AloneCalls == closeCalls = IF rpc \in EndPlaces THEN 1 ELSE 0

AloneInv == AlonePlaces /\ AloneObjects /\ AloneCalls /\ OnlyOwnObjects

aloneVars == <<tpc, cpc, rpc, rd, client_sock, ssl, session, owner, faults, stray,
               closeCalls>>

(* A step that touches none of the variables involved keeps the invariant. *)
LEMMA AloneFrame ==
  ASSUME AloneInv, UNCHANGED aloneVars
  PROVE  AloneInv'
  BY DEF AloneInv, AlonePlaces, AloneObjects, AloneCalls, OnlyOwnObjects, Reading,
     aloneVars

(* A step that only moves the receiver, to a place that calls no function.  *)
LEMMA AloneMove ==
  ASSUME AloneInv, UNCHANGED <<cpc, rd, client_sock, ssl, session, owner, stray>>,
         tpc' \notin {"fire", "callback"},
         rd = "none", cpc["receiver"] = "idle",
         faults' \in {faults, faults \cup {"uninitialised"}},
         rpc' \in ReadPlaces => client_sock = Fd,
         rpc' \in MessagePlaces => client_sock = Fd \/ "uninitialised" \in faults',
         rpc' = "trigger" \/ rpc' \in EndPlaces => client_sock = 0,
         closeCalls' = IF rpc' \in EndPlaces THEN 1 ELSE 0
  PROVE  AloneInv'
<1>1. AlonePlaces' /\ AloneCalls'
  BY DEF AloneInv, AlonePlaces, AloneCalls
<1>2. AloneObjects'
  BY DEF AloneInv, AloneObjects
<1>3. OnlyOwnObjects'
  BY DEF AloneInv, OnlyOwnObjects
<1>4. QED
  BY <1>1, <1>2, <1>3 DEF AloneInv

(* A read that ends by calling closeSocket, in the receiver. *)
LEMMA AloneCall ==
  ASSUME TypeOK, AloneInv, NEW s, CallClose("receiver", s),
         UNCHANGED <<tpc, client_sock, ssl, owner, stray, faults, closeCalls>>,
         cpc["receiver"] = "idle", rd' = "none", rpc' \in CallPlaces,
         session' = session \/ (ssl /\ session' = "failed"),
         rpc \notin EndPlaces
  PROVE  AloneInv'
<1>1. cpc'["receiver"] = "check" /\ cpc'["timer"] = cpc["timer"]
  BY DEF CallClose, TypeOK, CloseTypeOK, Threads
<1>2. AlonePlaces' /\ AloneCalls'
  BY <1>1 DEF AloneInv, AlonePlaces, AloneCalls, CallPlaces, ReadPlaces,
     MessagePlaces, EndPlaces
<1>3. AloneObjects'
  BY <1>1 DEF AloneInv, AloneObjects
<1>4. OnlyOwnObjects'
  BY DEF AloneInv, OnlyOwnObjects
<1>5. QED
  BY <1>2, <1>3, <1>4 DEF AloneInv

(* closeSocket in the receiver: nobody else has closed or freed anything. *)
LEMMA AloneClose ==
  ASSUME TypeOK, ReleaseInv, AloneInv, NEW t \in Threads, closeSocket(t)
  PROVE  AloneInv'
<1>1. t = "receiver" /\ cpc["receiver"] # "idle"
  BY DEF AloneInv, AlonePlaces, closeSocket, CloseCheck, CloseShutdown, CloseAwait,
     CloseFree, CloseNull, CloseDescriptor, CloseZero, CloseGoto, Threads
<1>2. UNCHANGED <<tpc, rpc, rd, closeCalls>>
  BY DEF closeSocket, CloseCheck, CloseShutdown, CloseAwait, CloseFree, CloseNull,
     CloseDescriptor, CloseZero, closeUnchanged, timerVars, receiverVars, appVars
<1>3. rpc \in CallPlaces
  BY <1>1 DEF AloneInv, AlonePlaces
<1>4. cpc'["timer"] = cpc["timer"]
  BY <1>1 DEF closeSocket, CloseCheck, CloseShutdown, CloseAwait, CloseFree,
     CloseNull, CloseDescriptor, CloseZero, CloseGoto, TypeOK, CloseTypeOK, Threads
<1>5. AloneCalls'
  BY <1>2 DEF AloneInv, AloneCalls
<1> USE DEF CloseGoto, TypeOK, SocketTypeOK, CloseTypeOK, Threads, socketVars,
            errorVars, isSocketActive, ReadPlaces, MessagePlaces, EndPlaces, CallPlaces
<1>6. CASE CloseCheck(t)
  <2>1. AlonePlaces'
    BY <1>1, <1>2, <1>3, <1>4, <1>6 DEF CloseCheck, AloneInv, AlonePlaces
  <2>2. AloneObjects'
    BY <1>1, <1>2, <1>6 DEF CloseCheck, AloneInv, AloneObjects, AlonePlaces, Reading
  <2>3. OnlyOwnObjects'
    BY <1>6 DEF CloseCheck, AloneInv, OnlyOwnObjects
  <2>4. QED
    BY <1>5, <2>1, <2>2, <2>3 DEF AloneInv
<1>7. CASE CloseShutdown(t)
  <2>1. ssl /\ session # "freed"
    BY <1>1, <1>7 DEF CloseShutdown, AloneInv, AlonePlaces, AloneObjects
  <2>2. AlonePlaces'
    BY <1>1, <1>2, <1>3, <1>4, <1>7, <2>1 DEF CloseShutdown, AloneInv, AlonePlaces
  <2>3. AloneObjects'
    BY <1>1, <1>2, <1>7, <2>1 DEF CloseShutdown, AloneInv, AloneObjects, Reading
  <2>4. OnlyOwnObjects'
    <3>1. <<"shutdown", "failed">> \notin ForeignOperations
      BY DEF ForeignOperations
    <3>2. stray' \cap ForeignOperations = stray \cap ForeignOperations
      BY <1>7, <3>1 DEF CloseShutdown
    <3>3. faults' = faults
      BY <1>7, <2>1 DEF CloseShutdown
    <3>4. QED
      BY <3>2, <3>3 DEF AloneInv, OnlyOwnObjects
  <2>5. QED
    BY <1>5, <2>2, <2>3, <2>4 DEF AloneInv
<1>8. CASE CloseAwait(t) \/ CloseFree(t)
  <2>1. ssl /\ session # "freed"
    BY <1>1, <1>8 DEF CloseAwait, CloseFree, AloneInv, AlonePlaces, AloneObjects
  <2>2. UNCHANGED <<client_sock, ssl, owner, stray, faults>>
    BY <1>8, <2>1 DEF CloseAwait, CloseFree, MayEnd
  <2>3. AlonePlaces'
    BY <1>1, <1>2, <1>3, <1>4, <1>8, <2>1, <2>2
       DEF CloseAwait, CloseFree, AloneInv, AlonePlaces
  <2>4. AloneObjects'
    BY <1>1, <1>2, <1>8, <2>1, <2>2
       DEF CloseAwait, CloseFree, AloneInv, AloneObjects, Reading
  <2>5. OnlyOwnObjects'
    BY <2>2 DEF AloneInv, OnlyOwnObjects
  <2>6. QED
    BY <1>5, <2>3, <2>4, <2>5 DEF AloneInv
<1>9. CASE CloseNull(t) \/ CloseZero(t)
  <2>1. rd # "tls"
    BY <1>3 DEF AloneInv, AloneObjects, Reading
  <2>2. AlonePlaces'
    BY <1>1, <1>2, <1>3, <1>4, <1>9, FdAssumption
       DEF CloseNull, CloseZero, AloneInv, AlonePlaces
  <2>3. AloneObjects'
    BY <1>1, <1>2, <1>9, <2>1, FdAssumption
       DEF CloseNull, CloseZero, AloneInv, AloneObjects, AlonePlaces, Reading,
           ReleaseInv, ClosePlaces
  <2>4. OnlyOwnObjects'
    BY <1>9 DEF CloseNull, CloseZero, AloneInv, OnlyOwnObjects
  <2>5. QED
    BY <1>5, <2>2, <2>3, <2>4 DEF AloneInv
<1>10. CASE CloseDescriptor(t)
  <2>1. client_sock = Fd /\ owner[Fd] = "conn"
    BY <1>1, <1>10 DEF CloseDescriptor, AloneInv, AlonePlaces, AloneObjects
  <2>2. AlonePlaces'
    BY <1>1, <1>2, <1>3, <1>4, <1>10 DEF CloseDescriptor, AloneInv, AlonePlaces
  <2>3. AloneObjects'
    BY <1>1, <1>2, <1>10, <2>1, FdAssumption
       DEF CloseDescriptor, AloneInv, AloneObjects, Reading
  <2>4. OnlyOwnObjects'
    BY <1>10, <2>1 DEF CloseDescriptor, AloneInv, OnlyOwnObjects
  <2>5. QED
    BY <1>5, <2>2, <2>3, <2>4 DEF AloneInv
<1>11. QED
  BY <1>6, <1>7, <1>8, <1>9, <1>10 DEF closeSocket

(* Sending goes to the client, or to nobody.  After a message whose payload *)
(* never came it goes to descriptor 0.                                      *)
LEMMA AloneSend ==
  ASSUME TypeOK, ReleaseInv, AloneInv, NEW m, NEW fs \in SUBSET {"uninitialised"},
         sendMessage(m, fs), rpc \in MessagePlaces, rpc' \in MessagePlaces \cup {"loop"},
         UNCHANGED <<tpc, cpc, rd, client_sock, ssl, owner, closeCalls>>
  PROVE  AloneInv'
<1> USE DEF MessagePlaces, ReadPlaces, EndPlaces, CallPlaces
<1>1. cpc["receiver"] = "idle" /\ rd = "none"
  BY DEF AloneInv, AlonePlaces, AloneObjects, Reading
<1>2. faults \cup fs = faults'
  <2>1. Channel # "freed"
    BY <1>1, FdAssumption DEF Channel, AloneInv, AloneObjects, TypeOK, SocketTypeOK
  <2>2. ~SslNulled
    BY DEF SslNulled, AloneInv, AlonePlaces
  <2>3. QED
    BY <2>1, <2>2 DEF sendMessage, UseNullSsl
<1>3. Channel \in {"stdin", "other"} => Channel = "stdin" /\ "uninitialised" \in faults
  BY <1>1 DEF Channel, AloneInv, AlonePlaces, AloneObjects, TypeOK, SocketTypeOK
<1>4. session' = session \/ (ssl /\ session' = "failed")
  BY DEF sendMessage, SendToClient
<1>5. stray' = stray \/ (stray' = stray \cup {<<"write", "stdin">>}
                         /\ "uninitialised" \in faults)
  BY <1>3 DEF sendMessage
<1>6. AlonePlaces' /\ AloneCalls'
  BY <1>1, <1>2 DEF AloneInv, AlonePlaces, AloneCalls
<1>7. AloneObjects'
  BY <1>1, <1>4 DEF AloneInv, AloneObjects, Reading
<1>8. OnlyOwnObjects'
  <2>1. "uninitialised" \in faults => "uninitialised" \in faults'
    BY <1>2
  <2>2. faults' \subseteq {"uninitialised"}
    BY <1>2 DEF AloneInv, OnlyOwnObjects
  <2>3. QED
    BY <1>5, <2>1, <2>2 DEF AloneInv, OnlyOwnObjects
<1>9. QED
  BY <1>6, <1>7, <1>8 DEF AloneInv

(* Reading: the object that is picked is the connection's own. *)
LEMMA AloneRead ==
  ASSUME TypeOK, ReleaseInv, AloneInv, ~timeout,
         \/ BeginRead("header", "inHeader") \/ BeginRead("payload", "inPayload")
         \/ ReadPart \/ ReceiveHeader \/ ReceivePayload
         \/ ReceiveShort \/ ReceiveFatal \/ ReceiveFreed \/ ReceiveStray
  PROVE  AloneInv'
<1> USE DEF At, Reading, ReadPlaces, MessagePlaces, EndPlaces, CallPlaces
<1>1. rpc \in ReadPlaces
  BY DEF BeginRead, ReadPart, ReceiveHeader, ReceivePayload, ReceiveShort,
     ReceiveFatal, ReceiveFreed, ReceiveStray
<1>2. cpc["receiver"] = "idle" /\ client_sock = Fd /\ owner[Fd] = "conn"
  BY <1>1 DEF AloneInv, AlonePlaces, AloneObjects
<1>3. ssl => session # "freed"
  BY <1>2 DEF AloneInv, AloneObjects
<1>4. rd # "other" /\ (rd = "tls" => session # "freed")
  BY <1>3 DEF AloneInv, AloneObjects
<1>5. CASE BeginRead("header", "inHeader") \/ BeginRead("payload", "inPayload")
  <2>1. UNCHANGED <<tpc, cpc, client_sock, ssl, session, owner, stray, faults, closeCalls>>
    <3>1. Channel # "freed"
      BY <1>2, <1>3 DEF Channel
    <3>2. ~SslNulled
      BY DEF SslNulled, AloneInv, AlonePlaces
    <3>3. QED
      BY <1>5, <3>1, <3>2
         DEF BeginRead, MayEnd, UseNullSsl, timerVars, closeVars, socketVars, appVars
  <2>2. rpc' \in {"inHeader", "inPayload"} /\ rd' = IF ssl THEN "tls" ELSE "conn"
    BY <1>2, <1>5 DEF BeginRead
  <2>3. AlonePlaces' /\ AloneCalls'
    BY <1>1, <1>2, <2>1, <2>2 DEF AloneInv, AlonePlaces, AloneCalls
  <2>4. AloneObjects'
    BY <1>2, <2>1, <2>2 DEF AloneInv, AloneObjects
  <2>5. OnlyOwnObjects'
    BY <2>1 DEF AloneInv, OnlyOwnObjects
  <2>6. QED
    BY <2>3, <2>4, <2>5 DEF AloneInv
<1>6. CASE ReadPart \/ ReceiveHeader \/ ReceivePayload
  <2>1. UNCHANGED <<tpc, cpc, client_sock, ssl, session, owner, stray, faults, closeCalls>>
    BY <1>6 DEF ReadPart, ReceiveHeader, ReceivePayload, timerVars, closeVars,
       socketVars, appVars, errorVars
  <2>2. rd' = "none" /\ rpc' \in {"header", "payload", "received"}
    BY <1>6 DEF ReadPart, ReceiveHeader, ReceivePayload
  <2>3. AlonePlaces' /\ AloneCalls'
    BY <1>1, <1>2, <2>1, <2>2 DEF AloneInv, AlonePlaces, AloneCalls
  <2>4. AloneObjects'
    BY <1>2, <2>1, <2>2 DEF AloneInv, AloneObjects
  <2>5. OnlyOwnObjects'
    BY <2>1 DEF AloneInv, OnlyOwnObjects
  <2>6. QED
    BY <2>3, <2>4, <2>5 DEF AloneInv
<1>7. CASE ReceiveShort \/ ReceiveFatal
  <2>1. PICK s : CallClose("receiver", s)
    BY <1>7 DEF ReceiveShort, ReceiveFatal
  <2>2. UNCHANGED <<tpc, client_sock, ssl, owner, stray, faults, closeCalls>>
    BY <1>7 DEF ReceiveShort, ReceiveFatal, timerVars, socketVars, appVars, errorVars
  <2>3. /\ rd' = "none" /\ rpc' \in CallPlaces
        /\ session' = session \/ (ssl /\ session' = "failed")
    BY <1>7 DEF ReceiveShort, ReceiveFatal, socketVars
  <2>4. QED
    BY <1>1, <1>2, <2>1, <2>2, <2>3, AloneCall
<1>8. QED
  BY <1>4, <1>5, <1>6, <1>7 DEF ReceiveFreed, ReceiveStray

(* Before the timeout the timer thread only polls. *)
LEMMA TimerOnlyPolls ==
  ASSUME TimerInv, tpc \notin {"fire", "callback"}, ~timeout', [Next]_vars
  PROVE  tpc' \notin {"fire", "callback"}
<1>1. UNCHANGED tpc => tpc' \notin {"fire", "callback"}
  OBVIOUS
<1>2. CASE Setup \/ MessageReceived \/ ActivateRouting \/ DisarmTimer
  BY <1>1, <1>2 DEF Setup, SetTimer, MessageReceived, ResetTimer, ActivateRouting,
     StartTimer, DisarmTimer, Disarm, timerVars
<1>3. CASE PollTimer \/ Second \/ aliveCheckTimeout \/ CallbackReturns
  BY <1>3 DEF PollTimer, PollExpired, PollDisabled, Expire, Second, Tick,
     aliveCheckTimeout, CallbackReturns, TimerGoto
<1>4. CASE \E t \in Threads : closeSocket(t)
  BY <1>1, <1>4, CloseLeavesTimer DEF timerVars
<1>5. CASE Environment \/ Halted \/ UNCHANGED vars
  BY <1>1, <1>5 DEF Environment, ClientSends, ClientCompletes, ClientCloses,
     ReuseDescriptor, ReceiveStray, Halted, vars, timerVars
<1>6. CASE Receiver
  BY <1>1, <1>2, <1>4, <1>6
     DEF Receiver, Threads, LoopTest, BeginRead, ReadPart, ReceiveHeader,
         ReceivePayload, ReceiveShort, ReceiveFatal, ReceiveFreed, AfterFatal,
         CloseReturns, sendNegativeAck, NackAnswered, RespondToActivation,
         RefuseRouting, NotifyApplication, DeliverDiagnostic, DropDiagnostic,
         ReadUnsetAddress, IgnoreMessage, triggerDisconnection, DestroyCallbacks,
         JoinTimer, sendUnchanged, timerVars
<1>7. QED
  BY <1>3, <1>4, <1>5, <1>6 DEF Next, Timer, Threads

(* Every step before the timeout keeps the invariant. *)
LEMMA AloneNext ==
  ASSUME TypeOK, ReleaseInv, TimerInv, AloneInv, ~timeout, ~timeout', [Next]_vars
  PROVE  AloneInv'
<1> USE DEF At, ReadPlaces, MessagePlaces, EndPlaces, CallPlaces
<1>1. rpc \notin CallPlaces => cpc["receiver"] = "idle"
  BY DEF AloneInv, AlonePlaces
<1>2. rpc \notin {"inHeader", "inPayload"} => rd = "none"
  BY DEF AloneInv, AloneObjects, Reading
<1>3. tpc' \notin {"fire", "callback"}
  BY TimerOnlyPolls DEF AloneInv, AlonePlaces
<1>4. CASE \/ \E r \in Requests, part \in Parts : ClientSends(r, part)
           \/ ClientCompletes
           \/ \E how \in {"notify", "fin", "rst"} : ClientCloses(how)
           \/ UNCHANGED vars
  BY <1>4, AloneFrame
     DEF ClientSends, ClientCompletes, ClientCloses, vars, aloneVars, socketVars,
         receiverVars, closeVars, appVars, errorVars, timerVars
<1>5. CASE \E d \in {0, Fd} : ReuseDescriptor(d)
  <2>1. PICK d \in {0, Fd} : ReuseDescriptor(d)
    BY <1>5
  <2>2. UNCHANGED <<tpc, cpc, rpc, rd, client_sock, ssl, session, faults, stray,
                    closeCalls>>
    BY <2>1 DEF ReuseDescriptor, receiverVars, closeVars, appVars, errorVars, timerVars
  <2>3. d = Fd /\ owner[Fd] = "closed"
    BY <2>1 DEF ReuseDescriptor, AloneInv, AloneObjects
  <2>4. owner'[0] = owner[0]
    BY <2>1, <2>3, FdAssumption DEF ReuseDescriptor, TypeOK, SocketTypeOK
  <2>5. QED
    BY <2>2, <2>3, <2>4
       DEF AloneInv, AlonePlaces, AloneObjects, AloneCalls, OnlyOwnObjects, Reading
<1>6. CASE \/ Setup \/ LoopTest \/ MessageReceived \/ IgnoreMessage
           \/ triggerDisconnection \/ DestroyCallbacks \/ DisarmTimer \/ JoinTimer
           \/ ActivateRouting \/ DropDiagnostic \/ CloseReturns
  <2>1. UNCHANGED <<cpc, rd, client_sock, ssl, session, owner, stray>>
    BY <1>6 DEF Setup, LoopTest, MessageReceived, IgnoreMessage, triggerDisconnection,
       DestroyCallbacks, DisarmTimer, JoinTimer, ActivateRouting, DropDiagnostic,
       CloseReturns, socketVars, closeVars, errorVars
  <2>2. cpc["receiver"] = "idle" /\ rd = "none"
    BY <1>1, <1>2, <1>6
       DEF Setup, LoopTest, MessageReceived, IgnoreMessage, triggerDisconnection,
           DestroyCallbacks, DisarmTimer, JoinTimer, ActivateRouting, DropDiagnostic,
           CloseReturns
  <2>3. faults' \in {faults, faults \cup {"uninitialised"}}
    BY <1>6 DEF Setup, LoopTest, MessageReceived, IgnoreMessage, triggerDisconnection,
       DestroyCallbacks, DisarmTimer, JoinTimer, ActivateRouting, DropDiagnostic,
       CloseReturns, errorVars, RoutedFault
  <2>4. /\ rpc' \in ReadPlaces => client_sock = Fd
        /\ rpc' \in MessagePlaces => client_sock = Fd \/ "uninitialised" \in faults
        /\ rpc' = "trigger" \/ rpc' \in EndPlaces => client_sock = 0
    BY <1>6 DEF Setup, LoopTest, MessageReceived, IgnoreMessage, triggerDisconnection,
       DestroyCallbacks, DisarmTimer, JoinTimer, ActivateRouting, DropDiagnostic,
       CloseReturns, isSocketActive, AloneInv, AlonePlaces, TypeOK, SocketTypeOK
  <2>5. closeCalls' = IF rpc' \in EndPlaces THEN 1 ELSE 0
    <3>1. CASE triggerDisconnection
      BY <3>1 DEF triggerDisconnection, AloneInv, AloneCalls
    <3>2. CASE ~triggerDisconnection
      <4>1. closeCalls' = closeCalls /\ (rpc' \in EndPlaces <=> rpc \in EndPlaces)
        BY <1>6, <3>2 DEF Setup, LoopTest, MessageReceived, IgnoreMessage,
           DestroyCallbacks, DisarmTimer, JoinTimer, ActivateRouting,
           DropDiagnostic, CloseReturns, appVars
      <4>2. QED
        BY <4>1 DEF AloneInv, AloneCalls
    <3>3. QED
      BY <3>1, <3>2
  <2>6. QED
    BY <1>3, <2>1, <2>2, <2>3, <2>4, <2>5, AloneMove
<1>7. CASE \/ BeginRead("header", "inHeader") \/ BeginRead("payload", "inPayload")
           \/ ReadPart \/ ReceiveHeader \/ ReceivePayload
           \/ ReceiveShort \/ ReceiveFatal \/ ReceiveFreed \/ ReceiveStray
  BY <1>7, AloneRead
<1>8. CASE AfterFatal \/ NackAnswered \/ RefuseRouting
  <2>1. /\ UNCHANGED <<tpc, rd, client_sock, ssl, session, owner, stray, closeCalls>>
        /\ cpc["receiver"] = "idle" /\ rd = "none"
    BY <1>1, <1>2, <1>8 DEF AfterFatal, NackAnswered, RefuseRouting, socketVars,
       appVars, errorVars, timerVars
  <2>2. CASE CallClose("receiver", FALSE) /\ rpc' = "closing"
    <3>1. UNCHANGED faults
      BY <1>8, <2>2 DEF AfterFatal, NackAnswered, RefuseRouting, errorVars
    <3>2. rpc \notin EndPlaces
      BY <1>8 DEF AfterFatal, NackAnswered, RefuseRouting
    <3>3. QED
      BY <2>1, <2>2, <3>1, <3>2, AloneCall
  <2>3. CASE UNCHANGED closeVars
    <3>1. /\ rpc \notin EndPlaces
          /\ \/ rpc' = "received" /\ faults' = faults \cup {"uninitialised"}
             \/ rpc' = "loop" /\ UNCHANGED faults
      BY <1>8, <2>1, <2>3
         DEF AfterFatal, NackAnswered, RefuseRouting, CallClose, closeVars, errorVars,
             TypeOK, CloseTypeOK, Threads
    <3>2. UNCHANGED cpc /\ closeCalls' = 0
      BY <2>1, <2>3, <3>1 DEF closeVars, AloneInv, AloneCalls
    <3>3. QED
      BY <1>3, <2>1, <3>1, <3>2, AloneMove
  <2>4. QED
    BY <1>8, <2>2, <2>3 DEF AfterFatal, NackAnswered, RefuseRouting
<1>9. CASE sendNegativeAck \/ RespondToActivation \/ NotifyApplication \/ DeliverDiagnostic
  <2>1. PICK fs \in SUBSET {"uninitialised"} : \E m : sendMessage(m, fs)
    <3>1. RoutedFault \in SUBSET {"uninitialised"} /\ {} \in SUBSET {"uninitialised"}
      BY DEF RoutedFault
    <3>2. QED
      BY <1>9, <3>1
         DEF sendNegativeAck, RespondToActivation, NotifyApplication, DeliverDiagnostic
  <2>2. UNCHANGED <<tpc, cpc, rd, client_sock, ssl, owner, closeCalls>>
    BY <1>9 DEF sendNegativeAck, RespondToActivation, NotifyApplication,
       DeliverDiagnostic, sendUnchanged, closeVars, timerVars
  <2>3. rpc \in MessagePlaces /\ rpc' \in MessagePlaces \cup {"loop"}
    BY <1>9 DEF sendNegativeAck, RespondToActivation, NotifyApplication, DeliverDiagnostic
  <2>4. QED
    BY <2>1, <2>2, <2>3, AloneSend
<1>10. CASE ReadUnsetAddress
  <2>1. /\ UNCHANGED <<tpc, cpc, rpc, rd, client_sock, ssl, session, owner, stray,
                      closeCalls>>
        /\ rpc \in {"react", "deliver"}
        /\ faults' = faults \cup {"uninitialised"}
    BY <1>10 DEF ReadUnsetAddress, RoutedFault, receiverVars, socketVars, closeVars,
       appVars, timerVars
  <2>2. closeCalls' = 0 /\ (client_sock = Fd \/ "uninitialised" \in faults)
    BY <2>1 DEF AloneInv, AlonePlaces, AloneCalls
  <2>3. QED
    BY <1>1, <1>2, <1>3, <2>1, <2>2, AloneMove
<1>11. CASE \E t \in Threads : closeSocket(t)
  BY <1>11, AloneClose
<1>12. CASE PollTimer \/ Second
  <2>1. UNCHANGED <<cpc, rpc, rd, client_sock, ssl, session, owner, faults, stray,
                    closeCalls>>
    BY <1>12 DEF PollTimer, Second, untimed, receiverVars, socketVars, closeVars,
       appVars, errorVars
  <2>2. QED
    BY <1>3, <2>1
       DEF AloneInv, AlonePlaces, AloneObjects, AloneCalls, OnlyOwnObjects, Reading
<1>13. CASE aliveCheckTimeout \/ CallbackReturns
  BY <1>13 DEF aliveCheckTimeout, CallbackReturns, TimerGoto, AloneInv, AlonePlaces
<1>14. QED
  BY <1>4, <1>5, <1>6, <1>7, <1>8, <1>9, <1>10, <1>11, <1>12, <1>13
     DEF Next, Environment, Receiver, Timer, Halted, Threads

(* A timeout is never taken back. *)
LEMMA TimeoutStays == timeout /\ [Next]_vars => timeout'
<1> SUFFICES ASSUME timeout, [Next]_vars PROVE timeout'
  OBVIOUS
<1>1. CASE Setup \/ MessageReceived \/ ActivateRouting \/ DisarmTimer
  BY <1>1 DEF Setup, SetTimer, MessageReceived, ResetTimer, ActivateRouting,
     StartTimer, DisarmTimer, Disarm, timerVars
<1>2. CASE PollTimer \/ Second \/ aliveCheckTimeout \/ CallbackReturns
  BY <1>2 DEF PollTimer, PollExpired, PollDisabled, Expire, Second, Tick,
     aliveCheckTimeout, CallbackReturns, TimerGoto
<1>3. CASE \E t \in Threads : closeSocket(t)
  BY <1>3, CloseLeavesTimer DEF timerVars
<1>4. CASE Environment \/ Halted \/ UNCHANGED vars
  BY <1>4 DEF Environment, ClientSends, ClientCompletes, ClientCloses,
     ReuseDescriptor, ReceiveStray, Halted, vars, timerVars
<1>5. CASE Receiver
  BY <1>1, <1>3, <1>5
     DEF Receiver, Threads, LoopTest, BeginRead, ReadPart, ReceiveHeader,
         ReceivePayload, ReceiveShort, ReceiveFatal, ReceiveFreed, AfterFatal,
         CloseReturns, sendNegativeAck, NackAnswered, RespondToActivation,
         RefuseRouting, NotifyApplication, DeliverDiagnostic, DropDiagnostic,
         ReadUnsetAddress, IgnoreMessage, triggerDisconnection, DestroyCallbacks,
         JoinTimer, sendUnchanged, timerVars
<1>6. QED
  BY <1>2, <1>3, <1>4, <1>5 DEF Next, Timer, Threads

-----------------------------------------------------------------------------
(* The end of the connection and its objects. *)

(* Until the timer fires, if it ever does, the receiver is alone. *)
LEMMA AloneInvariant == Spec => [](timeout \/ AloneInv)
<1>1. Init => AloneInv
  BY FdAssumption, TlsAssumption
     DEF Init, TimerInit, AloneInv, AlonePlaces, AloneObjects, AloneCalls, EndPlaces,
         OnlyOwnObjects, ReadPlaces, MessagePlaces, Threads
<1>2. Init => ReleaseInv
  BY FdAssumption, TlsAssumption DEF Init, ReleaseInv, ClosePlaces, Released
<1>3. /\ TypeOK /\ ReleaseInv /\ TimerInv /\ (timeout \/ AloneInv)
      /\ [Next]_vars
      => (timeout \/ AloneInv)'
  BY AloneNext, TimeoutStays
<1>4. QED
  BY <1>1, <1>2, <1>3, TypeCorrect, ReleaseNext, TimerInvariant, PTL DEF Spec

(* The invariant says what the properties ask for. *)
LEMMA AloneImplies == AloneInv => OnlyOwnObjects /\ CloseCallbackOnce
  BY DEF AloneInv, AlonePlaces, AloneCalls, EndPlaces, CloseCallbackOnce

(* Whatever the client sends and whenever it leaves: as long as the         *)
(* inactivity timer has not fired, the connection reads, writes and closes  *)
(* only its own socket, uses its SSL object only while it exists, and       *)
(* reports its end once, after the socket was closed.                       *)
THEOREM AloneUntilTimeout ==
  Spec => [](timeout \/ (OnlyOwnObjects /\ CloseCallbackOnce))
<1>1. QED
  BY AloneInvariant, AloneImplies, PTL

(* setGeneralInactivityTime(0) disables the timer before the first message. *)
TimerOff == ~timeout /\ tpc = "none" /\ (rpc # "setup" => disabled)

(* A disabled timer is never started. *)
LEMMA TimerOffNext ==
  ASSUME InactivityTimes = {0}, TimerOff, [Next]_vars
  PROVE  TimerOff'
<1> USE DEF TimerOff, At
<1>1. UNCHANGED timerVars /\ (rpc = "setup" => rpc' = "setup") => TimerOff'
  BY DEF timerVars
<1>2. CASE Setup
  <2>1. SetTimer(0)
    BY <1>2 DEF Setup
  <2>2. disabled' /\ UNCHANGED <<timeout, tpc>>
    BY <2>1, Zenon DEF SetTimer
  <2>3. QED
    BY <2>2
<1>3. CASE MessageReceived \/ ActivateRouting \/ DisarmTimer
  <2>1. rpc # "setup" /\ disabled
    BY <1>3 DEF MessageReceived, ActivateRouting, DisarmTimer
  <2>2. /\ UNCHANGED <<timeout, tpc>> /\ disabled'
    BY <1>3, <2>1, Zenon
       DEF MessageReceived, ResetTimer, ActivateRouting, StartTimer, DisarmTimer,
           Disarm, timerVars
  <2>3. QED
    BY <2>2
<1>4. CASE PollTimer \/ Second \/ aliveCheckTimeout \/ CallbackReturns
  BY <1>4 DEF PollTimer, PollExpired, PollDisabled, Expire, Second, Tick,
     aliveCheckTimeout, CallbackReturns, TimerGoto
<1>5. CASE \E t \in Threads : closeSocket(t)
  BY <1>1, <1>5, CloseLeavesTimer
<1>6. CASE Environment \/ Halted \/ UNCHANGED vars
  BY <1>1, <1>6 DEF Environment, ClientSends, ClientCompletes, ClientCloses,
     ReuseDescriptor, ReceiveStray, Reading, Halted, vars, receiverVars
<1>7. CASE Receiver
  <2>1. \/ Setup \/ MessageReceived \/ ActivateRouting \/ DisarmTimer
        \/ closeSocket("receiver")
        \/ UNCHANGED timerVars /\ (rpc = "setup" => rpc' = "setup")
    BY <1>7
       DEF Receiver, LoopTest, BeginRead, ReadPart, ReceiveHeader, ReceivePayload,
           ReceiveShort, ReceiveFatal, ReceiveFreed, Reading, AfterFatal, CloseReturns,
           sendNegativeAck, NackAnswered, RespondToActivation, RefuseRouting,
           NotifyApplication, DeliverDiagnostic, DropDiagnostic, ReadUnsetAddress,
           IgnoreMessage, triggerDisconnection, DestroyCallbacks, JoinTimer,
           sendUnchanged
  <2>2. QED
    BY <1>1, <1>2, <1>3, <1>5, <2>1 DEF Threads
<1>8. QED
  BY <1>4, <1>5, <1>6, <1>7 DEF Next, Timer, Threads

(* A connection whose timer is disabled never times out. *)
LEMMA TimerOffInvariant == ASSUME InactivityTimes = {0} PROVE Spec => []TimerOff
<1>1. Init => TimerOff
  BY DEF Init, TimerInit, TimerOff
<1>2. TimerOff /\ [Next]_vars => TimerOff'
  BY TimerOffNext
<1>3. QED
  BY <1>1, <1>2, PTL DEF Spec

(* A connection whose timer is disabled uses only its own socket and SSL    *)
(* object, whatever the client sends and whenever it leaves.                *)
THEOREM OwnObjectsCorrect == ASSUME InactivityTimes = {0} PROVE Spec => []OnlyOwnObjects
<1>1. TimerOff /\ (timeout \/ AloneInv) => OnlyOwnObjects
  BY AloneImplies DEF TimerOff
<1>2. QED
  BY <1>1, AloneInvariant, TimerOffInvariant, PTL

(* The application hears of the end of such a connection exactly once, and  *)
(* after the socket was closed.                                             *)
THEOREM CloseCallbackCorrect ==
  ASSUME InactivityTimes = {0} PROVE Spec => []CloseCallbackOnce
<1>1. TimerOff /\ (timeout \/ AloneInv) => CloseCallbackOnce
  BY AloneImplies DEF TimerOff
<1>2. QED
  BY <1>1, AloneInvariant, TimerOffInvariant, PTL

-----------------------------------------------------------------------------
(* The dialogue.  What was sent for the message in hand follows from the    *)
(* receiver's place, with or without a timer, until undefined behaviour is  *)
(* met: nothing while the message is read, then one answer, or none if the  *)
(* client has reset the connection.                                         *)

Nack(code) == [kind |-> "NEGATIVEACK", to |-> Unset, code |-> code]

ReplyPlaces ==
  /\ rpc \in ReadPlaces \cup {"received", "react"} => out = <<>>
  /\ rpc = "answered" /\ cur.type = "NEGATIVEACK" => out \in {<<>>, <<Nack(cur.value)>>}
  /\ rpc = "answered" /\ cur.type = "ROUTINGACTIVATIONREQUEST" =>
       out \in {<<>>, <<createRoutingActivationResponse(cur.sa, RoutingResult)>>}
  /\ rpc = "deliver" =>
       /\ routedClientAddress # Unset
       /\ out \in {<<>>, <<createDiagnosticACK(TRUE, routedClientAddress, 0)>>}

NackValues == cur.type = "NEGATIVEACK" => cur.value \in {0, 1, 4}

ReplyInv == NackValues /\ (faults = {} => ReplyPlaces)

(* parseGenericHeader answers a negative acknowledge with one of its codes. *)
LEMMA NackValue ==
  ASSUME NEW pattern, NEW code, NEW length,
         NEW a \in HeaderActions(pattern, code, length), a.type = "NEGATIVEACK"
  PROVE  a.value \in {0, 1, 4}
<1> USE DEF Action, IncorrectPatternFormatCode, UnknownPayloadTypeCode,
            InvalidPayloadLengthCode
<1>1. CASE ~pattern \/ code \notin KnownCodes
  BY <1>1 DEF HeaderActions
<1>2. CASE pattern /\ code \in KnownCodes
  <2>1. TypeOfCode(code) # "NEGATIVEACK"
    <3>1. PICK t \in ReceivedTypes : t.type = TypeOfCode(code)
      BY <1>2, KnownCodeType
    <3>2. t.type # "NEGATIVEACK"
      BY DEF ReceivedTypes
    <3>3. QED
      BY <3>1, <3>2
  <2>2. ~LengthValid(TypeOfCode(code), length)
    BY <1>2, <2>1 DEF HeaderActions
  <2>3. QED
    BY <1>2, <2>2 DEF HeaderActions
<1>3. QED
  BY <1>1, <1>2

(* A step that touches none of the variables involved keeps the invariant. *)
LEMMA ReplyFrame ==
  ASSUME ReplyInv, UNCHANGED <<rpc, cur, out, routedClientAddress>>,
         faults \subseteq faults'
  PROVE  ReplyInv'
<1>1. NackValues' /\ (ReplyPlaces => ReplyPlaces')
  BY DEF ReplyInv, NackValues, ReplyPlaces, RoutingResult
<1>2. faults' = {} => faults = {}
  OBVIOUS
<1>3. QED
  BY <1>1, <1>2 DEF ReplyInv

(* A step after which no message is in hand. *)
LEMMA ReplyLeave ==
  ASSUME ReplyInv, cur' \in {cur, NoMessage},
         \/ rpc' \notin ReadPlaces \cup MessagePlaces
         \/ rpc' \in ReadPlaces /\ out' = <<>>
  PROVE  ReplyInv'
<1>1. NackValues'
  BY DEF ReplyInv, NackValues, NoMessage
<1>2. ReplyPlaces'
  BY DEF ReplyPlaces, ReadPlaces, MessagePlaces
<1>3. QED
  BY <1>1, <1>2 DEF ReplyInv

(* A step of the receiver before the message is processed. *)
LEMMA ReplyRead ==
  ASSUME ReplyInv, rpc \in ReadPlaces \cup {"received"},
         rpc' \in ReadPlaces \cup {"received", "react"},
         UNCHANGED out, faults \subseteq faults', NackValues'
  PROVE  ReplyInv'
<1>1. faults' = {} => out' = <<>>
  BY DEF ReplyInv, ReplyPlaces
<1>2. out' = <<>> => ReplyPlaces'
  BY DEF ReplyPlaces, ReadPlaces
<1>3. QED
  BY <1>1, <1>2 DEF ReplyInv

(* The first answer to a message. *)
LEMMA AppendFirst == ASSUME NEW m PROVE Append(<<>>, m) = <<m>>
  OBVIOUS

(* While nothing undefined has happened, a message that is about to be      *)
(* processed has not been answered.                                         *)
LEMMA NotAnsweredYet ==
  ASSUME ReplyInv, rpc = "react", faults \subseteq faults', faults' = {}
  PROVE  out = <<>>
<1>1. faults = {}
  OBVIOUS
<1>2. QED
  BY <1>1 DEF ReplyInv, ReplyPlaces

(* Sending appends at most the message, and records the faults. *)
LEMMA SendAppends ==
  ASSUME NEW m, NEW fs, sendMessage(m, fs)
  PROVE  out' \in {out, Append(out, m)} /\ faults \cup fs \subseteq faults'
<1>1. out' \in {out, Append(out, m)}
  BY DEF sendMessage, SendToClient
<1>2. QED
  BY <1>1, SendKeepsFaults

(* closeSocket sends nothing. *)
LEMMA CloseSendsNothing ==
  ASSUME NEW t, closeSocket(t)
  PROVE  /\ UNCHANGED <<rpc, cur, out, routedClientAddress, delivered, refused, closeCalls>>
         /\ faults \subseteq faults'
  BY DEF closeSocket, CloseCheck, CloseShutdown, CloseAwait, CloseFree, CloseNull,
     CloseDescriptor, CloseZero, closeUnchanged, receiverVars, appVars, errorVars, MayEnd

(* Every step keeps the invariant. *)
LEMMA ReplyNext == TypeOK /\ ReplyInv /\ [Next]_vars => ReplyInv'
<1> SUFFICES ASSUME TypeOK, ReplyInv, [Next]_vars PROVE ReplyInv'
  OBVIOUS
<1> USE DEF At, ReadPlaces, MessagePlaces
<1>1. CASE ~ReceiveStray /\ Environment
  BY <1>1, ReplyFrame
     DEF Environment, ClientSends, ClientCompletes, ClientCloses, ReuseDescriptor,
         receiverVars, appVars, errorVars
<1>2. CASE \/ Setup \/ LoopTest \/ CloseReturns \/ NackAnswered \/ RefuseRouting
           \/ ActivateRouting \/ DropDiagnostic \/ IgnoreMessage
           \/ triggerDisconnection \/ DestroyCallbacks \/ DisarmTimer \/ JoinTimer
           \/ ReceiveShort \/ ReceiveFatal
  <2>1. cur' \in {cur, NoMessage}
    BY <1>2 DEF Setup, LoopTest, CloseReturns, NackAnswered, RefuseRouting,
       ActivateRouting, DropDiagnostic, IgnoreMessage, triggerDisconnection,
       DestroyCallbacks, DisarmTimer, JoinTimer, ReceiveShort, ReceiveFatal
  <2>2. \/ rpc' \notin ReadPlaces \cup MessagePlaces
        \/ rpc' \in ReadPlaces /\ out' = <<>>
    BY <1>2 DEF Setup, LoopTest, CloseReturns, NackAnswered, RefuseRouting,
       ActivateRouting, DropDiagnostic, IgnoreMessage, triggerDisconnection,
       DestroyCallbacks, DisarmTimer, JoinTimer, ReceiveShort, ReceiveFatal
  <2>3. QED
    BY <2>1, <2>2, ReplyLeave
<1>3. CASE ReceiveFreed
  BY <1>3, ReplyLeave DEF ReceiveFreed
<1>4. CASE \/ BeginRead("header", "inHeader") \/ BeginRead("payload", "inPayload")
           \/ ReadPart \/ MessageReceived
  <2>1. UNCHANGED <<cur, out>> /\ faults \subseteq faults'
    BY <1>4 DEF BeginRead, ReadPart, MessageReceived, appVars, errorVars, MayEnd,
       UseNullSsl
  <2>2. rpc \in ReadPlaces \cup {"received"} /\ rpc' \in ReadPlaces \cup {"received", "react"}
    BY <1>4 DEF BeginRead, ReadPart, MessageReceived, Reading
  <2>3. NackValues'
    BY <2>1 DEF ReplyInv, NackValues
  <2>4. QED
    BY <2>1, <2>2, <2>3, ReplyRead
<1>5. CASE ReceiveHeader
  <2>1. PICK a \in HeaderActions(Head(stream).req.pattern, Head(stream).req.code,
                                 Head(stream).req.len) :
          /\ cur' = [type |-> a.type, value |-> a.value, len |-> a.payloadLength,
                     sa |-> Head(stream).req.sa, act |-> Head(stream).req.act,
                     whole |-> a.payloadLength = 0]
          /\ rpc' \in {"payload", "received"}
    BY <1>5 DEF ReceiveHeader
  <2>2. NackValues'
    BY <2>1, NackValue DEF NackValues
  <2>3. rpc = "inHeader" /\ UNCHANGED <<out, faults>>
    BY <1>5 DEF ReceiveHeader, appVars, errorVars
  <2>4. QED
    BY <2>1, <2>2, <2>3, ReplyRead
<1>6. CASE ReceivePayload
  <2>1. cur'.type = cur.type /\ cur'.value = cur.value
    BY <1>6 DEF ReceivePayload, TypeOK, ReceiverTypeOK, Current
  <2>2. rpc = "inPayload" /\ rpc' = "received" /\ UNCHANGED <<out, faults>>
    BY <1>6 DEF ReceivePayload, appVars, errorVars
  <2>3. NackValues'
    BY <2>1 DEF ReplyInv, NackValues
  <2>4. QED
    BY <2>2, <2>3, ReplyRead
<1>7. CASE ReceiveStray
  <2>1. CASE rpc' = "closing" /\ UNCHANGED cur
    BY <2>1, ReplyLeave
  <2>2. CASE rpc = "inPayload" /\ rpc' = "received"
    <3>1. cur'.type = cur.type /\ cur'.value = cur.value
      BY <1>7, <2>2 DEF ReceiveStray, TypeOK, ReceiverTypeOK, Current
    <3>2. UNCHANGED <<out, faults>>
      BY <1>7 DEF ReceiveStray, appVars
    <3>3. NackValues'
      BY <3>1 DEF ReplyInv, NackValues
    <3>4. QED
      BY <2>2, <3>2, <3>3, ReplyRead
  <2>3. QED
    BY <1>7, <2>1, <2>2 DEF ReceiveStray
<1>8. CASE AfterFatal
  <2>1. CASE rpc' = "closing" /\ UNCHANGED cur
    BY <2>1, ReplyLeave
  <2>2. CASE rpc' = "received"
    <3>1. cur'.type = cur.type /\ cur'.value = cur.value
      BY <1>8, <2>2 DEF AfterFatal, TypeOK, ReceiverTypeOK, Current
    <3>2. "uninitialised" \in faults'
      BY <1>8, <2>2 DEF AfterFatal
    <3>3. QED
      BY <3>1, <3>2 DEF ReplyInv, NackValues
  <2>3. QED
    BY <1>8, <2>1, <2>2 DEF AfterFatal
<1>9. CASE sendNegativeAck \/ RespondToActivation
  <2>1. /\ rpc = "react" /\ rpc' = "answered"
        /\ UNCHANGED <<cur, routedClientAddress>>
    BY <1>9 DEF sendNegativeAck, RespondToActivation, sendUnchanged
  <2>2. PICK m : /\ \E fs : sendMessage(m, fs)
                 /\ \/ cur.type = "NEGATIVEACK" /\ m = Nack(cur.value)
                    \/ /\ cur.type = "ROUTINGACTIVATIONREQUEST"
                       /\ m = createRoutingActivationResponse(cur.sa, RoutingResult)
    BY <1>9 DEF sendNegativeAck, RespondToActivation, Nack
  <2>3. out' \in {out, Append(out, m)} /\ faults \subseteq faults'
    BY <2>2, SendAppends
  <2>4. faults' = {} => out' \in {<<>>, <<m>>}
    BY <2>1, <2>3, AppendFirst, NotAnsweredYet
  <2>5. out' \in {<<>>, <<m>>} => ReplyPlaces'
    <3>1. RoutingResult' = RoutingResult
      BY <2>1 DEF RoutingResult
    <3>2. /\ cur'.type = "NEGATIVEACK" => m = Nack(cur'.value)
          /\ cur'.type = "ROUTINGACTIVATIONREQUEST" =>
               m = createRoutingActivationResponse(cur'.sa, RoutingResult')
      BY <2>1, <2>2, <3>1
    <3>3. QED
      BY <2>1, <3>2 DEF ReplyPlaces
  <2>6. NackValues'
    BY <2>1 DEF ReplyInv, NackValues
  <2>7. QED
    BY <2>4, <2>5, <2>6 DEF ReplyInv
<1>10. CASE NotifyApplication
  <2>1. PICK ack \in AppAcks, a \in RoutedReads :
          /\ sendMessage(createDiagnosticACK(ack, a, AckCode(ack)), RoutedFault)
          /\ rpc' = IF ack THEN "deliver" ELSE "loop"
    BY <1>10 DEF NotifyApplication
  <2>2. rpc = "react" /\ UNCHANGED <<cur, routedClientAddress>>
    BY <1>10 DEF NotifyApplication, sendUnchanged
  <2>3. /\ out' \in {out, Append(out, createDiagnosticACK(ack, a, AckCode(ack)))}
        /\ faults \cup RoutedFault \subseteq faults'
    BY <2>1, SendAppends
  <2>4. CASE ack = TRUE
    <3>1. AckCode(ack) = 0
      BY <2>4 DEF AckCode, ValidDiagnosticMessageCode
    <3>2. faults' = {} => routedClientAddress # Unset /\ a = routedClientAddress
      BY <2>1, <2>3 DEF RoutedFault, RoutedReads
    <3>3. faults' = {} =>
            out' \in {<<>>, <<createDiagnosticACK(TRUE, routedClientAddress, 0)>>}
      BY <2>2, <2>3, <2>4, <3>1, <3>2, AppendFirst, NotAnsweredYet
    <3>4. NackValues'
      BY <2>2 DEF ReplyInv, NackValues
    <3>5. rpc' = "deliver"
      BY <2>1, <2>4
    <3>6. faults' = {} => ReplyPlaces'
      BY <2>2, <3>2, <3>3, <3>5 DEF ReplyPlaces
    <3>7. QED
      BY <3>4, <3>6 DEF ReplyInv
  <2>5. CASE ack = FALSE
    BY <2>1, <2>2, <2>5, ReplyLeave
  <2>6. QED
    BY <2>4, <2>5, AppAcksAssumption
<1>11. CASE DeliverDiagnostic
  BY <1>11, ReplyLeave DEF DeliverDiagnostic
<1>12. CASE ReadUnsetAddress
  BY <1>12, ReplyFrame DEF ReadUnsetAddress, receiverVars, appVars
<1>13. CASE \E t \in Threads : closeSocket(t)
  BY <1>13, CloseSendsNothing, ReplyFrame
<1>14. CASE PollTimer \/ Second \/ aliveCheckTimeout \/ CallbackReturns
  BY <1>14, ReplyFrame DEF PollTimer, Second, aliveCheckTimeout, CallbackReturns,
     untimed, receiverVars, appVars, errorVars, MayEnd
<1>15. CASE UNCHANGED vars
  BY <1>15, ReplyFrame DEF vars, receiverVars, appVars, errorVars
<1>16. QED
  BY <1>1, <1>2, <1>3, <1>4, <1>5, <1>6, <1>7, <1>8, <1>9, <1>10, <1>11, <1>12,
     <1>13, <1>14, <1>15
     DEF Next, Environment, Receiver, Timer, Halted, Threads

-----------------------------------------------------------------------------
(* The refinement.  Every step before the timeout is a step of the session, *)
(* or leaves it as it is.                                                   *)

(* The process stays ended and faults are not forgotten. *)
LEMMA BrokenStays == ASSUME [Next]_vars, ~Broken' PROVE ~Broken
<1> USE DEF At, errorVars
<1>1. faults \subseteq faults' /\ (~dead \/ UNCHANGED dead)
  <2>1. CASE Environment \/ Halted \/ UNCHANGED vars
    BY <2>1 DEF Environment, ClientSends, ClientCompletes, ClientCloses,
       ReuseDescriptor, ReceiveStray, Halted, vars
  <2>2. CASE \/ sendNegativeAck \/ RespondToActivation
             \/ NotifyApplication \/ DeliverDiagnostic
    <3>1. PICK m, fs : sendMessage(m, fs)
      BY <2>2 DEF sendNegativeAck, RespondToActivation, NotifyApplication,
         DeliverDiagnostic
    <3>2. ~dead
      BY <2>2 DEF sendNegativeAck, RespondToActivation, NotifyApplication,
         DeliverDiagnostic
    <3>3. QED
      BY <3>1, <3>2, SendAppends
  <2>3. CASE \E t \in Threads : closeSocket(t)
    <3>1. ~dead
      BY <2>3 DEF closeSocket, CloseCheck, CloseShutdown, CloseAwait, CloseFree,
         CloseNull, CloseDescriptor, CloseZero, CloseGoto
    <3>2. QED
      BY <2>3, <3>1, CloseSendsNothing
  <2>4. CASE Receiver
    BY <2>2, <2>3, <2>4
       DEF Receiver, Threads, Setup, LoopTest, BeginRead, ReadPart, ReceiveHeader,
           ReceivePayload, ReceiveShort, ReceiveFatal, ReceiveFreed, AfterFatal,
           MessageReceived, CloseReturns, NackAnswered, RefuseRouting, ActivateRouting,
           DropDiagnostic, ReadUnsetAddress, IgnoreMessage, triggerDisconnection,
           DestroyCallbacks, DisarmTimer, JoinTimer, MayEnd, UseNullSsl
  <2>5. CASE PollTimer \/ Second \/ aliveCheckTimeout \/ CallbackReturns
    BY <2>5 DEF PollTimer, Second, aliveCheckTimeout, CallbackReturns, MayEnd
  <2>6. QED
    BY <2>1, <2>3, <2>4, <2>5 DEF Next, Timer, Threads
<1>2. QED
  BY <1>1 DEF Broken

(* A step that neither sends nor delivers, routes, refuses or closes. *)
LEMMA SessionStutter ==
  ASSUME UNCHANGED <<routedClientAddress, out, delivered, client_sock, refused, closeCalls>>,
         ~Broken, ~Broken'
  PROVE  UNCHANGED Session!sessionVars
<1>1. SessionPhase' = SessionPhase
  BY DEF SessionPhase
<1>2. Broken' = Broken
  BY DEF Broken
<1>3. QED
  BY <1>1, <1>2 DEF Session!sessionVars

(* A message is in hand only while the session is open. *)
LEMMA OpenInHand ==
  ASSUME AloneInv, RefusedInv, ~Broken, rpc \in ReadPlaces \cup MessagePlaces
  PROVE  /\ SessionPhase = "open"
         /\ closeCalls = 0 /\ client_sock = Fd /\ ~refused
<1>1. closeCalls = 0
  BY DEF AloneInv, AloneCalls, EndPlaces, ReadPlaces, MessagePlaces
<1>2. client_sock = Fd
  BY DEF AloneInv, AlonePlaces, Broken
<1>3. ~refused
  BY DEF RefusedInv, LeavingPlaces, ReadPlaces, MessagePlaces
<1>4. QED
  BY <1>1, <1>2, <1>3, FdAssumption DEF SessionPhase

(* what the session may answer *)
SessionReply(m) ==
  \/ Session!Malformed(m) \/ Session!Denied(m)
  \/ \E a \in Session!Testers : Session!Accepted(m, a)
  \/ Session!Confirmed(m) \/ Session!Rejected(m)

(* The answers are those of the session. *)
LEMMA AnswerStep ==
  ASSUME TypeOK, AloneInv, RefusedInv, ReplyInv, ~Broken, ~Broken',
         sendNegativeAck \/ RespondToActivation \/ NotifyApplication
  PROVE  Session!SessionNext \/ UNCHANGED Session!sessionVars
<1> USE DEF At
<1>1. UNCHANGED <<routedClientAddress, delivered, client_sock, refused, closeCalls>>
  BY DEF sendNegativeAck, RespondToActivation, NotifyApplication, sendUnchanged
<1>2. rpc = "react"
  BY DEF sendNegativeAck, RespondToActivation, NotifyApplication
<1>3. faults = {} /\ faults' = {}
  BY DEF Broken
<1>4. out = <<>>
  BY <1>2, <1>3 DEF ReplyInv, ReplyPlaces
<1>5. SessionPhase = "open"
  BY <1>2, OpenInHand DEF MessagePlaces
<1>6. SessionPhase' = SessionPhase /\ Broken' = Broken
  BY <1>1 DEF SessionPhase, Broken
<1>7. PICK m : out' \in {out, Append(out, m)} /\ SessionReply(m)
  <2>1. CASE sendNegativeAck
    <3>1. sendMessage(Nack(cur.value), {}) /\ cur.type = "NEGATIVEACK"
      BY <2>1 DEF sendNegativeAck, Nack
    <3>2. SessionReply(Nack(cur.value))
      BY <3>1 DEF ReplyInv, NackValues, Nack, Session!Malformed, SessionReply
    <3>3. QED
      BY <3>1, <3>2, SendAppends
  <2>2. CASE RespondToActivation
    <3>1. PICK m : /\ m = createRoutingActivationResponse(cur.sa, RoutingResult)
                   /\ out' \in {out, Append(out, m)}
      BY <2>2, SendAppends DEF RespondToActivation
    <3>2. \/ RoutingResult \in {0, 6}
          \/ RoutingResult = 16 /\ cur.sa \in Session!Testers
      BY DEF Session!Testers, RoutingResult, parseRoutingActivation, checkSourceAddress,
         UnknownSourceAddressCode, UnsupportedRoutingTypeCode, SuccessfullyRoutedCode
    <3>3. CASE RoutingResult \in {0, 6}
      <4>1. Session!Denied(m)
        BY <3>1, <3>3 DEF createRoutingActivationResponse, Session!Denied
      <4>2. QED
        BY <3>1, <4>1 DEF SessionReply
    <3>4. CASE RoutingResult = 16 /\ cur.sa \in Session!Testers
      <4>1. Session!Accepted(m, cur.sa)
        BY <3>1, <3>4 DEF createRoutingActivationResponse, Session!Accepted, Session!Reply
      <4>2. SessionReply(m)
        BY <3>4, <4>1 DEF SessionReply
      <4>3. QED
        BY ONLY <3>1, <4>2
    <3>5. QED
      BY <3>2, <3>3, <3>4
  <2>3. CASE NotifyApplication
    <3>1. PICK ack \in AppAcks, a \in RoutedReads :
            sendMessage(createDiagnosticACK(ack, a, AckCode(ack)), RoutedFault)
      BY <2>3 DEF NotifyApplication
    <3> DEFINE m == createDiagnosticACK(ack, a, AckCode(ack))
    <3>2. out' \in {out, Append(out, m)} /\ RoutedFault \subseteq faults'
      BY <3>1, SendAppends
    <3>3. routedClientAddress # Unset /\ a = routedClientAddress
      BY <1>3, <3>1, <3>2 DEF RoutedFault, RoutedReads
    <3>4. CASE ack = TRUE
      <4>1. Session!Confirmed(m)
        BY <3>3, <3>4 DEF createDiagnosticACK, AckCode, ValidDiagnosticMessageCode,
           Session!Confirmed, Session!Reply
      <4>2. QED
        BY <3>2, <4>1 DEF SessionReply
    <3>5. CASE ack = FALSE
      <4>1. Session!Rejected(m)
        BY <3>3, <3>5 DEF createDiagnosticACK, AckCode, UnknownTargetAddressCode,
           Session!Rejected, Session!Reply
      <4>2. QED
        BY <3>2, <4>1 DEF SessionReply
    <3>6. QED
      BY <3>4, <3>5, AppAcksAssumption
  <2>4. QED
    BY <2>1, <2>2, <2>3
<1>8. CASE out' = out
  BY <1>1, <1>8, SessionStutter
<1>9. CASE out' = Append(out, m)
  <2>1. out' = <<m>>
    BY <1>4, <1>9, AppendFirst
  <2>2. Len(out') = 1 /\ out'[1] = m
    BY <2>1
  <2>3. Session!Answer
    BY <1>1, <1>4, <1>5, <1>6, <1>7, <2>2 DEF SessionReply, Session!Answer
  <2>4. QED
    BY <2>3 DEF Session!SessionNext
<1>10. QED
  BY <1>7, <1>8, <1>9

(* Data reach the application as the session serves them. *)
LEMMA ServeStep ==
  ASSUME TypeOK, AloneInv, RefusedInv, ReplyInv, ~Broken, ~Broken', DeliverDiagnostic
  PROVE  Session!SessionNext
<1> USE DEF At
<1>1. UNCHANGED <<routedClientAddress, client_sock, refused, closeCalls>>
  BY DEF DeliverDiagnostic, sendUnchanged
<1>2. rpc = "deliver" /\ faults = {} /\ faults' = {}
  BY DEF DeliverDiagnostic, Broken
<1>3. SessionPhase = "open"
  BY <1>2, OpenInHand DEF MessagePlaces
<1>4. SessionPhase' = SessionPhase /\ Broken' = Broken
  BY <1>1 DEF SessionPhase, Broken
<1>5. /\ routedClientAddress # Unset
      /\ out \in {<<>>, <<createDiagnosticACK(TRUE, routedClientAddress, 0)>>}
  BY <1>2 DEF ReplyInv, ReplyPlaces
<1>6. out = <<>> \/ (Len(out) = 1 /\ Session!Confirmed(out[1]))
  BY <1>5 DEF createDiagnosticACK, Session!Confirmed, Session!Reply
<1>7. PICK a \in RoutedReads :
        /\ parseDiagnosticMessage(a, cur.sa, ToInt(cur.len)) = ValidDiagnosticMessageCode
        /\ sendMessage(createDiagnosticMessage(a), RoutedFault)
  BY DEF DeliverDiagnostic
<1>8. a = routedClientAddress /\ cur.sa = a
  BY <1>5, <1>7 DEF RoutedReads, parseDiagnosticMessage, ValidDiagnosticMessageCode,
     InvalidSourceAddressCode, UnknownTargetAddressCode
<1>9. out' \in {out, Append(out, Session!Reply("DIAGNOSTICMESSAGE", routedClientAddress, 0))}
  BY <1>7, <1>8, SendAppends DEF createDiagnosticMessage, Session!Reply
<1>10. delivered' = delivered \cup {routedClientAddress}
  BY <1>8 DEF DeliverDiagnostic
<1>11. Session!Serve
  BY <1>1, <1>3, <1>4, <1>5, <1>6, <1>9, <1>10 DEF Session!Serve
<1>12. QED
  BY <1>11 DEF Session!SessionNext

(* A request is refused only after it was answered with an error. *)
LEMMA RefuseStep ==
  ASSUME AloneInv, RefusedInv, ReplyInv, ~Broken, ~Broken', NackAnswered \/ RefuseRouting
  PROVE  Session!SessionNext \/ UNCHANGED Session!sessionVars
<1> USE DEF At
<1>1. UNCHANGED <<routedClientAddress, out, delivered, client_sock, closeCalls>>
  BY DEF NackAnswered, RefuseRouting, socketVars
<1>2. rpc = "answered" /\ faults = {}
  BY DEF NackAnswered, RefuseRouting, Broken
<1>3. SessionPhase = "open" /\ closeCalls = 0 /\ client_sock = Fd
  BY <1>2, OpenInHand DEF MessagePlaces
<1>4. CASE refused' = refused
  BY <1>1, <1>4, SessionStutter
<1>5. CASE refused' = TRUE
  <2>1. SessionPhase' = "refused" /\ Broken' = Broken
    BY <1>1, <1>3, <1>5, FdAssumption DEF SessionPhase, Broken
  <2>2. CASE NackAnswered /\ cur.value \in {0, 4}
    <3>1. out \in {<<>>, <<Nack(cur.value)>>}
      BY <1>2, <2>2 DEF NackAnswered, ReplyInv, ReplyPlaces
    <3>2. out = <<>> \/ (Session!Malformed(out[1]) /\ out[1].code # 1)
      BY <2>2, <3>1 DEF Nack, Session!Malformed
    <3>3. QED
      BY <1>1, <1>3, <2>1, <3>2 DEF Session!Refuse, Session!SessionNext
  <2>3. CASE RefuseRouting
    <3>1. /\ out \in {<<>>, <<createRoutingActivationResponse(cur.sa, RoutingResult)>>}
          /\ RoutingResult \in {0, 6}
      BY <1>2, <2>3 DEF RefuseRouting, ReplyInv, ReplyPlaces, UnknownSourceAddressCode,
         UnsupportedRoutingTypeCode
    <3>2. out = <<>> \/ Session!Denied(out[1])
      BY <3>1 DEF createRoutingActivationResponse, Session!Denied
    <3>3. QED
      BY <1>1, <1>3, <2>1, <3>2 DEF Session!Refuse, Session!SessionNext
  <2>4. CASE NackAnswered /\ cur.value \notin {0, 4}
    BY <1>1, <2>4, SessionStutter
       DEF NackAnswered, IncorrectPatternFormatCode, InvalidPayloadLengthCode
  <2>5. QED
    BY <2>2, <2>3, <2>4
<1>6. QED
  BY <1>4, <1>5 DEF NackAnswered, RefuseRouting

(* The tester whose activation was accepted becomes the one served. *)
LEMMA ActivateStep ==
  ASSUME AloneInv, RefusedInv, ReplyInv, ~Broken, ~Broken', ActivateRouting
  PROVE  Session!SessionNext
<1> USE DEF At
<1>1. UNCHANGED <<out, delivered, client_sock, refused, closeCalls>>
  BY DEF ActivateRouting, socketVars
<1>2. rpc = "answered" /\ faults = {}
  BY DEF ActivateRouting, Broken
<1>3. SessionPhase = "open"
  BY <1>2, OpenInHand DEF MessagePlaces
<1>4. SessionPhase' = SessionPhase /\ Broken' = Broken
  BY <1>1 DEF SessionPhase, Broken
<1>5. RoutingResult = 16 /\ routedClientAddress' = cur.sa
  BY DEF ActivateRouting, SuccessfullyRoutedCode
<1>6. cur.sa \in Session!Testers
  BY <1>5 DEF RoutingResult, parseRoutingActivation, checkSourceAddress,
     UnknownSourceAddressCode, UnsupportedRoutingTypeCode, Session!Testers
<1>7. out \in {<<>>, <<createRoutingActivationResponse(cur.sa, RoutingResult)>>}
  BY <1>2 DEF ActivateRouting, ReplyInv, ReplyPlaces
<1>8. out = <<>> \/ Session!Accepted(out[1], cur.sa)
  BY <1>5, <1>7 DEF createRoutingActivationResponse, Session!Accepted, Session!Reply
<1>9. Session!Activate(cur.sa)
  BY <1>1, <1>3, <1>4, <1>5, <1>8 DEF Session!Activate
<1>10. QED
  BY <1>6, <1>9 DEF Session!SessionNext

(* Closing the socket closes the session, the rest of closeSocket is not    *)
(* seen; the callback reports it.                                           *)
LEMMA CloseStep ==
  ASSUME TypeOK, AloneInv, ~Broken, ~Broken',
         (\E t \in Threads : closeSocket(t)) \/ triggerDisconnection
  PROVE  Session!SessionNext \/ UNCHANGED Session!sessionVars
<1> USE DEF At
<1>1. CASE triggerDisconnection
  <2>1. UNCHANGED <<routedClientAddress, out, delivered>> /\ closeCalls' = closeCalls + 1
    BY <1>1 DEF triggerDisconnection
  <2>2. client_sock = 0 /\ closeCalls = 0
    BY <1>1 DEF triggerDisconnection, AloneInv, AlonePlaces, AloneCalls, EndPlaces
  <2>3. SessionPhase = "closed" /\ SessionPhase' = "reported" /\ Broken' = Broken
    BY <2>1, <2>2 DEF SessionPhase, Broken
  <2>4. QED
    BY <2>1, <2>3 DEF Session!Report, Session!SessionNext
<1>2. ASSUME NEW t \in Threads, closeSocket(t)
      PROVE  Session!SessionNext \/ UNCHANGED Session!sessionVars
  <2>1. UNCHANGED <<routedClientAddress, out, delivered, refused, closeCalls>>
    BY <1>2, CloseSendsNothing
  <2>2. CASE client_sock' = client_sock
    BY <2>1, <2>2, SessionStutter
  <2>3. CASE client_sock' = 0 /\ client_sock # 0
    <3>1. rpc \notin EndPlaces
      BY <2>3 DEF AloneInv, AlonePlaces
    <3>2. closeCalls = 0
      BY <3>1 DEF AloneInv, AloneCalls
    <3>3. SessionPhase \in {"open", "refused"} /\ SessionPhase' = "closed"
      BY <2>1, <2>3, <3>2 DEF SessionPhase
    <3>4. Broken' = Broken
      BY DEF Broken
    <3>5. QED
      BY <2>1, <3>3, <3>4 DEF Session!Close, Session!SessionNext
  <2>4. QED
    BY <1>2, <2>2, <2>3
       DEF closeSocket, CloseCheck, CloseShutdown, CloseAwait, CloseFree, CloseNull,
           CloseDescriptor, CloseZero, socketVars
<1>3. QED
  BY <1>1, <1>2

(* Every step before the timeout is a step of the session. *)
LEMMA SessionStep ==
  ASSUME TypeOK, AloneInv, RefusedInv, ReplyInv, [Next]_vars
  PROVE  Session!SessionNext \/ UNCHANGED Session!sessionVars
<1>1. CASE Broken'
  BY <1>1 DEF Session!SessionNext, Session!Break
<1>2. CASE ~Broken'
  <2>1. ~Broken
    BY <1>2, BrokenStays
  <2> DEFINE seen == <<routedClientAddress, out, delivered, client_sock, refused, closeCalls>>
  <2>2. CASE UNCHANGED seen
    BY <1>2, <2>1, <2>2, SessionStutter
  <2>3. CASE LoopTest
    <3>1. UNCHANGED <<routedClientAddress, delivered, client_sock, refused, closeCalls>>
      BY <2>3 DEF LoopTest, socketVars
    <3>2. out' = <<>>
      BY <2>3 DEF LoopTest
    <3>3. SessionPhase' = SessionPhase /\ Broken' = Broken
      BY <1>2, <2>1, <3>1 DEF SessionPhase, Broken
    <3>4. QED
      BY <3>1, <3>2, <3>3 DEF Session!NextRequest, Session!SessionNext
  <2>4. CASE sendNegativeAck \/ RespondToActivation \/ NotifyApplication
    BY <1>2, <2>1, <2>4, AnswerStep
  <2>5. CASE DeliverDiagnostic
    BY <1>2, <2>1, <2>5, ServeStep
  <2>6. CASE NackAnswered \/ RefuseRouting
    BY <1>2, <2>1, <2>6, RefuseStep
  <2>7. CASE ActivateRouting
    BY <1>2, <2>1, <2>7, ActivateStep
  <2>8. CASE (\E t \in Threads : closeSocket(t)) \/ triggerDisconnection
    BY <1>2, <2>1, <2>8, CloseStep
  <2>9. CASE Environment \/ Halted \/ UNCHANGED vars
    BY <2>2, <2>9
       DEF Environment, ClientSends, ClientCompletes, ClientCloses, ReuseDescriptor,
           ReceiveStray, Halted, vars, socketVars, appVars
  <2>10. CASE \/ Setup \/ BeginRead("header", "inHeader")
              \/ BeginRead("payload", "inPayload") \/ ReadPart \/ ReceiveHeader
              \/ ReceivePayload \/ ReceiveShort \/ ReceiveFatal \/ ReceiveFreed
              \/ AfterFatal \/ MessageReceived \/ CloseReturns \/ DropDiagnostic
              \/ ReadUnsetAddress \/ IgnoreMessage \/ DestroyCallbacks
              \/ DisarmTimer \/ JoinTimer
    BY <2>2, <2>10
       DEF Setup, BeginRead, ReadPart, ReceiveHeader, ReceivePayload, ReceiveShort,
           ReceiveFatal, ReceiveFreed, AfterFatal, MessageReceived, CloseReturns,
           DropDiagnostic, ReadUnsetAddress, IgnoreMessage, DestroyCallbacks,
           DisarmTimer, JoinTimer, socketVars, appVars
  <2>11. CASE PollTimer \/ Second
    BY <2>2, <2>11 DEF PollTimer, Second, untimed, socketVars, appVars
  <2>12. CASE aliveCheckTimeout \/ CallbackReturns
    BY <2>12 DEF aliveCheckTimeout, CallbackReturns, TimerGoto, AloneInv, AlonePlaces
  <2>13. QED
    BY <2>3, <2>4, <2>5, <2>6, <2>7, <2>8, <2>9, <2>10, <2>11, <2>12
       DEF Next, Receiver, Timer, Threads
<1>3. QED
  BY <1>1, <1>2

(* What the refinement rests on, along every behaviour. *)
LEMMA SessionInvariants == Spec => [](TypeOK /\ RefusedInv /\ ReplyInv)
<1>1. Init => RefusedInv
  BY DEF Init, RefusedInv
<1>2. Init => ReplyInv
  BY DEF Init, NoMessage, ReplyInv, NackValues, ReplyPlaces, ReadPlaces
<1>3. QED
  BY <1>1, <1>2, TypeCorrect, RefusedNext, ReplyNext, PTL DEF Spec

(* For every inactivity time: until the timer fires each step of the        *)
(* connection is a step of the abstract session or is not seen by it.       *)
THEOREM SessionUntilTimeout ==
  Spec => Session!SessionInit
          /\ [][timeout \/ Session!SessionNext]_(Session!sessionVars)
<1>1. Init => Session!SessionInit
  BY FdAssumption DEF Init, Session!SessionInit, SessionPhase, Broken
<1>2. /\ TypeOK /\ RefusedInv /\ ReplyInv /\ (timeout \/ AloneInv)
      /\ [Next]_vars
      => [timeout \/ Session!SessionNext]_(Session!sessionVars)
  BY SessionStep
<1>3. QED
  BY <1>1, <1>2, SessionInvariants, AloneInvariant, PTL DEF Spec

(* A connection whose timer is disabled implements the abstract session:    *)
(* each request is answered at most once before its effect, only the tester *)
(* whose activation was accepted is served and only data that were          *)
(* confirmed are, and only a closed connection is reported.                 *)
THEOREM SessionCorrect == ASSUME InactivityTimes = {0} PROVE Spec => ImplementsSession
<1>1. TimerOff /\ [timeout \/ Session!SessionNext]_(Session!sessionVars)
      => [Session!SessionNext]_(Session!sessionVars)
  BY DEF TimerOff
<1>2. QED
  BY <1>1, SessionUntilTimeout, TimerOffInvariant, PTL
     DEF ImplementsSession, Session!SessionSpec
=============================================================================
