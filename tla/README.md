# A TLA+ model of libdoip

libdoip implements DoIP (diagnostics over IP, ISO 13400): a server library
(`libdoipserver`), a client library (`libdoipclient`) and the code they share
(`libdoipcommon`). This directory holds TLA+ models of it, the TLC instances
that check them and the proofs that TLAPS checks.

## The system

| Part | State | Operations | Hard behaviour |
|---|---|---|---|
| Generic header (`DoIPGenericHeaderHandler.cpp`) | none | `parseGenericHeader`, `createGenericHeader` | order of early returns, uninitialised results, boundaries of lengths |
| Routing activation (`RoutingActivationHandler.cpp`) | none | `parseRoutingActivation`, `checkSourceAddress`, `createRoutingActivationResponse` | |
| Diagnostic messages (`DiagnosticMessageHandler.cpp`) | none | `parseDiagnosticMessage`, `createDiagnosticACK`, `createDiagnosticMessage` | a 32 bit length passed as `int` |
| Alive check timer (`AliveCheckTimer.cpp`) | flags, start time, threads | `startTimer`, `resetTimer`, `waitForResponse`, destructor | a thread that polls shared flags without a lock; check-then-act |
| Connection (`DoIPConnection.cpp`) | `client_sock`, `ssl`, `routedClientAddress`, timer, callbacks | receive loop, reactions, `closeSocket`, `aliveCheckTimeout`, sending | two threads in `closeSocket`, blocking reads and shutdowns, descriptor reuse, client resets |
| Serving thread (`handleClient`, `exampleDoIPServer.cpp`) | `connections_counter` | callbacks, loop, `triggerDisconnection`, destruction | callbacks from two threads |
| Server (`DoIPServer.cpp`) | three listening sockets, `serverAddress`, `clientAddress`, vehicle data | setup, accept, UDP, announcements | three threads share the addresses; handshake failures |
| Vehicle identification (`VehicleIdentificationHandler.cpp`) | none | `createVehicleIdentificationResponse` | its layout must agree with the client's `parseVIResponseInformation` |
| Client (`DoIPClient.cpp`) | two sockets, one receive buffer and one server address for both, the counter of empty reads | start, send, receive, reconnect | cut and coalesced reads, stale bytes, reconnect without activation |

A listener accepts a socket (and completes the TLS handshake), makes a
`DoIPConnection` and hands it to a detached thread running `handleClient`. That
thread sets the callbacks and the inactivity time, then calls
`receiveTcpOrTlsMessage` while the socket is active; the method reads a header
and its payload, resets the timer and calls `reactOnReceivedTcpMessage`, which
answers and may call `closeSocket`. The first accepted routing activation starts
the timer thread. When the time has passed, that thread calls
`aliveCheckTimeout`, hence `closeSocket` and the close callback, while the
receiver may be anywhere. When the loop ends the receiver calls
`triggerDisconnection` and destroys the connection; the timer's destructor joins
the timer thread. Nothing is protected by a lock.

What makes the parts correct:

* header: handlers never read past a payload; created headers are understood;
* connection: only its own socket and SSL object are used, both are released
  before the loop ends, the end is reported once, refused clients are not
  served, user data comes only from activated addresses, a client that leaves
  frees the thread, a silent client is disconnected;
* timer: at most one thread, only for routed clients, gone before the object is;
* server: both stream ports are served, each listener is on its own port, the
  server does not quarrel with itself, one client cannot stop a listener;
* client: its requests suit the server, it reports the acknowledges it gets, it
  finds back to the server whenever a connection ends, and it shows a vehicle's
  data as they were configured.

## Modules

| Module | Models |
|---|---|
| `DoIPGenericHeader` | the header as eight bytes; `parseGenericHeader` and `createGenericHeader` return *sets* of results, because fields the code does not initialise may hold anything (`Garbage`) |
| `RoutingActivationHandler`, `DiagnosticMessageHandler` | the handlers as operators |
| `AliveCheckTimer` | the timer's variables and one action per step of its methods |
| `DoIPConnection` | composes all of the above with the receiver thread, the client and the descriptor table |
| `DoIPSession` | what a connection promises: the dialogue with one tester, without sockets, threads or buffers; `DoIPConnection` implements it |
| `DoIPServer` | the three listeners and `main`, with the addresses and the UDP socket they share; uses the header's parser |
| `VehicleIdentification` | the setters of the vehicle data, the identification response byte by byte, and the client's decoder |
| `HeaderExchange` | one end creates a header, or a foreign peer sends one, and the other end parses it; a tester's buffer takes the responses of several vehicles and whatever else the sockets deliver |
| `DoIPClient` | the client library on a byte stream, with a server made of the modelled handlers |
| `MCGenericHeader`, `MCDoIPConnection`, `MCDoIPServer`, `MCDoIPClient` | instances for TLC |
| `DoIPGenericHeaderProofs`, `VehicleIdentificationProofs`, `HeaderExchangeProofs`, `DoIPConnectionProofs`, `DoIPConnectionSafety`, `DoIPSessionProofs`, `DoIPServerProofs`, `DoIPClientProofs` | theorems |

### The header

`HeaderActions` keeps the order of the early returns of `parseGenericHeader`. Two
cases of its length switch `break` instead of returning, so the negative
acknowledge they set is overwritten (`ReturnsOnBadLength`) and a diagnostic
acknowledge that is too short is reported as valid. `createGenericHeader`
leaves the payload type unwritten for the two requests.

`HeaderExchange` runs these operators against each other: `Create` or `Foreign`, then
`Parse`, with the uninitialised bytes chosen anew each time. Its other half is the
tester of `VehicleIdentification`, whose one buffer is overwritten by whole responses,
by cut ones, by other datagrams (`OtherDatagrams`: any bytes of any size, also fewer than
a header) and by the TCP data of `receiveMessage` (`TcpData`). Two history variables say
what the tester should show: `heard` is the vehicle, and `intact` that the bytes behind
the header of its response have not been overwritten. The promise ends (`heard` is
emptied) where the code really shows mixed bytes: when the response is no longer intact
and a datagram arrives that may pass for one (`MayPassForResponse`), because it has a
response's header or because it is shorter than a header and the parser's result is
uninitialised.

### The connection

`rpc` is the receiver's place, `tpc` the timer thread's, and `cpc[t]` the place of
thread `t` in `closeSocket`, which is split at every use of a shared member:
check, first `SSL_shutdown`, second `SSL_shutdown`, `SSL_free`, `ssl = nullptr`,
`close`, `client_sock = 0`. The check of `client_sock` and the test of `ssl` that
follows it are one step: a change of either between them leads to a state that
a later check reaches as well.

* `owner` says what the descriptors 0 and `Fd` refer to: the process's standard
  input, this connection, an object of somebody else, or nothing.
  `ReuseDescriptor` lets any other part of the process open the lowest free
  number, as `accept` does.
* `session` is the SSL object: usable, failed fatally, or freed. Using it after
  `SSL_free` is undefined: the process ends or goes on (`MayEnd`), and `faults`
  records it. `dead` means the process ended.
* `stream` is what the client has sent. A message has arrived whole, up to
  its header, or with fewer bytes than a header; the rest may follow
  (`ClientCompletes`). A read may return fewer bytes than were asked for
  (`ReadPart`): the loop of `receiveFixedNumberOfBytesFromTcpOrTls` then picks the
  SSL object or the descriptor again, which the timer thread may have closed
  meanwhile. `rd` is the object a read works on from the moment it enters the
  kernel. A read that is blocked keeps its socket, so closing the descriptor in
  another thread does not wake it; `recv` on descriptor 0 fails because it is not
  a socket. `SSL_read` takes an `int`: a longer payload fails at once (`TooLong`).
* `handle_SSL_read_error`'s default branch needs a non-blocking socket and cannot
  occur. Its result -1 becomes the largest `unsigned int`, which `AfterFatal`
  compares with the declared length as the code does.
* A write after the client's reset fails or raises `SIGPIPE`, which nothing
  ignores, so the process may end.
* `routedClientAddress` is a pointer nobody initialises: reading it before an
  activation ends the process or gives any address.
* `close_connection` is counted in `closeCalls`. Members are destroyed in reverse
  order: callbacks, then the timer, whose destructor disarms and joins.
* `sendMessage` and a read test `ssl` and then use it. In between the timer thread may
  have set it to null (`SslNulled`), and the use ends the process (`UseNullSsl`).
* `stray` records operations on descriptors that are not the connection's
  (`ForeignOperations`) and `SSL_shutdown` on a session that failed.
* `elapsed` is what `clock()` shows, the CPU time of the process: every busy thread
  adds to it, so a second may count up to `MaxLoad` times. `silent` is the time that
  really passed since the last message, and `longest` the longest such silence so far.

`ImplementsSession` maps the connection to `DoIPSession`: the phase from
`client_sock`, `refused` and `closeCalls`, the route from `routedClientAddress`, the
replies from `out`; a process that ended or met undefined behaviour is `broken`
and promises nothing. What the abstract specification adds to the single
invariants is the order: a reply before its effect, one reply per request, data
to the application only after they were confirmed, and the report after the close.
`ImplementsSession` is the session's initial state and steps; that a closed connection
is reported at last is a property of its own, `ClosedIsReported`.

The application is the one of the example server: it acknowledges in
`notify_application` and answers user data with `sendDiagnosticPayload`.
`AppAcks` also lets it refuse. It acknowledges before the message is checked, so a
message with a wrong source address is acknowledged and then dropped. `TlsModes`
says how the connection was accepted.

### The server

`lpc[l]` is the place of listener `l`, `mpc` that of `main`. `serverAddress` and
`clientAddress` are shared, and each write of a field and each use is a step of its
own. The address part of `serverAddress` is always `INADDR_ANY`, so only its port
is kept.

* `bound[l]` is the port a socket really has. `bind` on a stream socket fails if
  the other listener has the port. An exception in a listener ends the process
  (`Throws`): the TLS context and its certificates (`ContextThrows`), `socket`, `bind`
  and `listen` (`SetupThrows`), `accept` (`AcceptThrows`), the handshake
  (`HandshakeThrows`). `setupUdpSocket` ignores failures.
* The UDP socket is not there at first; the announcement then fails at
  `setsockopt` and is not sent. If the socket exists but is not bound yet, sending
  binds it to a port of the kernel's choice (`AnyPort`).
* A datagram sent to the port of the UDP socket comes back to it, as the answers
  to `INADDR_ANY` do. `asker` and `answers` record on whose behalf an answer was
  sent and where to: to the server's own address, against the comment in
  `sendUdpMessage` (DoIPServer.cpp:219). A broadcast sent from one's own host is
  delivered here too.
* `recvfrom` on a failed socket returns -1, which the parser treats like a
  message without a header: every field of its result is uninitialised.
* A served connection is handed to `DoIPConnection`'s threads and not followed here.

### The client

No program of the repository uses `DoIPClient`, so the application is any that
calls its methods one at a time, sends and receives only on a started connection
and asks for an activation before its first diagnostic message.

* `down` is the byte stream from the server, built with the modelled
  `createGenericHeader`; `ReceiveData` takes a prefix of it, as `recv` does, and runs
  the modelled `parseGenericHeader` on the buffer. The client takes the read for
  one message: what follows is lost, and after a cut read the next begins in the
  middle of a message. The code of an acknowledge is read from byte 12 of the
  buffer, whether or not the read has filled it; only those 13 bytes of the buffer
  are kept. The stream's bytes carry marks (`first`, `ack`) that only the properties
  read.
* `link` is the kernel's view of the connection. After a reset `recv` returns -1
  once and then 0, after an orderly end always 0. A write after the end is lost, a
  second one may raise `SIGPIPE`. Without a socket `recv` returns -1 for ever.
* The server (`ServerReacts`) judges the request's bytes with the operators of the
  header, routing and diagnostic modules. `objections` records every request it
  refuses or drops: why, the request's payload type, and whether the connection was
  made by `reconnectServer`. It may end a connection at any time (timeout) or go down
  and come back.
* `_serverAddr` and `_receivedData` are shared by the TCP and the UDP methods; the
  results of UDP decoding are in `VehicleIdentification`.
* `sourceAddress` only reaches the alive check response, which the server answers
  with a negative acknowledge because its parser does not know that type: an objection
  of its own ("unknown type"), which `TesterServed` excepts by name. The other
  requests carry 0x0E00 whatever was set.

## Runs

| Run | Shows |
|---|---|
| `header` | `HandlersReadInBounds`, `CreatedIsUnderstood`: every known code and its neighbours, boundary lengths, cut headers. `VehicleInfoUnderstood`: a tester's buffer takes the responses of several vehicles, some cut, other datagrams with a payload, as bare headers or shorter, and TCP data; after a whole response it shows that vehicle's data, until a datagram comes that may pass for a response while the last one is no longer whole in the buffer |
| `conn` | TCP and TLS, without a timer: the connection is sequential. It uses only its own descriptor and SSL object (`OnlyOwnObjects`), reports its end exactly once (`CloseCallbackOnce`), ends when the client leaves (`ClientGoneReleases`), implements the abstract dialogue (`ImplementsSession`), and reports a closed connection at last (`ClosedIsReported`) |
| `conn_timer` | TCP and TLS with a timer: what survives the interleavings (`DescriptorReleased`, `TimerThreadJoined`, `TimeoutOnlyIfRouted`, `RefusedNotServed`, `ClientGoneReleases`); on TCP a timeout closes the descriptor (`TimeoutClosesPlainDescriptor`); and with a process clock that may run twice as fast a client that never pauses for half of the inactivity time is not timed out (`TimeoutNeedsSilence`) |
| `server` | whatever the order of the threads: a server that came up holds both stream ports, perhaps exchanged (`PortsServed`), never refuses its own responses (`OwnResponseNotRefused`), and a stalled TLS handshake does not stop the TCP listener (`TcpClientsServed`) |
| `client` | the requests suit the server except the alive check response, whose type it does not know, and diagnostic messages on a connection that the client made by itself, where the routing is not activated (`TesterServed`); a read that begins with a whole message is reported rightly (`AcksReported`); an automatic reconnect goes to the loopback address whatever UDP did (`DialsLoopback`); every end of a connection leads to a new one (`ReconnectsEventually`) |

The other runs each refute one statement of a comment, of the developer
documentation or of a test script; PROJECT.json quotes it and names the line:

| Run | What the code does |
|---|---|
| `close_callback` | after a timeout the close callback runs twice |
| `close_stray` | a close hits descriptor 0 or a descriptor opened meanwhile |
| `timeout_end` | a silent TLS client is timed out: the timer thread waits for it in the second `SSL_shutdown` before the close, and the receiver stays blocked in its read (with `TlsModes = {FALSE}` the descriptor is closed and the receiver stays in `recv`) |
| `tls_length` | a message is processed though its payload was not received: the -1 of a failed TLS read equals the declared length |
| `tls_shutdown` | an answer's `SSL_write` fails fatally, and `SSL_shutdown` follows |
| `early_timeout` | another busy thread makes the timeout come before the inactivity time has passed (with `MaxLoad = 1` the same property falls to a message between the timer's comparison and the timeout, which does not stop it) |
| `ports` | the server is up with UDP on 4433; the same race puts TCP on 4433 and TLS on 13400, and an early announcement puts UDP on a port of the kernel's choice |

### Bounds

* `MaxRequests = 2`: activating and then using the route, activating twice, being
  refused and going on, and leaving in the middle of the second message all need
  two messages; no part of the state counts beyond that (at most one timer
  starts, an address is replaced as a whole).
* `Requests`: one or more for each result of the parser and of each handler, with
  lengths at, below and above each limit.
* `IntMax = 15` shrinks `int` so that a length above it (16) and the largest
  unsigned length (31) are inputs.
* `Parts`: a message may arrive in two parts, cut inside the header or behind it.
* Inactivity times 0 (disabled) in `conn`, and 3 in `conn_timer` and `early_timeout`,
  with `MaxLoad = 2`: one more thread of the process may be busy, and the doubled clock
  reaches three seconds after two and not after one. With two requests a message can
  fall on either side of each second. The runs that do not depend on the time use 1.
  `SilenceCorrect` is for any inactivity time and load. `Fd = 3`.
* Server: two clients (one stalls in its handshake while another waits), one
  datagram of a tester, one announcement and a queue of two: the tester's and the
  server's own datagrams can wait together, in either order, and a full queue
  drops. The theorems about the server need no bound.
* Client: two requests (an activation and a diagnostic message, before or after the
  connection was lost), two ends of a connection (the counter must work a second
  time), reads that take everything or 12 bytes, which separates an acknowledge from
  its code and makes the next read too short or shifted.
* Headers: the top length byte is below 128, since TLC's integers end at
  2^31 - 1; the theorems cover all 32 bit lengths. Three
  vehicles answer a tester, with a VIN shorter than, as long as and longer than 17
  characters; the theorem is for any set of vehicles.

### Fairness

Weak fairness of the receiver, of the timer thread and of the clock: the
scheduler runs both threads, and a polling timer thread consumes the CPU time
that `clock()` measures. Nothing is assumed of the client (it may stay silent for
ever) nor of data arriving on a descriptor that became somebody else's. For the
server: weak fairness of each of the four threads, since the scheduler runs them,
and none for the end of a handshake, which is the client's. The halting step
`Halted` stands for the ended thread or process. For the client: the application
keeps calling `receiveMessage` (the client has no thread of its own, so it notices
nothing otherwise), the loop of `startTcpConnection` goes on, and a server that went
down is started again. `client` does not check for deadlock: a client that was killed
stops.

## Proofs

Checked by TLAPS for every value of the constants that satisfies the named
assumptions: requests are records with a length that fits an unsigned int, the
accepted descriptor is not 0, the uninitialised values are natural numbers, headers
are eight bytes, and bounds are natural numbers. Every invariant and every action
property of the passing runs is a theorem here.

### Header and vehicle identification

* `AcceptedLengthCoversReads`, `CreatedHeaderDecodes`: the parser and the creator, for
  any length.
* `ReadsCorrect` (`HandlersReadInBounds`) and `CreatedCorrect` (`CreatedIsUnderstood`)
  carry them over to the exchange. `HeaderInv` remembers where the bytes under way come
  from (a peer's header, or `createGenericHeader` of the recorded type and length) and
  that the action is one the parser gives for them. `TablesAgree` compares the two
  tables of codes.
* `VehicleInfoDecodes`: for every vehicle and every content of the client's buffer,
  receiving the response yields `Identity` and leaves it in the buffer; from a lemma that the response's header is
  accepted as what it is, one that the VIN is cut or padded, and the two layouts.
* `VehicleCorrect` (`VehicleInfoUnderstood`) makes an invariant of it for any sequence of
  whole, cut and other datagrams and TCP data of any content and size. `TesterInv` adds
  that while `intact` the buffer still decodes to the vehicle heard. `OtherIgnored` shows
  that what cannot pass for a response leaves the results alone, `OverwritesKeeps` and
  `DataKept` that a header or less leaves the data behind it.

### Connection

* `TypeCorrect`: `Spec => []TypeOK`, one lemma per group of actions.
* `ReleaseCorrect`: `DescriptorReleased` is not inductive, because a thread
  inside `closeSocket` may have done part of the work. `ReleaseInv` adds what each
  place of `closeSocket` implies for *either* thread: past `SSL_free` the session
  is gone, past `ssl = nullptr` the pointer is null, past `close` the descriptor
  is not this connection's; and that a plain read is only entered when `ssl` is
  null, so that no fatal read error revives a freed session.
* `TimerThreadCorrect`, `TimeoutCorrect`: `TimerInv` relates `active`, the number
  of threads and the thread's place: an inactive timer has no thread.
* `DeliveryCorrect`: `RoutingInv` keeps the routed address among the activated.
* `SilenceCorrect`: `SilenceInv` bounds `elapsed` by `silent * MaxLoad` and `silent` by
  `longest`, which every tick and every reset before the timeout preserves, and says that a timer past its
  comparison has had a silence long enough. That silence, not the last one, is what the
  theorem is about: a reset between the comparison and the timeout does not stop the
  timeout. That the whole inactivity time has passed does not hold (run `early_timeout`).
* `RefusalCorrect`: `RefusedInv` says that after a refusal the receiver is
  leaving, and that `closeSocket` returns only with `client_sock = 0`; hence the
  loop never reads again. The action property follows because only the places
  `react` and `deliver` send.
* `AloneUntilTimeout`: for any inactivity time, `OnlyOwnObjects` and `CloseCallbackOnce`
  hold until the timer fires. `AloneInv` says what the receiver's places imply while
  the timer thread is outside its callback: where the receiver reads, the socket is
  open; inside `closeSocket` the members still refer to the connection's own objects
  up to the step that gives them up; and `close_connection` has been called once
  exactly in the places behind the loop. The timer's *polling* thread does not
  disturb it, its callback does: the `close_stray` and `close_callback` runs start there.
* `OwnObjectsCorrect`, `CloseCallbackCorrect`: with the timer disabled
  (`InactivityTimes = {0}`, what `setGeneralInactivityTime(0)` does, and the instance
  of the run `conn`) `TimerOff` is invariant, so they hold always. Neither excludes
  `SSL_shutdown` on the connection's own session after a failed write: the run
  `tls_shutdown` reaches it.
* `SessionUntilTimeout`, `SessionCorrect` (`ImplementsSession`): the refinement, step
  by step. `ReplyInv` says what has been sent for the message in hand at each place;
  with it, `AnswerStep`, `ServeStep`, `RefuseStep`, `ActivateStep` and `CloseStep` map
  the visible steps to the session's actions, and `SessionStutter` covers the rest. Both
  versions are proved: until the timeout for any inactivity time, and always when the
  timer is disabled.

### Server

* `ServerTypeCorrect`: `TypeOK` is not inductive. That a bound stream socket has one of
  the two ports needs `PortInv`; that a port's queue stays within `MaxClients` needs
  that no more clients wait than have asked (`StreamType`).
* `PortsCorrect`: `PortInv` adds what `bind` reads: a listener about to bind finds
  one of the two ports in `serverAddress`, whoever wrote it, and a bound stream
  socket has a port of its own. That it is the *listener's* port does not hold (run
  `ports`). No bound on clients or datagrams is used.
* `OwnResponseCorrect`: `OwnInv` says that what waits in the UDP socket in the
  server's own name is an identification response, which the parser recognises
  (lemma `OwnResponseIgnored`), and that no refusal is in the making for one.

### Client

* `DialCorrect`: `DialInv` adds that the shared address is the loopback one while
  `startTcpConnection` is in its loop; the UDP methods only run outside it.
* `ClientTypeCorrect`, `TesterServedCorrect`, `AcksReportedCorrect` share the invariant
  `ClientInv`. Besides the kinds of the variables it has two parts. `RequestInv`: what is
  under way to the server are the client's own requests, and a diagnostic message
  is only sent where the routing is active or a request for it comes *earlier in the
  stream* (`Activated`), unless the client made the connection by itself. `StreamInv`:
  what is under way to the client is cut only at its front, so every byte marked as
  the beginning of a message still has that message's header, and an acknowledge
  its code, behind it.
* The lemmas below it follow the bytes: what `Wire` lays out is what the parser reads;
  two addresses written are two addresses read; the server grants an activation, serves
  a diagnostic message from the activated address, and notes an alive check response as
  unknown, which with `TesterServed` itself is inductive (`ServedStep`);
  appending a message to a stream and taking a prefix from it keep it a stream; and a
  read of a whole message fills the buffer with its first 13 bytes, whatever was
  there before. No bound on requests, ends or the sizes of reads is used.

### Only model-checked

The liveness properties: `ClientGoneReleases`, `ClosedIsReported`,
`TimeoutClosesPlainDescriptor`, `TcpClientsServed` and `ReconnectsEventually`. Fairness and
ENABLED are outside the prover's reach, as are induction over data and RECURSIVE
operators; no module uses one of the latter two.

## Not modelled, and the plan

Next: several connections in one model, with the descriptor table they share and
`connections_counter`, composed with the server's listeners.

Left out for good: the server's `close*Socket` methods (no program calls them),
`setEIDdefault` (it copies a hardware address the kernel reports), the client's
printing, the TLS example programs, the Scapy script, certificates and
captures (not part of the library), and memory use (payloads and messages are
never freed; their contents are abstracted).
