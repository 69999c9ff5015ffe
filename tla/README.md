# A TLA+ model of librertc-core

librertc-core tunnels TCP connections through the media or data channels of a
video conference. A client offers a SOCKS5 port; every accepted connection
becomes a smux stream; the smux session runs over an encrypted connection
(`muxconn`), over a transport (`datachannel`, `vp8channel`, `seichannel`,
`videochannel`), over a provider (`telemost`, `jazz`, `wbstream`). The server
sits in the same conference, accepts the streams and dials the targets.

This directory holds TLA+ modules of the parts whose order of events matters,
the TLC instances that check them, and proofs of their main invariants for any
value of the constants. Everything is translated from the sources; line numbers
are in `PROJECT.json` (`map`).

## 1. Inventory

| component | state | operations | what makes it correct |
|---|---|---|---|
| seichannel / videochannel ARQ (`internal/transport/{sei,video}channel/transport.go`) | sequence number, waiters for acknowledgements, two bounded queues, partial messages, `delivered` | `Connect`, `Send`, `Close`, `writerLoop`, track readers, `handleInboundFrame`, `resolveAck` | an acknowledged message was delivered; delivery in order and at most once; nobody waits for ever on a full queue |
| vp8channel (`internal/transport/vp8channel`) | local and peer epoch, first-peer flags, current KCP runtime | `Connect`, `Send`, `Close`, track readers, `handleFirstPeer`, `resetKCP`, provider callback | one reset per cause, no reset loop, a runtime always comes back, KCP stays reliable across resets |
| server (`internal/server/server.go`) | smux session and conn under `sessMu`, `reinstallMu`, wait group | `Run`, `serve`, `handleReconnect`, `reinstallSession`, `closeSession`, `shutdown`, handlers | no session abandoned open, one reinstall per death, `serve` recovers, `Run` returns |
| client (`internal/client/client.go`) | smux session, conn | `RunWithReady`, `handleReconnect`, `onData`, `handleSocks5`, `tunnel`, `shutdown` | an open session is fed, a reconnect leaves a usable session |
| SOCKS5 tunnel (`client.go`, `server.go`) | per connection: a stream, a dialled connection, two copies at each side | `handleSocks5`, `tunnel`, `handleStream`, `dispatch`, `socks5Connect` | success means the target was reached; both directions are unaltered; handlers end |
| mobile binding (`mobile/mobile.go`) | package variables `cancel`, `done`, `ready`, `errRun`; a client per probe | `Start*`, `WaitReady`, `Stop`, `IsRunning`, `Check`, `Ping` | one client at a time, `Stop` waits for the end, answers are true, a probe leaves nothing behind |
| telemost peer (`internal/provider/telemost/peer.go`) | connections of the session, close channels, `reconnectCh`, `reconnecting`, `closed`, send queue | `Connect`, `Send`, `Close`, `WatchConnection`, `reconnect`, signaling reader, keepalive, 4 send workers | every failure leads to a reconnect, no needless reconnects, `Close` ends everything, order of messages |
| jazz, wbstream peers (`provider/{jazz,wbstream}/peer.go`) | websocket or room, data channel, send queue with one worker, `closed` | `Connect`, `Send`, `CanSend`, `Close`, `WatchConnection` | order of messages, errors have a cause, `Close` ends everything |
| muxconn (`internal/muxconn/conn.go`) | byte buffer, `closed` | `Push`, `Read`, `Write`, `Close` | the stream of bytes is kept, no lost wake-up, `Close` unblocks everybody |
| vp8channel frame assembly (`vp8channel/transport.go`) | last sequence number, frame under way | `processRTPPacket` | a frame is handed on whole or not at all |
| datachannel, direct link, carrier and provider registries | none after start-up | pass-through | - |
| frame codecs (SEI, QR/tile, protobuf packets), configuration checks | none | pure functions | decoding inverts encoding; malformed input is refused |

How they interact: the provider's goroutines call the transport's track handler,
its reconnect callback and its ended callback; the transport calls `OnData` from
its readers and the reconnect callback from its own resets; `OnData` pushes into
the conn under the current smux session; smux writes through the conn, which
polls `CanSend` and calls `Send`; the ended callback cancels the context of
`Run`/`RunWithReady`, which closes the session, the link and the provider.

Hard behaviours: callbacks from several goroutines at once (provider and track
reader over vp8channel), reconnects that cross each other, cancellation that
crosses a reconnect, retransmission and restart of one of the two processes,
bounded queues between goroutines that answer each other, and shared variables
read after their lock was released. `PROJECT.json` lists them line by line under
`hazards`.


## 2. Modules and how they correspond to the code

Every module is one component; an action is one stretch of code between two
points where another goroutine can interfere (a lock, a channel operation, a
callback, a network operation), and stands for all the state that stretch
changes.

**OrderedDelivery** is the abstract specification of one direction of a
transport whose `Features()` say `Reliable` and `Ordered`: messages 1, 2, .. are
submitted one at a time, received at most once and in order, and a `Send` that
succeeds was received.

**ArqTransport** (`seichannel/transport.go`, and videochannel's copy of it).
`StartSend`, `QueueFragment`, `ReceiveAck`, `AckTimeout` and `SendClosed` are
`Send`; `WriterStep` is `nextOutboundFrame` with the write; `ReadAck` and the
rest of `ReaderStep` are the goroutine of a remote track: `handleInboundFrame`,
`OnData`, `enqueueFrame`. `outbound`, `outAck`, `waiter`, `inbound`, `delivered`
are the fields of those names; `accepted` and `handed` are history. The carrier
is a bounded sequence of frames per track that may lose (also a write into a
full network is a loss) or damage them; it does not reorder within a track, as
RTP does not once reassembled. A CRC is the number of its message. A peer may
restart (empty state, numbers from 1) and renegotiate its track, after which two
readers run. The batch size and the tick of the writer are left out.

**ServerSession** (`server.go`). One goroutine runs `Run` and `serve`; callers of
`handleReconnect` are threads of their own; the watcher is the goroutine that
closes the session when the context ends. `session` is `s.session` and `s.conn`,
which are written together under `sessMu`; `holder` is `reinstallMu`. The
closing of the old session and the installation of the new one are two steps,
as in `reinstallSession`. smux is external: `AcceptStream` returns a stream, or
an error once its session is closed or broken. One handler per session stands
for all of them; those of the sessions in `Held` may never end, since a handler
does not look at its context and may wait for a proxy or in a write to a target
that takes nothing.

**ClientSession** (`client.go`). `handleReconnect` takes no lock for its whole
length, so `Clear`, `NewConn`, `NewSession` and `Store` are separate steps, and
`conn` is apart from `session`. `crashed` is the nil dereference of smux over a
nil conn. A request takes the session, opens a stream, and tunnels.

**MobileRuntime** (`mobile.go`). The package variables hold the number of the
run they belong to; `EndRun` and `CloseDone` are two steps because
`close(done)` comes after `mu` is released. `panicked` is the second close of a
channel. Validation and defaults of the arguments are left out.

**Vp8Epoch** (`vp8channel/transport.go`, `kcp.go`, `kcpconn.go`). Epochs name
the process that drew them. `Take` .. `Deliver` are a track reader with the steps
of `handleIncomingFrame`, `handleFirstPeer`, `resetKCP` (two critical sections,
two steps) apart; `Reconnect` is the provider's callback; `Echo` is the SFU
reflecting a track. KCP is external: a message is one segment, the peer's
runtime acknowledges what it holds, cumulatively, and unacknowledged segments
may be sent again. The read loop of a runtime is one step with the delivery.

**TelemostPeer** (`provider/telemost/peer.go`) for a peer with a data channel.
`watcher` is where the goroutine of `Connect` and `WatchConnection` is;
`reconnect` is `Teardown`, `GetConnectionInfo`, the steps of `Connect`,
`Finish`. `PeerInit`, `PeerNext` and the other names with `Peer` are so called
because MCReconnect extends this module beside ServerSession. A session is its websocket, its data channel and its goroutines
(reader, keepalive, send workers); the fields of the peer are those of the last
one. `queueReconnect` is one step. A failed peer connection counts as a failure
of its data channel. The pause of three seconds in `reconnect` is taken to
outlast the reader, the keepalive and the close callback of the session that
was torn down; workers may outlast it. SDP and ICE, video tracks, telemetry and
acknowledgement waiters are left out.

**SendQueue**, **JazzPeer**, **WbstreamPeer**, **TelemostSend** (`provider/*/peer.go`).
SendQueue is what the three peers share: the bounded channel `sendQueue`, its
workers, the carrier as a sequence `wire`. JazzPeer adds the websocket, the
goroutine of `handleSignaling` with the 300 ms between its two offers, the
publisher connection, the data channel, and a `Close` that waits before it closes
the websocket. WbstreamPeer adds the LiveKit room, the four steps of `Close`, and
the panic of a send on a closed channel. TelemostSend is the send path of one
session of the telemost peer, with `Workers` workers; how its sessions come and
go is TelemostPeer. `taken` and `dropped` are history.

**JazzPacket** (`jazz/datapacket.go`) and **SeiCodec** (`seichannel/h264.go`, the
transport frames of `seichannel/transport.go` and `videochannel/frame.go`) are
the encoders and decoders byte by byte, as functions: varints and fields, SEI
sizes, emulation prevention, NAL units. A UUID of jazz is shortened to two bytes;
a CRC is given with its message.

**MuxConn** (`muxconn/conn.go`): the `Write` of the near session with its loop
over `closed` and `CanSend`, the `Push` and `Read` of the far one with the
condition variable, `Close` at both ends. A sealed message is a triple no raw
packet equals.

**DataPath** composes MuxConn with one of the peers at the near end and the
callback path (`handleIncomingMessage`, `onData`, `Push`) at the far end. The
direct link, the datachannel transport and the carrier's adapter between them
pass calls on and have no state; `kind` chooses the carrier.

**Socks5** and **Tunnel** (`client.go`, `server.go`). Socks5 holds the parsers as
functions of the bytes written so far. Tunnel is one connection of an
application: `client` is `handleSocks5`, `tunnel` and its copying goroutine,
`server` is `handleStream`, `dispatch` and its copying goroutine, `up` and
`down` are the two directions of the smux stream with its FIN. The Read and the
Write of an `io.Copy` are two steps (`pipe` and `write`, `reads` and `writes`), as
the second may block without a deadline. `script` holds the bytes the application
writes, the configuration they meet, who may stop taking bytes meanwhile (`stuck`:
the application, the target, either direction of the link) and, beside them, what
they mean (address, port, data), stated apart from the parser. A smux stream is
taken to lose nothing and to keep its order while both sessions live. Over the
data channels that is so only as far as the carrier keeps its promise: the runs
`datachannel_reliable` and `telemost_order` show where it does not, and what
`TunnelIsTransparent` and its theorem say holds under that assumption.

**Vp8Frames** (`vp8channel/transport.go`, `processRTPPacket`): one remote track
and a network that delivers any packet, at any time, any number of times, intact
or not.

**MobileProbe** (`mobile.go`, `Check`, `Ping`): the client of a probe, its three
channels and its timer, the requests and the best of them.

The `MC*` modules define values for constants. MCDataPath, MCClientSession and
MCReconnect (the server's session and the telemost peer, the two ends that make a
connection anew) also put parts that do not touch each other's state into one
instance: a variable (`layer`, `part`, `end`) is chosen at the start and only that part takes steps,
so the states add up rather than multiply, and a fairness condition holds one
goroutine of each part (a behaviour has steps of only one of them).
MCArqTransport adds to the frames of ArqTransport the bytes SeiCodec makes of
them.

## 3. Runs

| run | bounds | what it shows |
|---|---|---|
| `arq_one_track` | three messages of 1, 2, 1 fragments, 2 attempts, queues of 2 and 1, `delivered` of 1, 2 frames in flight, damage, the server may close | what `Send` acknowledged was handed over (`AckedIsHanded`), in order and once (`HandedInOrder`), the whole refines OrderedDelivery, readers return; each frame in flight decodes to itself (`FramesSurviveCodec`) |
| `arq_faults` | two messages, two tracks, one restart, one renegotiation, the client may close | acknowledged means accepted (`AckedIsAccepted`), every `Send` returns |
| `reconnect` | server: two callers, 2 callbacks, 1 broken session, the handler of the first session may be held; telemost peer: 3 sessions, 2 failures, limit of 1 reconnect, 1 worker, queue of 1 | `LiveIsInstalled`, `ReinstallsAreCaused`, `ServeRecovers`, `StopsUnlessRevived`; `SupersededIsDown`, `ReconnectsAreCaused`, `FailureIsNoticed`, `CloseEnds` |
| `server_run_returns` | one caller, 1 callback | *violated*: `Run` may never return |
| `client_session` | one caller, 3 callbacks, 2 breaks, 2 requests; probes of 3 samples; two threads, 2 runs, 4 calls | `OpenIsFed`, `ReconnectRecovers`; `ProbeAnswersAreTrue`, `ProbeEnds`; `AtMostOneClient`, `AnswersAreTrue`, `StopEnds` |
| `client_two_callers` | two callers, 2 callbacks | *violated*: `ReconnectRecovers` |
| `mobile_stop` | one thread, 2 runs, 1 call | *violated*: `StopStops` |
| `vp8_epoch` | two readers at the client, one restart of the server, one provider reconnect each, one reflected frame, 1 message | `OneResetPerChange`, `ChangesAreCaused`, `KcpComesBack` |
| `vp8_reliable` | one reader each, 2 messages, one reconnect | *violated*: `AckedIsHanded` |
| `data_path` | three messages, one of them too long, a queue of 2, back-pressure from 1, one worker; six scripts of an application, an answer of one byte; frames of 2, 1 and 3 packets around the wrap of the numbers | `ReadInOrder`, `ErrorsAreCaused`, `WriteReturns`, `ReaderEnds`, `CloseEnds`; `TunnelIsTransparent`, `TunnelEnds`; `FramesAreWhole` |
| `telemost_order` | three messages, two workers | *violated*: `ReadInOrder` |
| `datachannel_reliable` | three messages over jazz, one of them too long, one worker | *violated*: `EachSendArrives` |

Why the bounds are enough: each is the smallest at which every action fires and
every hazard can occur - a queue of one is full after one message, a `delivered`
map of one forgets every earlier message, two attempts have a first, a last and
a late acknowledgement between them, two callers cross each other, two failures
give one reconnect that succeeds and one that meets the limit, a third session
is one that supersedes a session made by telemost's `reconnect`. In `data_path` three messages
are the least with one before and one after a message that is dropped, and
`HighWater` below `Capacity` keeps the margin of the code (4000 below 5000); the
scripts have an address of each kind, credentials that are right, wrong and not
asked for, a request that is cut off, one that is refused, and one of another
client; `stuck` is, in turn, each of the application, the target and the two directions of
the link; `FirstSeq` makes the RTP numbers wrap within the frames. In
`arq_one_track` a full fragment is 217 bytes, which makes its SEI message 255
bytes long. Jazz's SFU offers the subscriber connection once (a second offer
repeats the first), and `lately` remembers the last three packets, the length of
the longest frame. Nothing in the code counts
beyond these: larger values repeat the same interleavings. Where a property is
also proved (section 5) the bound does not matter. `CHECK_DEADLOCK FALSE` is set
everywhere because each system may really stop: closed, returned, or out of the
calls the bounds allow.

### Fairness

Weak fairness of the steps of a goroutine (the Go scheduler runs what can run),
of timers that fire (attempts, `WaitReady`, dials and waits that time out), of
the return of a client whose context is over, of a handler whose session is over
unless it is one of `Held`, and of telemost's reconnect, which calls back once a
session is over (`FailureIsNoticed` of TelemostPeer). Nothing is
assumed of the carrier (it may lose every frame), of the peer, of the
application's calls, of who cancels, of the SFU's offers, of an upstream
proxy's answer, or of a Write of the tunnel to a party in the script's `stuck`:
neither the writes of the two `io.Copy`, to the application, the target or the
stream, nor that of the acknowledgement has a deadline. A Write to the stream
does return once its session is over, and one that waits for the window once the
stream is. `ServeRecovers` and `ReconnectRecovers`
need no repetition of an event, so no strong fairness occurs.

### Disagreements with documents and tests

* `server_run_returns`: a callback past `closeSession` when the watcher runs
  installs a session that nobody closes; `serve` stays in `AcceptStream`.
  `StopsUnlessRevived` says that this, and a handler that is held (below), are the
  only ways.
* `client_two_callers`: over vp8channel two goroutines call `handleReconnect`;
  one clears `c.conn` while the other builds a session on it.
* `mobile_stop`: the end of a run closes the done channel of the next one.
* `vp8_reliable`: a KCP runtime is replaced under an unchanged epoch, so an
  acknowledgement of the old one counts for the new one.
* `telemost_order`: four workers share one queue and one data channel; the one
  that took the later message may send it first, and muxconn has no numbers to
  put them right. With one worker, as at jazz and wbstream, `data_path` shows
  the order kept.
* `datachannel_reliable`: the workers of jazz and telemost log a message of more
  than 12288 bytes and go on, and wbstream does so with one LiveKit refuses.
  `Send` had returned nil, nobody tells the session, and smux writes frames of up
  to 32768 bytes, while muxconn counts on one `OnData` for each `Send` and the
  transport declares `Reliable: true`. `ReadInOrder` claims the order only: what
  is read is what was not dropped (`Kept`).

The exact lines and quotations are in `PROJECT.json` (`findings`).

Further observations that no document contradicts are described by the
properties, each of which names its exception, rather than counted as findings:

* With two tracks (after a renegotiation) an ARQ message may be acknowledged by
  one reader while the other has not yet called `OnData`; hence only acceptance
  is claimed in `arq_faults`.
* In telemost, a failure of the new connection while `reconnect` awaits or ends
  is refused a trigger (`dropped`); `FailureIsNoticed` excludes just those. And a
  `Connect` that is under way when `Close` runs resets `closed` and may leave a
  session or websocket nobody closes (`revived`); `CloseEnds` excludes just that.
* A handler of the server that waits for a proxy, or in a write to a target that
  takes nothing, is released by neither the context nor the end of its session,
  and `Run` waits for it (`wg.Wait`): `StopsUnlessRevived` allows `Run` to be there,
  with nothing but such handlers left.
* Once its data channel is closed, jazz does not come back (`WatchConnection` only
  takes the triggers), and a Write polls until the owner closes its conn:
  the exception of `WriteReturns`.
* A Write that is past wbstream's check of `closed` while `Close` closes the
  queue panics (`ErrorsAreCaused` allows it only then); and a full queue fails the
  session, as wbstream's `CanSend` does not look at the queue.
* A reply of the upstream proxy that is longer than ten bytes ends up before the
  target's answer (`TunnelIsTransparent` allows that much). The end of one direction
  of a tunnel ends the other: each side gets a prefix of what was written, and
  no more is claimed.
* `TunnelEnds` lists what a handler may wait for without end, though the other
  handler, its peer or its session is gone: an application that does not write its
  request, a silent proxy, a Write to an application or a target that does not
  read, a link or a window that holds back bytes or the FIN, and, with keepalives
  disabled, the end of a session on the other side. Everything else ends it.

## 4. Properties that are easy to misread

`ReconnectsAreCaused` compares the triggers taken with the failures of the
network so far, while `Close` was not called: duplicate triggers of one failure,
triggers made by closing the old session, and triggers queued while an attempt
backs off must all be drained. `ReinstallsAreCaused` is its counterpart at the
server. `OpenIsFed` says that the conn under every open client session is the
one `onData` pushes to. `TunnelIsTransparent` compares with what the script says its bytes mean, not
with the parser's result. `FramesAreWhole` has two halves: nothing but whole
frames is handed on, and a frame whose packets arrive one after the other is
handed on whatever preceded it. `KcpComesBack` says that a peer that is neither closed nor
inside a reset has a live runtime once it has started one.

## 5. Proofs

`Spec` is the specification of the module proved about; no proof uses its fairness.
The theorems hold for every value of the constants that satisfies the named
assumptions of the modules (bounds are natural numbers, names are distinct: TLC
evaluates them in every run) and what the last column adds.

| module | theorem | states | taken for granted |
|---|---|---|---|
| ArqTransportProofs | `TypeCorrect` | `TypeOK` | |
| | `AckedAccepted` | `AckedIsAccepted` | |
| | `AckedHanded` | `AckedIsHanded` | `NTracks = 1` |
| | `HandedOrdered` | `HandedInOrder` | `NTracks = 1` |
| | `Implements` | `ImplementsOrderedDelivery` | `NTracks = 1` |
| SeiCodecProofs | `EscapeUndone` | `UnescapeRBSP(EscapeRBSP(s)) = s` | `s` any bytes |
| | `UnitCarriesPayload` | an access unit is read as the one payload it was built of | any bytes but none |
| | `FragmentReadBack`, `AckReadBack` | a frame is read off its access unit as it was written | numbers fit their header fields |
| | `FramesSurvive` | `FramesSurviveCodec` | `NTracks = 1`, `Fragments = ShortLongShort` |
| ServerSessionProofs | `ServerTypeCorrect` | `TypeOK` | |
| | `LiveInstalled` | `LiveIsInstalled` | `EarlyCallers = {}` |
| | `ReinstallsCaused` | `ReinstallsAreCaused` | |
| TelemostPeerProofs | `TelemostTypeCorrect` | `PeerTypeOK` | |
| | `TelemostSuperseded` | `SupersededIsDown` | |
| | `TelemostReconnectsCaused` | `ReconnectsAreCaused` | |
| Vp8EpochProofs | `EpochTypeCorrect` | `TypeOK` | |
| | `ResetsArePaired` | `OneResetPerChange` | |
| | `KcpAlwaysComesBack` | `KcpComesBack` | |
| | `EpochChangesAreCaused` | `ChangesAreCaused` | |
| | `UndisturbedIsReliable` | `AckedOf(p)`: `AckedIsHanded` of what `p` sends | `Undisturbed(p)` |
| MobileRuntimeProofs | `RuntimeTypeCorrect` | `TypeOK` | bounds in `Nat` |
| | `OneClientAtMost` | `AtMostOneClient` | bounds in `Nat` |
| | `AnswersTrue` | `AnswersAreTrue` | bounds in `Nat` |
| | `PanicIsCaused` | `PanicIsMisfire` | bounds in `Nat` |
| | `AwaitingIsSafe` | `StopStops`, no `misfired`, no panic | bounds in `Nat`, `[][Awaits]_vars` |
| ClientSessionProofs | `ClientTypeCorrect` | `TypeOK` of ClientSession | |
| | `OpenFed` | `OpenIsFed` | `OneCallerOnly` |
| | `ProbeAnswersTrue` | `ProbeAnswersAreTrue` | `Samples > 0` |
| | `AllTypeCorrect`, `BindingRunsOneClient`, `BindingAnswersTrue` | `AllTypeOK`, `AtMostOneClient`, `AnswersAreTrue` of MCClientSession | |
| DataPathProofs | `PathTypeCorrect` | `TypeOK` of MCDataPath | |
| | `ErrorsCaused` | `ErrorsAreCaused` | |
| | `ReadsInOrder` | `ReadInOrder` | `OneWorkerOnly`, `JazzCarries` |
| | `FramesWhole` | `FramesAreWhole` | `NumbersLast` |
| | `TunnelTransparent` | `TunnelIsTransparent` | `ScriptsMean` |

What the last column takes for granted, and why:

* `NTracks = 1`: the carrier keeps the track it negotiated and no process
  restarts, so one goroutine reads each peer's frames. With more, the order is
  really lost: the runs `arq_faults` and `arq_one_track` differ by it.
* Numbers that fit their header fields: `Uint32` and `Uint16` write a number modulo
  2^32 and 2^16. The payload, its length and its CRC are arbitrary.
* `Fragments = ShortLongShort`: MCArqTransport gives bytes to three messages, which the
  property speaks of. The codec theorems it follows from are about every payload.
* `EarlyCallers = {}`: no callback before `Connect` returned; such a session would
  be overwritten.
* `Undisturbed(p)`: no process restarts, the provider of `p` does not reconnect, and
  one goroutine reads the remote tracks of `p`. The peer's provider may reconnect, the
  peer may have any number of readers, either may close, frames may be lost, sent
  again and echoed. Without it a runtime's acknowledgements may be about
  messages of the runtime before: the run `vp8_reliable` finds that.
* `Awaits`: the application calls `Start` only when the done channel of the run
  before is closed, as it is after `Stop` answered within its time. `Start` itself
  asks for less (the `CancelFunc` is nil), and `mobile_stop` shows the difference.
* `OneCallerOnly`: one goroutine calls the reconnect callback. With two,
  the session that
  is stored may run on another `conn` than the one that is fed, which is what
  `client_two_callers` runs into.
* `Samples > 0`: `httpPingSamples` is 3; with none the reported latency would be 0 of
  no request.
* `OneWorkerOnly`: telemost, if it is among the kinds, has one worker. It has more
  in the code, and `telemost_order` finds messages out of order.
* `JazzCarries`: a message sealed, encoded and decoded by jazz's codec is the same
  message. The encoder and decoder of JazzPacket (nested fields, varints) were not
  proved about; TLC evaluated this for the run's messages.
* `NumbersLast`: a stream has at most 65536 packets in all. Numbers are taken modulo
  65536 from any start, so they wrap; what is excluded is that two packets the
  network may still deliver have the same number, with which frames can be mixed
  up and the property is false.
* `ScriptsMean`: a script's target and data, which are stated apart from the parser,
  are what the parser finds in its bytes. It ties the property's vocabulary to the
  input, and says nothing of the tunnel; TLC evaluated it for the run's scripts.

`JazzCarries`, `NumbersLast`, `ScriptsMean` and `OneWorkerOnly` were evaluated with the
constants of `DataPath.cfg`, and are true there.

### The inductive invariants

*Acknowledged means accepted.* `AckedIsAccepted` speaks of what `Send` returned
only and is not inductive. `Evidence` says it of every place an acknowledgement
passes through: the reader that is about to queue it, the `delivered` map that
makes it again for a duplicate, the two queues, the network, and the waiter it
resolves. Restarts keep it because `accepted` is history. The type invariant is
inductive as it stands.

*Handed in order, and acknowledged means handed* (`OrderInv`). Stop-and-wait does
not order deliveries by itself, because fragments of a message that was given up
are still under way when the next is sent. What orders them is that fragments
leave and travel in the order of their messages (`Sorted`, `Precedes`), that no
fragment under way is older than what its receiver accepted (`Proper`), and that
the newest accepted message is still in `delivered` whenever that map is emptied
(`Recv`): emptying it forgets only messages no fragment can revive.

*The refinement.* With `OrderInv`, an accepting step appends one message, newer than
all before, to what was received; a `Send` that ends with success finds its
message there; every other step maps to a stutter. Fairness is not part of
`OrderedDelivery`, so the theorem is the whole refinement.

*Frames survive the codec* (`FrameInv` of ArqTransportProofs). A frame's sequence
number is the number of its message and its index is below that message's
fragments: said of the `Send` that cuts, the two queues, the network and the
readers that acknowledge. What is left is about bytes only. `EscapeRBSP` puts byte `i`
at `place[i]`, increasing by one or by two with a 3 between, and the 3s
`UnescapeRBSP` drops are exactly those (`EscapeLaid`, `UnescapeLaid`). The escaped NAL
unit has no 0, 0, 1 and does not end in 0 (`EscapeClean`), so the start codes found
are those written. The sizes are read back as runs of 255 and a rest, and the
header's fields by division. That the recursive functions of the decoder exist is
derived from the positions they go through: of the positions without a value,
the least, or the last, would have one.

*No session is abandoned.* A goroutine stores a session only when none is stored.
That needs three facts `LiveIsInstalled` does not mention: while somebody holds
`reinstallMu` the session is nil (`InstallingInv`), nothing was made and no
callback runs before the link is up (`StartingInv`), and `bringUpLink` does not
come back (`UpInv`). `AcceptsSession` strengthens the type invariant: `serve` never
accepts on nil.

*Reinstalls are caused* (`CauseInv`). A debt is counted beside the sessions made:
callbacks in `reinstallSession`, the session `bringUpLink` or `serve` is about to
install, and a broken session that is still stored, which `serve` may find dead.
Sessions made plus debt never exceed one plus deaths plus callbacks; that `serve`
only reinstalls what failed (`FoundDead`), and that a stored session is not closed,
let the debt pay for every step.

*Superseded sessions are down.* What must be said beside it is that the last
session is down as well from the teardown until `Connect` makes the next one
(`ClosedFirst`), and that a websocket is dialed for a session that was made
(`MadeInv`). The teardown closes the last websocket that was dialed, which need
not be the last session's; the older one was closed then already. The type
invariant needs that the attempt beyond the limit is the last (`LimitInv`).

*Reconnects are caused* (`CausedInv`). A trigger in the channel stands for a failure
no attempt has answered; it survives only while `WatchConnection` listens. From the
creation of a session on, what is left of the older ones can notice nothing any
more (`Quiet`: the pause of `reconnect` outlasts their readers and callbacks), so
only a failure brings the last one down (`UpToFailure`).

*One reset per change* (`ResetInv`). The callbacks that are due are, in number, the
goroutines between the compare-and-swap and the start of the new runtime.

*Changes are caused* (`ChangesInv`). A peer's frames arrive in the order of their
epochs. Take the newest epoch `k` a process took from the network: the goroutines
that hold a frame of an older one are `Stale`, and each may turn the epoch back
once, after which it is turned forward once (`Owed`). Changes so far plus twice the
stale goroutines plus what is owed is bounded by restarts times
`2 * others + 1`, and a new epoch makes all goroutines but one stale.

*One client at most, true answers.* A run that has not ended is the one whose
`CancelFunc` is stored, so there is one (`CancelInv`). A done channel is closed by the
run it belongs to (`DoneInv`), unless a run overtaken by the next `Start` closed
another's: `misfired` records that, and the properties exclude it openly.

*Awaiting is safe* (`AwaitedInv`). What `Awaits` restricts is `Start` alone; that it
spares every run the fate of `misfired` needs that every run before the one whose done
channel is stored is over.

*An undisturbed peer is served reliably* (`OneWay`). Only one epoch can reach `p`, so
nothing makes it reset (`NeverResets`), it has one KCP runtime and message `n` is
segment `n` (`OneRuntime`). Every frame of `p` in flight or held by a goroutine carries
its message under its number, and every frame of the other peer acknowledges only
what was handed over there (`NetGood`, `HeldGood`). This is so for each runtime the other
peer goes through, since all before the number it expects was handed over
(`FarGood`): a new runtime starts at 1 again and can then only repeat messages.
TLC checked `OneWay` with echoes, resets of the other peer and `Close` first.

*Open is fed* (`FedInv`). With one caller one goroutine at a time makes a session;
nothing is open from the moment it begins until it has made it, and until it
stored it the open session is the one it made.

*Errors are caused.* A `Write` sends only after `CanSend` saw less than `HighWater`, and
only the writer fills the queue (`Margin`), so the room is still there. `Started` and
`Closing` order the connection, the session and the two `Close` calls.

*Read in order* (`OrderInv` of DataPathProofs). The messages `Send` took are those done
with, the one the worker holds and those in the queue, in this order
(`TakenInOrder`, `QueuedInOrder`). Of those done with, what was not dropped is what
the far session was given followed by what is on the wire, or starts with it once
the carrier was lost (`Flow`). The lemmas about `FlattenSeq` are derived from the
definitions of the community modules with the least counterexample in place of
an induction.

*Frames are whole.* What is assembled are the first packets of one frame, the last of
them the packet processed last. A packet without S that follows it by number is
then the next of the same frame, since numbers are distinct modulo 65536.

*The tunnel* (`TunnelInv`). `Progress` says how far the two handlers are: nothing flows
back before the acknowledgement, nothing is acknowledged before the target was
reached, nothing is answered before the acknowledgement was read. `UpFlow` and
`DownFlow` say of each direction that what is taken and what is under way are the
beginning of what is written: the header in its two parts, then the data; the
acknowledgement, then the target's answer, behind the octet a long proxy reply
leaves. `Copying` ties the copying goroutines to their handlers: a handler that is
done closed its end of the stream, and a copy that is in its Write has bytes to
write. What the theorem takes from the carrier is the smux stream of Tunnel,
which loses nothing (section 2).

### What proving changed in the model

* `Nowhere` of Tunnel had port 0 and an empty name, which a request may ask for:
  the tunnel's type invariant was false of such a script. Its port is now -1.
* `CASE` expressions whose guards overlap (`Socks5`, `MobileProbe`, `SeiCodec`) were read
  by TLC from the top but mean any of their branches; they are chains of
  `IF .. ELSE IF` now, as the code's early returns are.
* `FirstSeq` of Vp8Frames is assumed to be a natural number below 65536, where it was
  a member of an interval: the same set, which the provers use more easily.
* The loops of SeiCodec are functions of positions (`place`, `Extract[pos]`,
  `Payloads[pos]`) where they were `SelectSeq` and `FlattenSeq`, so that a proof can say
  where a byte goes and where the decoder stands.
* `Kept` of DataPath and `Before` of Vp8Frames are written with `FlattenSeq` instead of
  filters and sums that only a recursion defines.

### Only model-checked

Every liveness property (fairness and `ENABLED` are out of the provers' reach).
`JazzCarries`, which `ReadsInOrder` takes for granted. Every other safety property of
the passing runs is stated by a theorem, under the last column of the table.
`AckedIsHanded` of Vp8Epoch is the property of a run that
finds it violated; what holds of it is `UndisturbedIsReliable`.

## 6. Not modelled

* videochannel's ffmpeg processes, the pictures of `visual.go` (QR and tiles, made
  and read by libraries), and the replacement of a track's decoder.
* SDP, ICE, video tracks, telemetry and acknowledgement waiters of telemost; ICE,
  server lists, video tracks and the room API of jazz; video tracks and the HTTP
  API of wbstream. What is queued at telemost across a reconnect goes to the next
  session; a behaviour of DataPath has one session only.
* The registries of links, transports, carriers and providers, the flags and
  their validation, crypto, names, logging and the socket protector: tables and
  wrappers without a state that changes.
* WebRTC, KCP, smux, LiveKit, the HTTP client, TCP and the upstream proxy are
  outside the repository and appear only as their users rely on them.
* Errors that a constant configuration rules out (`smux.Server`, `startKCP`) are
  not taken. The read loop of a KCP runtime is one step with its delivery, so a
  message it hands on after the reset is not seen.

## 7. Plan

Done, in this order: ArqTransport with OrderedDelivery (delivery is what the
tunnel rests on), ServerSession and ClientSession (recovery), MobileRuntime,
Vp8Epoch, TelemostPeer; then MuxConn with the peers of the three carriers
(DataPath), the tunnel over it (Socks5, Tunnel), the bottom of the video path
(Vp8Frames, SeiCodec) and the probes (MobileProbe).

Left to model: `Vp8Epoch` with the KCP read loop apart from the delivery;
videochannel's decoder per track; two sessions in DataPath, for what a queue
holds across a reconnect; the retry loop of the generator (`genRetry`).

Next theorems: the direction from server to client as an instance of
OrderedDelivery; that each message is read at most once with any number of
telemost's workers, when only the order is lost; the safety half of `TunnelEnds` (a stream
both ends closed has no goroutine left that waits for it).
