# Formal models of the gas pump

TLA+ specifications, model-checking runs and machine-checked proofs for the
gas-pump repository: an ESP32 that unlocks a fuel pump when it is told to over
MQTT and reports what was poured, the client libraries it talks through, and the
digital twin that connects it to the supply manager. Paths below are relative to
the repository root (`src/`); `pubsub/` is
`gas-pump_device/lib/MQTTPubSubClient-0.3.2/src/`, and `websockets/` is
`gas-pump_device/lib/arduinoWebSockets-2.4.0/src/`.

## The system

| Part | Code | State it keeps | Operations |
|---|---|---|---|
| Pump control | `gas-pump_device/src/PumpInteraction.cpp` | `locked`, `stock`, `capacity`, the LED and relay pins | `init_pump`, `supply_fuel`, `replenish_stock`, `lock_pump`, `unlock_pump`, `set_stock`, `get_stock` |
| Device program | `gas-pump_device/src/main.cpp`, `Message.cpp` | where `setup`/`loop`/the callback are, the response being built | `setup`, `announce_pump`, `loop`, `mqtt_message_callback` |
| Communication handler | `gas-pump_device/src/CommsHandler.cpp` | WiFi, NTP flag, the two clients | `connect_wifi`, `initialize_ntp_client`, `connect_mqtt`, `connected_to_mqtt`, `publish_message` |
| MQTT client | `pubsub/MQTTPubSubClient.h` | `is_connected`, the callback map, the byte buffer, keep-alive clock | `connect`, `publish`, `subscribe`, `unsubscribe`, `disconnect`, `update`, `close`, timers, network read and write |
| MQTT protocol engine | `pubsub/MQTTPubSubClient/lwmqtt/*.c` | packet ids, `pong_pending`, two timers, the two packet buffers | `lwmqtt_connect`, `publish`, `subscribe`, `cycle_once`, `keep_alive`, `yield`, packet encoding and decoding |
| WebSocket client | `websockets/` | connection status, what the handshake answered, frame assembly | `begin`, `loop`, `sendBIN`, `disconnect`, header and frame handling |
| Digital twin mappings | `ditto/*.js`, `ditto/gas-pump.jsonld` | the features of one thing | the MQTT and the Kafka payload mappings |
| Broker, twin, Kafka | containers, configured in `mqtt5/`, `ditto/` | sessions, retained messages | external |

One authorisation travels supply manager -> Kafka -> `kafkaIncomingJavaScriptMapping.js`
-> twin -> broker -> `mqtt_message_callback` -> `supply_fuel`; its result travels
back as `supply_completed` or `supply_error` through `publish_message` and
`mqttIncomingJavaScriptMapping.js`. The device is one thread: `loop` calls the
MQTT client, which calls the WebSocket client for bytes and then the message
callback, which blocks in `supply_fuel` for as long as the customer pours.
Nothing is persisted across a restart.

What is hard about it:

- the callback runs *inside* the client, from `update`, and from `connect` and
  `subscribe` while they wait for an acknowledgement, because bytes received on
  a connection that was lost stay in the receive buffer;
- the read loop of the MQTT client runs the WebSocket client, which reconnects
  by itself: a command may begin on one connection and end on another;
- both connection flags the firmware looks at can be stale, the WebSocket
  status because no library call is made during a supply, and `is_connected`
  because nothing clears it when the socket closes by itself;
- a packet, a handshake or a frame may be given up half way by any of its
  reads, and what was read of it must not be taken for the beginning of another;
- every deadline compares with a clock that wraps, in three different ways;
- every `ESP_ERROR_CHECK` restarts the firmware, which forgets the stock;
- `lock_pump` and `unlock_pump` fail when called in the state they lead to;
- the books mix a `double` with whole litres in a `uint32_t`;
- results of `set_stock`, `subscribe` and `publish_message` are ignored;
- every uplink is retained by the broker, because the length of the message is
  passed where `retained` is expected, and an empty document is published for
  messages the callback has no case for.

What makes each part correct:

| Part | Correct when |
|---|---|
| Pump control | lock, LED and relay agree; no error check fires; the books stay within the tank and never overstate it; every supply returns |
| Device program | fuel flows only under an authorisation; the pump is closed before anything is published; no completion without a supply; the callback always returns |
| Communication handler | it comes back to the loop connected and subscribed once WiFi stays; no timestamp before the clock is set |
| MQTT client and engine | what a command reports as done the broker has; what the broker waits to see acknowledged is, and nothing else; keep-alive detects a dead broker and only that; the reader stays in step with the packets; what is encoded is what is decoded |
| WebSocket client | connected means accepted by this server in this handshake; data frames arrive once and in order; no socket is lost; the reader decodes what the sender writes |
| Twin mappings | the device acts on authorisations only and answers each; the traffic comes to an end; the twin's features are what the device last said |

## The modules

| Module | What it is |
|---|---|
| `Pump.tla` | the class `PumpInteraction`: one action per call, or per step of the blocking call `supply_fuel` |
| `GasPumpDevice.tla` | extends `Pump` with the rest of the firmware's thread: `main.cpp`, `CommsHandler.cpp`, the client's visible state, and the environment (customer, radio, broker, power) |
| `SupplyService.tla` | the abstract specification the device implements: what the supply manager is promised |
| `LwmqttPackets.tla` | the packet codec of lwmqtt, as functions from packets to bytes and back |
| `LwmqttExchange.tla` | extends it: one packet is encoded, perhaps cut, and decoded |
| `LwmqttFraming.tla` | extends it: how the reader finds packets in the bytes that arrive |
| `MillisTimers.tla` | the deadlines of both libraries over a wrapping clock |
| `MqttSession.tla` | the commands of the MQTT client, packet by packet, against a broker |
| `MqttKeepAlive.tla` | the keep-alive, in time |
| `WebSocketClient.tla` | handshake, frames, restart and closing of the WebSocket client |
| `WebSocketFrames.tla` | `sendFrame` and the reader of the same library, byte by byte |
| `DittoTwin.tla` | the loop from an order to the twin, the device and back |
| `MCPump`, `MCGasPumpDevice`, `MCDittoTwin` | small instances for TLC |
| `MCMqttLibrary`, `MCWebSocketLibrary` | small instances of the parts of each library, side by side in one run |
| `*Proofs.tla` | theorems and proofs: `PumpProofs`, `SupplyServiceProofs`, `GasPumpDeviceProofs`, `MqttTimeProofs` (of `MillisTimers` and `MqttKeepAlive`), `MqttSessionProofs`, `LwmqttProofs` (of `LwmqttFraming` and `LwmqttExchange`), `WebSocketProofs` (of `WebSocketClient` and `WebSocketFrames`), `DittoTwinProofs` |

Each model looks at the code at one level and leaves the rest to another:
`GasPumpDevice` has the connection as the firmware sees it, `MqttSession` opens
the commands up into packets, `LwmqttFraming` the packets into bytes that arrive
in pieces, `LwmqttExchange` the bytes into fields; `WebSocketClient` has lines
and pieces of frames where `WebSocketFrames` has bytes; `MqttKeepAlive` and
`MillisTimers` have the time the others leave out.

Definitions whose comment reads `mutant` are faulty variants of the definition
that follows them. Nothing uses them; they are there to try each property
against a plausible mistake.

### Pump

Volumes are counted in *drops*, the 0.01 litre one turn of the pouring loop
adds, so a C `double` is an integer or `NaN`; `UnitsPerLitre` is 100 in the
code. The conversion `get_stock` makes (`double` to `uint32_t`) is the set
`GetStock` of possible results: the whole litres, or, for a negative or
not-a-number stock, whatever an undefined conversion may give.

| Code | Actions |
|---|---|
| constructor, a restart | `Init`, `Start(why)`, `PowerCycle` |
| `init_pump` | `InitPump` |
| `supply_fuel`, lines 81-84 | `RefuseSupply(r)`, `AdmitSupply(r)`; `r` is what the caller's variable holds |
| lines 92-103 | `Poll`, `GiveUp` |
| lines 105-108 | `MotorOn` |
| lines 111-114 | `PourDrop` |
| line 118 | `MotorOff` |
| lines 123-127 | `Settle` |
| `replenish_stock` | `ReplenishStock(litres)`: offered by the class, called by nothing |
| the button | `Press`, `Release` |

The names of the code are inverted: `PUMP_UNLOCKED` is the value `locked` has
once `lock_pump` ran. The model's `locked` is TRUE in that state. The
`Interlock` invariant relates that member to the two pins, which is what the
names are supposed to mean.

### GasPumpDevice

`at` is the place of the thread; `resume` is where the client goes on when the
callback returns.

| Code | Places and actions |
|---|---|
| `connect_wifi`, `initialize_ntp_client` | `wifi`, `ntp`: `WifiConnected`, `NtpReady`; `NtpEvent` is the time client's callback |
| `connect_mqtt` | `mqtt`, `connect`, `connack`, `subscribe`, `suback`: `EnterMqtt`, `SocketOpens`, `ConnAck`, `ConnectFails`, `SendSubscribe`, `SubscribeRefused`, `SubAck`, `SubscribeFails`, `Discard` |
| `lwmqtt_arduino_network_read` | `SocketReopens`: the read loop makes a new WebSocket in the middle of a command |
| `setup` | `init`, `announce`: `SetupPump`, `Announce` |
| `loop`, `connected_to_mqtt` | `loop`, `update`, `yield`: `LoopTop`, `Update`, `UpdateDone`, `UpdateFails` |
| `mqtt_message_callback` | `callback`, `supply`: `Dispatch`, `Malformed`, `Supply(r)`, `DuringSupply`, `Supplied`, `Ignore`, `OtherType` |
| `publish_message` | `respond`: `PublishRefused`, `PublishSent`, `PublishFails` |
| external | `Customer`, `WifiUp`, `WifiDown`, `BrokerAccepts`, `BrokerSubscribes`, `BrokerDrops`, `SocketCloses`, `Deliver(m)`, `LosePower` |

A message is a record of what the callback tells apart: whether it parses, its
type, and the field `authorization`. The client's receive buffer is `inbox`, a
queue of whole packets: messages and the two acknowledgements it waits for.
Nothing clears it when a connection is lost, so a packet of one connection may
be read during the next. Packets come in only while the client reads
(`Reading`), and one that is there is read before a wait can time out
(`MayStop`). A failed error check inside the thread restarts it (`PumpStep`,
`Malformed`, `Forget`); the time of day survives an abort and not a loss of
power. Timeouts are not timed: `ConnectFails`, `SubscribeFails` and
`UpdateFails` may happen whenever the client may stop reading, and stand for a
timeout, a refusal, a broken socket or an unanswered ping.

### SupplyService

Three phases (idle, authorised, done), the motor, and two counters. The device
implements it with `flowing` as "the relay is HIGH" and `phase` read off the
place of the thread and the document about to be published: a restart is a
`Restart`, a refused or abandoned supply a `Decline`, a publication a `Signal`
whether or not it arrives.

### LwmqttPackets, LwmqttExchange

Bytes are numbers, buffers are sequences. A write cursor refuses what its buffer
has no room for, a read cursor what is not there, and both carry the first error,
as the early returns of `helpers.c` do; a decoder is the list of its checks in
their order. `Encode...` and `Decode...` carry the names of `packet.c`. In
`LwmqttExchange` a packet is encoded (`SendPublish`, `SendConnect`, ...), loses
bytes at its end (`LoseByte`), and is decoded from what is left; the packets of
the broker are external. `SendNumber` sends a remaining length alone, so that
lengths no small packet has are covered. The properties are about every packet
and every cut: `Survives` is the conjunction of `AnnouncedLength`,
`ReadAsEncoded`, `LengthIsSafe` and `CutIsRefused`. Two abstractions: the fields
of a packet are written as one (wherever the buffer ends the error is the same,
and nothing is sent), and `rem_len` is a natural number, since a length that
wraps 32 bits needs topics or a payload of 4 GB in the memory of the device.

### LwmqttFraming

`deque` is the byte buffer of `PubSubClient`, filled by the WebSocket's events
(`Arrives`) in pieces that need not be packets. `stage` is where
`lwmqtt_read_packet_in_buffer` is: `ReadHeader`, `ReadLength`, `ReadBody`, or
`Drain` for a packet longer than the buffer when `drop_overflow` is set. A read
that runs out of time (`NothingRead`, `RunsOutOfTime`), finds the connection
gone (`ReadFails`) or meets a malformed packet (`Finish`) leads to `close()`.
`network_read` runs the WebSocket client before it takes each chunk, and looks
at the connection only when the chunk is not there: so a connection may be lost
and made again between two chunks of a packet, or between two packets of a
command (`PacketDone`). `lost` says that the last chunk was taken without a
connection, and `SocketOpens` may then happen anywhere in a packet. `clean` is
the premise of `FramingInStep`: when the connection was made, the deque was empty
and the reader not within a packet.

### MillisTimers

One wait, of any length, begun at any time and looked at at any later one, with
what the code computes of it: `TimerGet` (the timer given to lwmqtt, with its
roll-over branch), the four comparisons with a sum (`ReadGoesOn`,
`ConnectGivesUp`, `KeepAliveLooks`, `HeaderOverdue`), and the three plain
subtractions (`TcpOverdue`, `ReconnectWaits`, `PingIsDue`). `age` is the time
that has really passed. The code is not right near a wrap: `SumsOffAtTheWrap`
says when a sum is early and when it is missed, and `KeepAliveIsCalled` is what
`lwmqtt.h` asks of `update()`, with a run of its own that refutes it.

### MqttSession

| Code | Actions |
|---|---|
| `connect` | `Connect`, `Opens`, `OpeningTimesOut`, `AskConnect` |
| `publish`, `subscribe`, `unsubscribe`, `disconnect` | the actions of these names; `WriteFails` for all |
| `update` | `Update`, `Yield`, `NoPingDue`, `PingOrClose` |
| `cycle_once`, `cycle_until` | `Cycle`, with `Reply`, `Found`, `Completed`; `TimesOut`, `YieldTimesOut` |
| the network read | `Receive`, `LoopSeesTheEnd`, `LoopReopens` |
| external | `BrokerReads`, `BrokerPublishes`, `LinkDrops` |

A packet is its type, id, quality of service, the message it carries and a
return code. `buffer` outlives the connections. `history.clean` says whether it
was empty when `connect()` sent CONNECT, and `history.reopened` whether a read has
reopened the socket since, where no CONNECT is sent; the properties that need
them say so. `subscribe()` and `unsubscribe()` look at the connection only, so
either may be called whatever the map of callbacks holds: `callback` outlives the
connections, `history.here` is what was subscribed on this one.

### MqttKeepAlive

`silence` is what `keep_alive_timer` measures. `TakeFrame` is `update()` reading
one frame, `Check` is `lwmqtt_keep_alive`, `CallbackReturns` a message callback
that has run for up to `Callback` ticks, with nothing read, and then publishes.
`Tick` is the only action that takes time. `KeepAliveAssumption` says that the
application calls `update()` often enough to read a pong behind the frames that
may wait, at most `MaxWaiting`, within the interval. The messages of a connection
are not bounded.

### WebSocketClient, WebSocketFrames

| Code | Actions of `WebSocketClient` |
|---|---|
| `connect_mqtt`, `PubSubClient` | `Restart` (`disconnect` and `begin`), `Disconnect`, `SendBinFails` |
| `loop` without a connection | `LoopCleansUp`, `LoopConnects`, `LoopFailsToConnect` |
| `handleClientData`, `handleHeader` | `HandleHeader`, `EndOfHeaders`, `HeaderTimesOut` |
| `handleWebsocket` and its callbacks | `StartFrame`, `ReadPiece` (with `Handled`), `ReadFails`, `LostBetweenPieces`, `NoMemory` |
| external | `ServerAnswers`, `ServerSends(f)`, `Arrives`, `TcpDrops` |

A header line and a frame are records of what the client tells apart. The server
answers a handshake with any of `Answers` and sends any of `Frames`; the pieces
of a frame (start, length, mask, payload) arrive one at a time.
`WebSocketFrames` has `createHeader`, `sendFrame` with its one or two writes,
each of which may end short, and `handleWebsocketCb` decoding the bytes. A
payload is a sequence of bits: XOR does not mix the eight planes of its bytes.

### DittoTwin

| Code | Actions |
|---|---|
| `kafkaIncomingJavaScriptMapping.js` | `ConsumeOrder` |
| `mqttIncomingJavaScriptMapping.js` | `MapUplink`, with `Channel` (the features) and `Thrown` |
| `mqtt_message_callback`, `supply_fuel` | `Callback`, `SupplyFuel` |
| `publish_message`, `connect_mqtt`, `setup` | `publish_message`, `connect_mqtt`, `Restart` |
| external | `PlaceOrder`, `DittoConnects`, `DittoDrops`, `DeviceOffline` |

Of a document the type and the stock are kept. `null` is the empty document the
callback publishes for a type without a case. `echo` says whether Ditto sends
the events of the device's own uplinks back to it, which the connection's topic
filter decides. The device's thread is coarse here; `GasPumpDevice` has it in
full.

## The runs

| Run | Question and answer |
|---|---|
| `pump` (40 662 states) | Under any caller: are types, interlock and error checks kept, do the books stay within the tank and still while the motor runs, does every supply return? Yes. |
| `pump_books` (8 094) | With a caller that passes zero: do the books never overstate what is left, and drift by less than a litre per supply? Yes. |
| `pump_stock_current` | Is the stock the whole litres left of the first stock? No: from the second supply on it lags by the fractions cut off. |
| `gas_pump_device` (1 105 318) | Safety of the whole thread, and the refinement of `SupplyService`. Both hold. |
| `gas_pump_live` (21 670) | Does the firmware come back connected to its loop once WiFi stays and the broker stops giving sessions up, and does every message get dealt with? Yes. |
| `gas_pump_authorization` | Does a refusal keep the pump closed? No: the field `authorization` is never read. |
| `gas_pump_amount` | Is the reported amount the amount poured? No: the variable is never initialised. |
| `gas_pump_completion` | Is a completed supply reported in the end, under fairness? No: nothing is kept to be sent again. |
| `mqtt_library` (3.2 million) | The five models of the MQTT library: does every packet survive its encoding, does the reader stay in step, when are deadlines early, late or missed, does every connection open with CONNECT, does the broker have what a command reported done, is what is awaited acknowledged and nothing else, does keep-alive give up dead brokers and no others? Yes, within the premises each property states. |
| `websocket_library` (140 000) | The two models of the WebSocket client: is a connected client accepted, ready and in step, is anything left behind, does each handshake end, is what is sent what is read? Yes. |
| `ditto_twin` (710 000) | Does the device act on authorisations only and answer each while it stays connected, does the traffic of an order end, does the twin catch up? Yes. |
| `millis_keep_alive` | Does `update()` come to call `lwmqtt_keep_alive` as often as `lwmqtt.h` asks for? No: a deadline just before the wrap of `millis()` that was not met in time is passed again only when the clock has come round. |

The runs that end in a violation state what a comment, a document or the twin's
model says of the program; `PROJECT.json` quotes each of them.

In `MCMqttLibrary` and `MCWebSocketLibrary` the variable `part` chooses one model
at the start, and the others stay in a first state of theirs: the run explores
the sum of the models, not their product, and a property of one model is checked
in all behaviours of that model.

### Statements the models refute

The models also hold statements that the code's documents make and that do not
hold; they are kept as definitions, each with its quotation. Naming one as an
INVARIANT in the configuration of the module's run gives the counterexample.

| Definition | What happens instead |
|---|---|
| `Pump!WithinMaxSupply` | no code reads `MAX_FUEL_SUPPLY_IN_LITERS` |
| `GasPumpDevice!AnnouncedAfterSetup` | the announcement is tried once, and its result ignored |
| `GasPumpDevice!AcceptedWhenConnected` | a CONNACK left in the buffer by the attempt before is taken for this one's |
| `LwmqttExchange!LengthPredicted` | `lwmqtt_varnum_length` is one byte too long for 2097151, and refuses 268435455 |
| `LwmqttExchange!GrantedWithinArray` | a SUBACK with more codes than were asked for stores one too many |
| `LwmqttExchange!PasswordWritten` | a password without a user name is counted and not written (with a CONNECT that has one; `PubSubClient` never makes it) |
| `LwmqttFraming!StartsOver` | what is left of one connection, in the deque or in the reader, is taken for the next one's |
| `LwmqttFraming!StoredInBuffer` | the zero that ends a message which fills the read buffer lies behind it |
| `MqttSession!PublishAcknowledged` | an acknowledgement left in the buffer confirms another message |
| `WebSocketClient!ConnectedMeansWebsocket` | `begin()` sets `cIsWebsocket`, so the first handshake does without the header |
| `DittoTwin!OnlyAuthorizationsMapped` | an order of any type is written to `authorize_supply` |

### Bounds

- *Pump*: a litre of two or three drops is enough for a fraction that is cut
  off; tanks of three to five litres for a second and third supply, an
  overdrawn tank (`MaxDrawn` exceeds the stock) and a refused `set_stock`; two
  polls for a window that closes late; the residues are zero, an old amount, a
  value far out of the tank on either side, and `NaN`. `Word` is 16 and the
  largest delivery 15, so that the sum wraps.
- *Device*: a litre of one drop, since the books have their own runs. Two
  messages, so that one can wait in the buffer while the other is handled and
  survive a reconnection; three packets in the buffer, so that both
  acknowledgements of an earlier attempt can wait there behind a message; every
  kind of message the callback tells apart; one loss of power, and as many
  restarts by malformed payloads as there are such messages. Connections may be
  lost without bound. `MaxDrawn`, `MaxInbox`, `MaxSent` and `MaxOutages` bound it.
- *Codec*: all combinations of the header bits, topics and payloads of no, one
  and several bytes, a payload that makes the remaining length two bytes long,
  packets longer than the write buffer, a SUBACK of 126 codes, whose remaining
  length takes two bytes, and lengths on both sides of each power of 128 up to
  the largest.
- *Framing*: a read buffer of eight bytes; packets that fit, that take two reads
  to drain and end in bytes which read like a packet, and that are malformed;
  three of them (`MaxPackets`), over any number of connections.
- *Timers*: a clock of five bits, waits of up to half its range, begun anywhere;
  in `millis_keep_alive` the one wait of 10 ms.
- *Session*: ids that wrap at two, so that a third command gets the first one's;
  three connections, two messages out and one in (`MaxConnects`,
  `MaxPublishes`, `MaxMessages`), enough for an answer to be read two
  connections later.
- *Keep-alive*: four ticks to the interval, a callback longer than the interval
  and than the broker's patience, two frames (`MaxWaiting`) before a pong.
- *WebSocket*: two connections with two frames each (`MaxConnects`,
  `MaxFrames`), so that one frame can be left half read and another follow on
  the next connection; lengths on both sides of every boundary of the header,
  the copy and the reader; one frame at a time (`MaxTransfers`).
- *Twin*: a tank for one supply, two orders, one read
  twice, one loss of each connection and one restart (`MaxOrders`,
  `Redelivered`, `TwinDrops`, `DeviceDrops`, `Restarts`).

`CHECK_DEADLOCK` is on in the runs of the pump and the device. It is off in the
others, where a behaviour may end: a client that has used up its connections, or
the traffic of the last order.

### Fairness

`Pump`: weak fairness of the firmware's own steps (one thread that keeps
running) and of `Release` (a customer does not hold the button for ever), and
strong fairness of `MotorOff`, because the loop of line 111 samples the button:
a customer who presses again between two samples could otherwise keep it
pouring.

`GasPumpDevice`: weak fairness of the thread; the same two assumptions on the
button; while WiFi is there the time server answers in the end (`NtpEvent`);
strong fairness of the broker's answers to a client that keeps trying and of the
client's reading and writing (`BrokerAccepts`, `BrokerSubscribes`, `ConnAck`,
`SendSubscribe`, `SubAck`, `Dispatch` and `Discard`), because each attempt may be
cut short; and strong fairness of the failures of a client whose session is
gone, which the 5 s timeouts and the unanswered ping provide. Nothing is assumed
of WiFi or of how long a session lasts: `Recovers` has both as its premise.

`WebSocketClient` (`LoopIsCalled`): weak fairness of what `loop()` does by
itself: cleaning up, reading what has come, seeing its deadlines. Nothing is
assumed of the server, so `HandshakeEnds` holds with one that never answers.

`DittoTwin`: weak fairness of the device's thread (`Callback`,
`publish_message`, `connect_mqtt`) and of Ditto, which consumes, maps and
reconnects. Nothing is assumed of the manager or of what is lost.

## The proofs

All proofs hold for every value of the constants that satisfies the named
assumptions of the modules: any tank, litre, window, residue, message set, clock,
keep-alive, server, frame and bound.

**`PumpProofs`.** `PumpTyped` comes first. `Interlock` and `NeverAborts` are not
inductive: that `lock_pump` succeeds in `Settle` depends on the place in the
code. `Levels` gives, for each place, the value of `locked`, LED and relay;
`PumpInv` joins it with the types, `NeverAborts`, `WithinCapacity` and
`UnlockedWithStock`, and `NextInv` shows it inductive, one case per action. From
it follow `PumpInterlocked`, `PumpNeverAborts`, `PumpWithinCapacity`,
`PumpUnlockedWithStock` and the action property `PumpSettlesDry`.

`PumpBooks` and `PumpDrift` are about the truncation of line 123 and need
`Residue` to hold nothing but zero and no deliveries. The invariant `BooksInv`
says what the books are worth in the middle of a supply (the drops poured are
not booked yet) and counts the fraction that the *next* supply is going to write
off, so that the bound of `fills * (UnitsPerLitre - 1)` drops is carried over a
supply. `Division` and `WholeLitres` are the two facts about integer division it
rests on.

**`SupplyServiceProofs`.** `ServiceIsSafe`: fuel flows only under an
authorisation, and no supply is signalled twice.

**`GasPumpDeviceProofs`.** `PumpSide`: whatever the thread does, the pump sees a
step of its own specification or a restart, so `PumpInv` carries over.
`PlaceInv` ties the place of the thread to the pump: the pump is unlocked only
at `supply`, which only an authorisation reaches; before `init_pump` the client
has no callback registered while it reads, so the callback finds a pump that is
ready; nothing beyond the wait for the time server happens with the clock unset.
`LinkInv` says that SUBSCRIBE was sent on every open socket that the library did
not reopen by itself, unless the client is still inside `connect()`, perhaps in
a callback made from there, or about to subscribe, where `is_connected` is set:
so an ignored refusal of `subscribe()` never leaves a connected client deaf.
`DeviceInv` joins the three with the types and `NoPhantomReports`. From it follow
the safety properties of the run `gas_pump_device` and `DeviceNeverAborts`. For
the refinement, `SeenOrUnseen` sorts the actions into those the service can see
and the rest, `StepRefines` maps each of the former to an action of the service
or a stutter, and `DeviceKeepsPromise` concludes.

**`MqttTimeProofs`.** Of `MillisTimers`: the properties relate what is computed
of two readings of the clock to the time that has passed; `ClockInv` says how
these belong together (`now` is `start_ms + age`, less one turn of the clock when
it wrapped) and is inductive. `DeadlineErrorsKnown` follows for a clock of any
width: lwmqtt's timers are late by at most one tick, the subtractions are exact,
and for the sums there are three cases. While sum and clock have both wrapped or
neither has, they are exact; while only the sum has, every deadline is passed at
once; while only the clock has, none is.

Of `MqttKeepAlive`: `KeepAliveInv` bounds, at each place of the code, how long
the client has been silent (`Silent`), and says what a ping that is under way is
worth. `Asked`: there is one ping or one pong, never both. `InTime`: a broker
that lives answers within `Delay`, and its pong waits behind no more than
`MaxWaiting` frames, of which each call of `update()` reads one; so the pong is
read, or the callback publishes, before the keep-alive runs out again. That they
can be read in that time is the assumption; how many messages a connection
carries is left open.
`Counted`: since the broker died no more than one interval and one gap has
passed before the ping that it does not answer. From it follow
`TimeoutsAreReal`, `DeadBrokersAreNoticed` and, with no relation assumed between
the broker's patience and the interval, `BrokerKeepsTheClient`.

**`MqttSessionProofs`.** `Opening` says at which places the client believes in
its connection, and that a socket which nothing was said on is one `connect()`
has just got; `ConnectionsOpenWithConnect` follows. For `PublicationsReceived`
a publication at QoS 1 or 2 is one thing that moves: the PUBLISH, then the
PUBACK, or the PUBREC, the PUBREL and the PUBCOMP, in the two channels and the
receive buffer. `Alternating` says that on a connection opened with an empty
buffer there is at most one (`Alone`), none while no publication is waited for
(`Quiet`), and that it is still the PUBLISH of this very message (`NotYet`)
until the broker has the message. So the answer that completes a `publish()` is
its own without a comparison of packet ids. A connection that a read opened by
itself keeps `Quiet` or `Alone`, for it begins with nothing on its way. The
broker is assumed to answer as MQTT 3.1.1 asks it to.

The same argument is made twice more. `Acknowledging` is about the broker's
messages: for each packet id that the broker waits for there is at most one
packet of its exchange under way, PUBLISH, answer or PUBREL, and what the client
sends in answer is what the broker waits for. `Faithful` is the other half: there
is such a packet (`Carried`), and nothing that acknowledges is on its way before
the broker has accepted the session. `AcknowledgementsAwaited` follows: nothing
is acknowledged that is not awaited, and when everything has been read nothing is
awaited any more. On a socket that a read has reopened neither holds, for the
broker of that connection never saw a CONNECT.

`Registered` is about CONNECT, SUBSCRIBE and UNSUBSCRIBE: one request or its
answer at a time while `connect()`, `subscribe()` or `unsubscribe()` waits
(`Pending`), none otherwise (`Settled`), and an answer that grants is under way
only if the broker granted; so an answer taken without a look at its id is still
the answer to this request (`RegistrationsHold`), also when a topic that the map
of callbacks still holds is subscribed again after a reconnection. Several hundred lines are
facts about at most one packet of a kind in three channels (`OneIn`, `NoneIn`,
`InOrder`), and about what moving a packet from one channel to the next keeps.

**`LwmqttProofs`.** `FramingStaysInStep` is that the reader of packets does not
lose its place on a connection that was made, by whatever part of the client,
with nothing of an older one held; a connection that a read makes within a packet
is not one of these, and there the reader does lose it. `Stands` says where it is: what it has taken, followed by the
deque, the wire and what a closed connection will never send, are together the
packets due; in the length there was no last digit yet; in the body what is
needed is what the packet has left; while an oversized packet is skipped, what
follows is the rest of it and the packets after it. The step that needs an
argument is `ReadLength`: the bytes taken and the first packet due begin the same
sequence (`SamePrefix`), so the first digit below `Digit` is at the same place in
both (`SameDigits`), and the number it ends is the length of *this* packet
(`Measured`). What is assumed of the broker is that a packet is as long as it
says (`FramingAssumption`); a server that lies about a length is not covered.
The proof also has to know what `FlattenSeq` computes. That is no recursive
operator but a recursive function under `CHOOSE`: `Builds` describes it by its
steps, and `Induction`, proved of the naturals as a *set* from well-foundedness,
replaces the induction theorems of the library, which take an operator.

The second part is about the codec: `PacketsSurvive`, from the invariant
`ExchangeInv` that the packet under way is what an encoder made of something that
can be sent (`EncodedFrom`), is made of bytes, and has lost no more of them than
it has. That invariant is what makes the properties, which speak of one state,
facts about functions; the rest of the proof is about those, from the bytes up:

- *Numbers.* A number is its digits (`Shifted`, `Digits`) and back (`ValueIs`);
  `WriteVarnum` writes `VarnumBytes` or fails, and what it writes is read back
  whole, whatever follows (`ReadsNumber`); a number whose last digit is cut off
  is refused. `VarnumLength` is never shorter than the number (`LengthIsSafe`),
  although its bounds for three and four digits are one too low in the code.
- *Lengths.* Each encoder computes the remaining length beforehand, apart from
  what it writes. `Sized` says of a field how long it is; for the filters the sum
  of the lengths (`Total`) and the concatenation of the fields (`FlattenSeq`) are
  both recursive functions, and `TotalIs` goes through them in step, by
  `Induction`. So a packet is as long as it says (`Packs`).
- *Decoders.* A decoder succeeds exactly if its list of checks holds no error
  (`FirstError`), so `DecodesPublish` and its like only evaluate each check on a
  joined sequence. `RefusesCutPublish` and its like use the other half: what is
  left of a cut packet is an empty sequence, a header with part of a number, or
  the whole number with a body shorter than it says, and there is a check for
  each of them. For a PUBLISH, whose payload takes whatever is left, that check
  is the comparison of the remaining length with the buffer.

`ExchangeAssumption` says of the constants what the code provides: fields have
the ranges of their C types, a string has a length of 16 bits (`lwmqtt_string_t`),
`PubSubClient::connect` gives a password only together with a user name, and a
SUBACK grants something and has a length that can be announced.
`PacketsTypedAndFit` adds that no encoder writes behind the end of the buffer,
whatever its size.

**`WebSocketProofs`.** Of `WebSocketClient`: `Noted` is the strengthening
`ConnectedMeansAccepted` needs: what the client noted of an answer it saw on this
connection, and without a connection nothing is noted. It is inductive together
with the shapes of the records, `NoSocketLost` and `NeverDeaf`, for any server
and any frames; `CutInv` adds that a cut data frame is never followed by anything
else on its connection. The theorems are `ConnectedIsAccepted`,
`ClientIsNeverDeaf` and `NothingIsLeftBehind`.

`DeliveriesAreInOrder` looks at the stream from where the client is in it to what
the server has still to send. `Sent` describes such a stream as a chain, by what
may follow what: lines of an answer, after the blank one the pieces of whole
frames, and each data frame has the number after the last one's, up to
`server.data`. `Reading` says which piece the client's place in the code calls
for, and that the next data frame is the one after the last that was delivered on
this connection. Appending a frame to a stream and reading a piece of it keep
both. Assumed of the answers is that
a blank line ends them (`WebSocketAssumption`): it is how HTTP says where headers
end, and a server that went on with lines would have them taken for frames.

Of `WebSocketFrames`: `Sizes` and `Split` are facts about the two calculations of
a header's size and about the bytes of a length; `HeaderRead` decodes a header
byte by byte; `MaskTwice` is that XOR with the key undoes itself. `FramesInv`
carries the arguments of `sendFrame`, when its key is zero, and what the writes
left over still have to add. From it follow `FramesAreReadAsSent`, for every
length of 32 bits, and `TrueIsWhole`.

**`DittoTwinProofs`.** `OnlyAuthorizations` compares two counters and is not
inductive: the invariant adds the authorisations that still wait in the
downlink, as the cardinality of their places (`Waiting`), to the answers given,
and says of everything the device sends that no mapping makes an authorisation
of it. `AuthorizationsOnly` follows for any orders, losses, restarts and repeats.

Only model-checked: the liveness properties (`SupplyReturns`, `Recovers`,
`CallbackReturns`, `HandshakeEnds`, `Settles`, `CatchesUp`, `OrdersAnswered`),
since liveness under fairness and `ENABLED` are out of the prover's reach; and
the violations. Every invariant and every action property of a passing run, and
the refinement, is a theorem. No module uses a recursive operator.

## What is not modelled

- The WebSocket heartbeat, which the firmware never enables; TLS, Socket.IO,
  asynchronous TCP and the server side of the WebSocket library; the base64 and
  SHA-1 of the handshake, and its text.
- The timing of timeouts outside `MqttKeepAlive` and `MillisTimers`: elsewhere
  they may happen whenever the code can be waiting.
- Memory: an allocation that fails matters only where the code handles it
  (`NoMemory`, the copy of a payload).
- The inside of the broker, Ditto and Kafka: sessions, the retained message and
  redelivery as the firmware and the mappings use them.
- The text of messages, timestamps and logging, the fuel type (which no code
  reads), `set_capacity` and `set_fuel_type` (which no code calls), the
  constructor's overloads of the MQTT client, and the container descriptions.

## Plan

All modules of the first plan are there but the composition of `DittoTwin` with
`GasPumpDevice`; what is left, in this order:

1. A refinement from `MqttSession` to the connection as `GasPumpDevice` has it,
   with `inbox` as the buffer of whole packets; and from `LwmqttFraming` to a
   queue of packets, for which `FramingInv` is the invariant.
2. `DittoTwin` over `GasPumpDevice` instead of its coarse device.
3. Liveness of the session: every acknowledgement the client owes is sent unless
   the connection is lost.
