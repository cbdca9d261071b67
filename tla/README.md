# A verification project for AgriNetPro

AgriNetPro is the firmware of a Thread border router (ESP-IDF) and of
battery-powered sensor nodes. Nodes report over CoAP; the router keeps a table of them,
copies it to flash, publishes it over MQTT, serves it over HTTP, and stores one command
per node until the node polls for it. This directory holds TLA+ models of that code, TLC
runs over small instances, and theorems checked by TLAPS. Paths below are relative to the
repository (`src/` in `PROJECT.json`).

## 1. Inventory

| Component | State | Operations | Meets |
|---|---|---|---|
| Device registry (`app_device_registry.c`) | `s_devices`, `s_last_seen_mono`, `s_count`, `s_dirty`, `s_cmd_id_counter`, three callbacks, NVS keys `count` and `devices` | init + load, register, update, queue_cmd, pop_cmd, record_cmd_ack, sweep_offline, save_to_nvs, foreach, get, get_by_ipv6, get_all, count | everything on the router, through `s_mutex` |
| CoAP server (`app_coap_server.c`) | one task, no state of its own | register, data, cmd, cmd/ack handlers; who is it that polls | registry; nodes |
| MQTT bridge (`app_mqtt_bridge.c`) | `s_connected`, `s_client` | start, event handler, publish telemetry / status / ack, downlink | registry (both ways); broker |
| REST API (`app_rest_api.c`) | none | list, get, post cmd, status | registry |
| Router start-up (`app_br_main.c`) | sweep timer | start-up order, 30 s sweep | all of the above |
| Node main loop (`app_node_main.c`) | `s_ota_in_progress` | attach, register, read, upload, poll, execute, sleep; OTA worker | CoAP client, sleep |
| CoAP client (`app_coap_client.c`) | `s_mutex`, `s_ctx`, `s_seq_num`, `s_node_eui64` | register, send, poll_cmd, send_ack | router, over a lossy network |
| Sleep (`app_sleep.c`) | `s_mode`, dataset in NVS | configure, enter, restore | node main loop |
| Sensor HAL and drivers | `s_last`, ADC handle | read, last reading, battery | node main loop |
| Dashboard (`ThreadMonitorDashboard.jsx`) | component state | poll every 5 s, send command | REST API |

What makes each of them right, and what is hard:

* **Registry.** No node twice in the table; a power cut at any point between two flash
  writes leaves an image that loads; a registration answered 2.01 is not forgotten; a
  command is given once and the latest one is not lost; an acknowledgement names one
  command (it does not, section 3); the sweep neither misses a silent node nor blames one that reports while it
  waits for the mutex. Hard: four tasks, and `save_to_nvs` giving the mutex back in the
  middle; flash writes that fail or are cut off; `s_dirty` set and cleared at different times.
* **Bridge.** No task waits for the MQTT library's lock with the registry's mutex while
  the library's own task waits for the mutex; what the broker retains is current. Hard: the event
  handler runs under the library's lock and walks the registry, while callbacks of the
  registry publish from two other tasks.
* **Downlink** (REST and MQTT, registry, CoAP server, client, node loop). A command is
  executed at most once, by its own node, never with another's payload, and confirmed only
  after that; an undisturbed one is executed and confirmed. Hard: the slot is emptied before anybody
  knows that the answer arrives; polls are lost, repeated and answered late; a node is
  recognised by query, by address or not at all; the node restarts anywhere.
* **Uplink** (drivers, node loop, client, registry, REST, page). What arrives unmarked was
  measured; the page never shows a simulation as live and in the end shows the data of the router
  whose address it holds. Hard: noise that passes a checksum, floats that are
  truncated, telemetry that nobody confirms, fetches that overlap.
* **Node.** No deep sleep during an update; every command confirmed; the loop never
  stops. Hard: a worker task and the main loop share one flag and one mutex; restart and deep
  sleep end both at any point; requests and answers get lost.

Every hazard, with its line and the properties aimed at it, is in `PROJECT.json`.

## 2. Modules

| Module | Models | Uses |
|---|---|---|
| `DurableRegistry` | abstract promise: which nodes are known, which survive any power cut | |
| `DeviceRegistry` | the registry, its tasks, its NVS images | instantiates `DurableRegistry`, `CommandSlot` |
| `DeviceRegistryProofs` | types, restorable images, unique nodes; commands on a router that stays powered, the letter box | extends `DeviceRegistry` |
| `DeviceRegistryDurability` | the registry implements its promise; registrations survive; no false offline | extends `DeviceRegistryProofs` |
| `MqttBridge` | bridge, library task, broker; the locks of three tasks | |
| `MqttBridgeProofs` | types, lock order, what the broker retains | extends `MqttBridge` |
| `NodeOta` | node loop, OTA workers, client mutex, sleep | |
| `NodeOtaProofs` | types, the guard against sleep, no update forgotten | extends `NodeOta` |
| `CommandSlot` | abstract promise of the downlink: a letter box per node | |
| `CommandSlotProofs` | the letter box delivers at most once | extends `CommandSlot` |
| `CommandPipeline` | REST and MQTT requests, registry slot, CoAP server, network, client, node loop: composed | instantiates `CommandSlot` |
| `CommandPipelineProofs` | types, the downlink implements the letter box, payloads, nothing vanishes, registrations kept | extends `CommandPipeline`, instantiates `CommandSlotProofs` |
| `SensorHal` | both drivers and the conversion to the payload, as functions of bytes | |
| `SensorHalProofs` | what noise the checks detect, what truncation loses | extends `SensorHal` |
| `Telemetry` | a reading from the sensor to the registry's entry | extends `SensorHal` |
| `Dashboard` | the page over the REST API | extends `Telemetry` (composition) |
| `DashboardProofs` | types of the path, unmarked is measured, live is real | extends `Dashboard`, `SensorHalProofs` |
| `MCDeviceRegistry`, `MCMqttBridge`, `MCNodeOta`, `MCCommandPipeline`, `MCDashboard` | symmetry sets, addresses and samples for TLC | |

Definitions called "Mutant of X" stand before X: each is X with a plausible mistake, and
shows that a property notices it. No specification uses them.

### DeviceRegistry

A critical section of `s_mutex` is one step, since nothing in it can be observed from
outside. `save_to_nvs` is the exception: the count and the blob are two flash writes under one
mutex, then commit and `s_dirty = false` without it, so it has four steps, each with its
failure (`SaveCount`, `SaveBlob`, `SaveCommit`, `SaveClear`, `SaveCountFails`,
`SaveBlobFails`). `Register` and `Update` are the two handlers that create entries; a
registration goes on to save before it is answered (`Return` records it in `created`).
`SweepStart` reads the clock and only then does `SweepMark` wait for the mutex;
`SweepCheck` looks at `s_dirty` after the callbacks.

NVS is modelled from how it is used: a write reaches the flash when it does, in order, at
the latest at commit. `written` is what the calls have set; `flash` is the set of images
a power cut could leave. `Crash` picks one and clears RAM; `Boot` is init and load. A blob
longer than the count allows makes the load fail (`Loads`), as `nvs_get_blob` does with a
short buffer.

Abstracted: readings (a report counter stands for them), IPv6 addresses, intervals, and
the text of acknowledgements, and a request of type `CMD_NONE`, which only withdraws
what waits (`CommandPipeline` has it as `PostBlank`). `created`, `heard`, `tickets` and `handed` are history; a ticket
is a command with its node, its id, and the commands asked for before it.

For commands the registry is one letter box per node (`KeepsBox`, the refinement of `CommandSlot`):
the box is `cmd` of the node's entry, moving is what has been handed over. This is what
`CommandPipeline` relies on when it takes a registry operation as one step of a router without
tasks.

### MqttBridge

Here the registry's contents are reduced to known and online, and mutex and library lock
are taken step by step. `Serve` .. `CoapPublish` is a request up to its publication,
`SweepLock` .. `SweepEnd` the sweep with one callback per node, `Connected` ..
`ForeachEnd` the event handler, `Downlink` a command from the cloud. Reading
`s_connected` and publishing are separate steps, as in the code. The broker keeps the last
retained status per node (`Deliver`); what is published in a connection that breaks may
be kept for the next or lost. From esp-mqtt the model assumes that its API lock is held
while an event is dispatched, that it is recursive, and that messages leave in order.

### NodeOta

`pc` tells where the sensor task and each worker are. At a label of `Requesting` a task
waits for the client's mutex or, once it holds it, is inside `coap_send_request`;
`Confirmable` ends the request in one of three ways: lost, arrived but unanswered within
6 s, answered. Telemetry is not confirmable and counts as sent either way. `Poll` pops a
command when the request arrives, whether or not the answer does. `Handle` is
`handle_command` up to its acknowledgement, `Ack` the acknowledgement and what follows,
`CreateWorker`/`CreateFails` the launch. `Decide` is the choice between waiting, light
sleep and deep sleep, and `DeepSleep` a separate step, since workers run in between.
`Reset` is what deep sleep and restart do to RAM. The constant `Overlapping` says whether
a second update may be sent while the first is executed; `Deep` is the build's sleep mode.

Abstracted: readings, the LED, the dataset that deep sleep stores (it only shortens the
next attach), sequence numbers.

### CommandPipeline

The composition of everything a command passes through. `PostCmd` and `Downlink` are the two
ways into the registry's slot (`Queued` is `queue_cmd`), open to every command; the first
frees the payload before it is copied, and queues it or anything else (`Junk`, with the
history variable `spoiled`); `PostBlank` the POST without a
command; `ServeRegister`, `ServeData`, `ServeGet` and `ServeAck` are the four CoAP handlers
with the registry operations they call; `Boot` .. `Acknowledged` is the sensor task, each
request split into sending it and what ends it. A request is `open` while its sender waits in
`coap_send_request`; `Close` is `coap_session_release`, after which a request may
still be served but no answer is heard. `TimesOut` is the six seconds of a confirmable
request, `Reset` anything that restarts a node. Handlers of a node's polls do what the
code does to find out who asks (`Asked`), and an answer without data leaves the node's
buffer unwritten (`Copied`). Telemetry is there because it creates and moves entries.

`CommandSlot` promises less than a queue and more than nothing: a letter box whose command
may be replaced, withdrawn or lost, and is executed at most once, by its own node. The
mapping takes the slot as the box, a command in an answer or in the node's hands as moving.

`excused` and `missed` are history: which commands and registrations a mishap has hit. The
two liveness properties are about the others.

Abstracted: ids (`DeviceRegistry` has them), parameters, workers of an update (`NodeOta`), the
length of the table, power cuts of the router.

### SensorHal, Telemetry, Dashboard

`SensorHal` translates what the drivers do to bytes: `Dht22Valid`, `Dht22Decode`, `Crc8`,
`Sht31Valid`, `Sht31Decode`, and `FloatToRaw`, single precision with its rounding and the
cast that truncates. The reference definition is the measured value: a frame is made from it,
noise turns bits over (`Received`, a byte
being the set of its bits' weights, so that XOR is the symmetric difference), and what is accepted is compared with it. `Telemetry`
takes readings and sends them: `TakeReading` falls back to `s_last`, `SendReading` and
`SendFails` are the attempts to send, `Arrive` is the registry's update, and `Restart` is
whatever restarts a node, in any phase and either sleep mode.
`Dashboard` composes this with the page: `Refresh` and `ChangeUrl` start a fetch,
`Answered` .. `Finish` are the points of `fetchData` between which other callbacks run or the
page is drawn. At the other address there may be another router, whose nodes are then shown, or
nothing.

Abstracted: the sequence number of a report (no modelled part reads it), bit timing and bus errors (a read that fails), battery and signal strength, what
the page keeps besides nodes and its label.

## 3. Runs

Bounds are constants of each `.cfg`; a bound only limits how often the environment acts
(reports, requests, connections, losses, power cuts, clock ticks).

| Run | Shows |
|---|---|
| `registry_restart` | `TypeOK`, `UniqueEuis`, `ImageRestorable`, `CreatedSurvives`, `NoFalseOffline`, and `KeepsPromise`, the refinement of `DurableRegistry`: three nodes, a table of two, two ticks, two power cuts |
| `registry_commands` | `HandedOnce`, `LatestRequestKept`, and `KeepsBox`, the refinement of `CommandSlot`: three commands for two nodes, two ids, which wrap, no power cut |
| `registry_liveness` | `SilentGoesOffline`, `TasksReturn` with failing NVS |
| `bridge_status` | `TypeOK`, `NoDeadlyEmbrace`, `OfflineRetained`, `OfflineReachesBroker`, `TasksReturn` |
| `ota_guard` | `TypeOK`, `NoSleepDuringOta`, `TelemetryTellsOta`, `ReportsForever`: two updates one after the other, a refused one, a reboot, failing allocations, two losses, deep sleep |
| `ota_confirmed` | `UpdatesAccounted`, `GuardMeansOta`, `UpdatesConfirmed` with light sleep and no loss, two updates, a refused one and another command: no update is forgotten on its way through the node's tasks, each ends at the router, and nothing else keeps the node awake |
| `pipeline_delivery` | `TypeOK`, `PayloadStays`, `NothingVanishes`, `RegistrationKept`, `CommandsConfirmed`, `RegistrationLands`, and `ImplementsSlot`, the refinement of `CommandSlot`: two nodes, an update with its URL and a reboot, each over HTTP or MQTT, and one mishap, which may be a timeout, a restart, a repeated request, a new address or a blank POST |
| `telemetry_path` | `PathTypeOK`, `UnmarkedIsMeasured`, `LiveIsReal`, `CatchesUp`: two readings of either sensor with every noise of one bit (DHT22) or two (SHT31), any loss, one report repeated, attempt failed or restart, two fetches that overlap, one failure, an address that changes to another router's and back |

Why the bounds are enough. Registry: the hazards are about one node against another, one
slot against a full table, and one save against one other task; three nodes and two slots give
a full table with a node refused, and two power cuts let a restart meet an image that
itself came out of a restart. Three commands for two nodes give an overwritten command,
and with two ids the third has the id of the first. Clock: the TTL is one tick, so
that "exactly the TTL" and "one more" both occur within the two or three ticks allowed. Bridge: the race is between one loop
over the nodes, one sweep and one reconnection; two nodes, of which one may be restored
from flash, and two connections contain it. Node: two workers are the least number that can disturb each other; two
losses allow a lost request followed by a lost answer, and a request that
fails as often as `COAP_MAX_RETRIES` (2 in the runs) allows. `ReportsForever` also holds when the two
updates overlap (220 307 states). Downlink: two nodes can take each
other's command, two commands replace each other or run into each other's payload, and a
third address is free to move to; the safety properties also hold with two mishaps (7 599 219 states, too long for a
run of the project with the liveness properties), and the theorems hold for any number.
Uplink: one reading overtakes another, two fetches overtake each other; the samples are a
temperature below zero with values that single precision does not hit, and a word with both bytes in
use; two changes of address bring the page back while a fetch to the other router is under way.
With two mishaps, two attempts and one change of address (4 767 762 states) nothing else is found.
Symmetry is used only in runs without temporal properties of liveness.

### Disagreements between the code and its documents

Each of these runs checks one property a document or comment states, and TLC finds it violated:

| Run | What happens |
|---|---|
| `registry_lost_update` | a report recorded between the blob's write and `s_dirty = false` is not saved (`CleanMeansSaved`) |
| `bridge_stale_online` | a node that comes online is not announced (`StatusCurrent`) |
| `registry_reused_id` | after a power cut the counter of command ids starts at 0, and a node is handed two commands with one id (`AckIdsDistinct`) |
| `ota_second_update` | a second update that fails lowers the guard of the first, and the node sleeps during the download (`NoSleepDuringOta`) |

Some limits of the code are conditions of passing runs; lifting the condition shows them:

* `registry_restart` with `NvsMayFail = TRUE` violates `CreatedSurvives`: a registration
  whose save failed is answered 2.01, is not marked dirty and is gone after a power cut.
* `registry_commands` with `MaxCrashes = 1` violates each of its invariants: a command that
  was only queued in RAM is lost, and one that was saved, popped and restored is handed out
  again.
* `ota_confirmed` with `MaxLosses = 1` violates `UpdatesConfirmed`: `send_ack` is tried
  once and its result is ignored. With `Deep = TRUE` it does too: a failed
  update lowers the guard before it is acknowledged (`app_node_main.c:132-133`), and deep
  sleep can end the worker in between. `UpdatesAccounted`, which says "as long as nothing was
  lost" itself, is violated with `Deep = TRUE`, with `Overlapping = TRUE` and with a reboot among the
  commands (a restart ends a worker before its acknowledgement), and with
  `MemoryMayFail = TRUE` (success acknowledged, no worker).
* `ota_confirmed` with `MemoryMayFail = TRUE` also violates `GuardMeansOta`: the result of `xTaskCreate` is
  ignored (`app_node_main.c:176`) and the guard stays up without a worker.
* `pipeline_delivery` with `ByQuery = {n1}` and `Movable = {n2}` violates `ImplementsSlot`: a node
  that does not name itself and has a new address is answered 4.00 without data, and
  executes what is in its buffer. The nodes in the repository name themselves.
* `PayloadStays` asks for what `queue_cmd` was given. Over HTTP that need not be what was sent:
  `handler_post_cmd` frees the body before the payload is copied (`app_rest_api.c:174-178`), and
  `pipeline_delivery` goes through states in which an update is executed with `Junk` for its
  URL. It is the way the repository's `README.md:279-295` and the page's update form send one.
* `pipeline_delivery` with `SessionsLinger = TRUE` violates `ImplementsSlot`: if libcoap keeps a
  released session while it retransmits, the answer to a request that timed out ends the next.
* `telemetry_path` with `Dht22Flips = 2` violates `PathTypeOK`: two flipped bits pass an
  8-bit sum, and the temperature no longer fits the payload's `int16_t`. With `Sht31Flips = 3`
  no noise passes the CRC-8.

Other things the models do because the code does, and no property forbids: a POST without a
command erases the one that waits and is answered "queued"; a registration that
times out is not repeated, although the log says "will retry next cycle"
(`app_node_main.c:206`); telemetry counts as sent as soon as it is handed to the network,
although `app_coap_client.h:51` says "acknowledged delivery"; `s_seq_num` starts at 0 after every
restart and deep sleep and wraps at 16 bits, although `app_protocol.h:87` calls it "Monotonic
sequence number per node" (the models leave it out, since only the bridge reads it, to pass it on); 20.3 degrees arrive as 20.29, as 69
others of the 1001 tenths from 0 to 100 are one hundredth low.

## 4. Fairness

* Registry: `Tick` and `Boot` weakly fair (time passes, a powered router boots). The
  sweep and started saves are strongly fair: the 30 s timer is periodic, and a task
  waiting for a FreeRTOS mutex gets it in the pauses of the others, although at each
  moment the mutex may be taken. No fairness for nodes or operators.
* Bridge: every task that has begun goes on (strongly, because of the two locks) and
  the broker receives what is sent while the connection lasts. Requests, sweeps and
  connections owe nothing. `OfflineReachesBroker` therefore ends when the connection does.
* Node: the sensor task and the workers are weakly fair (the scheduler, an attach that
  succeeds in the end, an HTTP client with a 30 s timeout), taking the mutex strongly
  fair (FreeRTOS hands it to the waiting task of highest priority, and every request
  ends within 6 s). Losses are bounded by `MaxLosses`; no property relies on delivery
  except where a run sets it to 0.

* Downlink: a node's task goes on, and a request that somebody waits for is served (both
  weakly fair): a request that gets no answer is the mishap `TimesOut`, which is counted
  and never fair. Requests of operators and telemetry owe nothing.
* Page: the timer fires (`setInterval`), and a fetch that has begun ends: headers within three seconds
  (`AbortController`), the body when the connection does. Nothing is assumed of the node
  or of deliveries, nor of the change of address.

## 5. Proofs

All theorems hold for any sets of nodes, commands and workers and any bounds; they
assume only the named assumptions of the modules (`IdentityAssumption`,
`SizeAssumption`, `BoundAssumption`, `WorkerAssumption`, `CommandAssumption`, `SwitchAssumption`, `NodeAssumption`, `NamesAssumption`,
`SampleAssumption`, `TelemetryAssumption`, `DashboardAssumption`) and what the theorem's own ASSUME says.

* `TypeCorrect`: `TypeOK` is inductive. One lemma per operation, over lemmas on
  entries and slots (`EntryFields`, `AtType`, `TouchType`).
* `AlwaysRestorable`, `AlwaysUnique`: neither is inductive. `IInv` adds that every image
  in `flash` is a prefix of the table in identity and label, at most as long as its count
  (`ImagesSound`); that a task between the two writes holds the mutex and has written
  the current count (`SaveHoldsMutex`) - without it the table could grow before the blob
  is written; and that a router without power has one image and no tasks (`PowerOff`).
* `Implements`: with `Known` and `Durable` read off table and flash, each step is `Learn`,
  `Persist`, `PowerCut` or a stutter. `Known` never shrinks except by a power cut, and
  `Durable` never shrinks at all, which is where `ImagesSound` is needed.
* `CreatedNeverLost` assumes `~NvsMayFail`: without it a failed save
  is a counterexample (section 3). Its invariant follows a registration through the save: in the table
  from the first step, in `written` from the blob on, in every image after the commit.
* `OfflineIsSilent`: `now_us` is never ahead of `clock`, and an online entry's time stamp is when its
  node was heard, so a report between reading the clock and marking only makes the
  difference smaller.
* `SleepsAfterOta`, `OtaIsTold` assume `~Overlapping`: without it `ota_second_update` is a
  counterexample to the first. The invariant says that at most one worker lives
  (`Alone`), that from reception to launch an update has the node for itself
  (`Received`), and that the guard is up from the acknowledgement to the worker's end
  (`Launching`, `Guarded`).

* `HandedOver`, `LatestKept` assume `MaxCrashes = 0`: the counterexamples without are in section 3.
  `CmdInv` says where a command is: it has one ticket, and in a slot it has not been handed
  over. Neither depends on ids.
* `ImplementsBox` assumes `MaxCrashes = 0` (a power cut brings back a command that was handed over).
  Each step is `Offer` (`QueueBox`), `HandOver` (`PopBox`) or a stutter (`StayBox`):
  `UniqueEuis` makes the slot `pop_cmd` finds the only one of its node, and `CmdInv`
  says that its command was offered to that node and has never been handed over.
* `AwakeForOta` assumes `~Overlapping`, `~MemoryMayFail` and that there is a worker; its invariant
  `Held` names, for each place of the sensor task, who will lower the guard. `NodeTypes` assumes
  nothing. `UpdatesKept` assumes what section 3 shows to be needed: light sleep, one update at
  a time, memory for the worker, no reboot. Its invariant `AccountInv` adds that the sensor
  task itself never restarts the node or sleeps deeply, and that an update whose first
  acknowledgement has been sent is the one the worker is created for.
* `BridgeTypes`, `NoEmbrace`: `TypeInv` says where each task can be; the lock order follows,
  since no place is in both critical sections in the wrong order. `OfflineIsTold`: for each
  offline node the invariant `Owed` names who has announced it or still has to (`Told`): the broker, a
  message on its way, the sweep that found it, or the loop over all nodes.
* `DeliversAtMostOnce`: each command of the letter box is sent to one node and is in one
  place, its box, its way or the node's list.
* `PipelineImplementsSlot`, `PayloadsKept` assume that every node is in `ByQuery` and that
  sessions do not linger. `Fit` says that
  open requests and answers belong to the place their node is at, so that what a node finds in
  its buffer came out of its own slot. `Sent` says that a command has the payload `queue_cmd` was given in
  the slot, in an answer and in the node's hands. `ExecutedAtMostOnce` combines the refinement with the
  letter box's theorem.
* `NothingLost`, `RegistrationsKept` assume the same of nodes and sessions. `Traced` ties the
  history to the slot, the network and the node: what a node holds was offered to it, and a
  node that acknowledges waits for no other answer than the one the router gave after recording.
  `Labelling` adds to `RegistrationKept` that an answer that ends a registration comes from the
  handler that sets the label. Both hold for any number of mishaps.
* `LiveNeverSimulated`: between two setters of one callback no other runs (`PageInv`).
* `Sht31Undetected`, `Dht22Undetected`, `FloatToRawNear`, `ReadsGood` are about the drivers' functions, for every
  frame and sample: the CRC is linear over the symmetric difference, so what passes depends on
  the turned bits alone and not on the word, and no one to three of a word and its CRC pass; the
  byte sum notices any single bit. Rounding and the cast that truncates lose at most one hundredth.
* `PathTypes`, `UnmarkedMeasured` assume `Dht22Flips <= 1` and `Sht31Flips <= 3`, the first being
  necessary (section 3). `MeasuredInv` follows a reading from the driver over `s_last`, the
  network and the registry's entry.

Every invariant and refinement of the passing runs is stated by a theorem. Only
model-checked are the liveness properties `SilentGoesOffline`, `TasksReturn` (registry and bridge),
`OfflineReachesBroker`, `UpdatesConfirmed`, `ReportsForever`, `CommandsConfirmed`, `RegistrationLands` and
`CatchesUp`: fairness and ENABLED are beyond the prover. Of three of them a theorem has
the safety part: `UpdatesKept`, `NothingLost` and `RegistrationsKept` say that nothing is lost on the way, the
runs that it also arrives. Bytes are sets of weights and sums are written out, so that no proof
needs induction over data; no operator of the project is declared RECURSIVE.

## 6. Not modelled, and the plan

Not modelled: JSON, topics and packed layouts; Wi-Fi, Thread and DTLS set-up, and the
start-up steps whose failure restarts the router; the erasure of a full NVS; the Thread dataset that deep sleep saves
(`app_sleep.c:115-150`: its errors are ignored, and without it a node joins as on its first boot);
bit timing of the sensors and the battery; the page's command form and history; the build configuration. Matching of
paths is left to the libraries: the models assume that libcoap routes a path given in one
option, and that the HTTP server finds `handler_post_cmd` (its template has a wildcard in the
middle, which `httpd_uri_match_wildcard` compares literally; `app_rest_api.c:247`). The
reasons are in `PROJECT.json`.

What is left, in this order:

1. `SleepDataset`: dataset saved at deep sleep, restored at wake-up, with power cuts and
   ignored errors.
2. `Startup`: the order in which services start, failures that restart the router, requests
   that come in between.
3. The full table and power cuts of the router in `CommandPipeline`, so that a command can
   be restored while its copy is on its way.

## 7. Running

`tlc -config registry_restart.cfg MCDeviceRegistry.tla` checks a run (its module and
properties are in `PROJECT.json`); `tlapm DeviceRegistryProofs.tla` checks the proofs of
a module.
