---------------------------- MODULE DeviceRegistry ----------------------------
(***************************************************************************)
(* The border router's device registry (app_device_registry.c): the table  *)
(* of sensor nodes, the one pending command of each, the offline sweep and *)
(* the copy of the table in NVS flash.                                     *)
(*                                                                         *)
(* Four tasks call it.  "coap" is the CoAP server, which serves one        *)
(* request at a time; "timer" is the FreeRTOS timer task that sweeps; the  *)
(* HTTP server and the MQTT client queue commands in one critical section. *)
(* A critical section of s_mutex is one step, except the one of            *)
(* save_to_nvs, which spans two flash writes a power cut may separate.     *)
(***************************************************************************)
EXTENDS Integers

CONSTANTS
  Euis,        \* EUI-64 identities of the nodes
  NoEui,       \* eui64 of a zeroed entry
  Requests,    \* the commands operators ask for, each asked for once
  CmdNone,     \* CMD_NONE: no command is pending
  MaxNodes,    \* DEVICE_REGISTRY_MAX_NODES (32)
  OnlineTtl,   \* DEVICE_ONLINE_TTL_S (120 s), in clock ticks
  CmdIdMod,    \* s_cmd_id_counter is a uint8_t (256)
  NvsMayFail,  \* whether an NVS call may return an error
  MaxReports,  \* bound: telemetry reports per node
  MaxClock,    \* bound: ticks of the monotonic clock
  MaxCrashes   \* bound: power cuts

ASSUME IdentityAssumption == NoEui \notin Euis /\ CmdNone \notin Requests
ASSUME SizeAssumption ==
  /\ MaxNodes \in Nat \ {0} /\ CmdIdMod \in Nat \ {0} /\ OnlineTtl \in Nat
  /\ NvsMayFail \in BOOLEAN
ASSUME BoundAssumption == MaxReports \in Nat /\ MaxClock \in Nat /\ MaxCrashes \in Nat

VARIABLES
  s_devices,         \* the table
  s_last_seen_mono,  \* when each slot was last heard (esp_timer_get_time)
  s_count,           \* slots in use
  s_mutex,           \* the task inside save_to_nvs' critical section, or "free"
  s_dirty,           \* the table has changes the sweep must save
  s_cmd_id_counter,  \* the last command id given
  pc,                \* where each of the two multi-step tasks is
  registrant,        \* reg->eui64 of the registration being served
  now_us,            \* the sweep's clock reading
  clock,             \* esp_timer_get_time
  up, crashes,       \* powered; power cuts so far
  written,           \* NVS contents as the calls so far have set them
  flash,             \* the NVS contents a power cut could leave
  created,           \* history: nodes answered 2.01 Created
  heard,             \* history: when each node last got through
  tickets,           \* history: commands queued, the id each was given, and those before it
  handed             \* history: how often each node was handed each command

table == <<s_devices, s_last_seen_mono, s_count>>
nvs   == <<written, flash>>
power == <<up, crashes>>
tasks == <<s_mutex, pc, registrant, now_us>>
cmds  == <<s_cmd_id_counter, tickets, handed>>
vars  == <<table, nvs, power, tasks, cmds, s_dirty, clock, created, heard>>

Tasks == {"coap", "timer"}
Slots == 1..MaxNodes
Ids   == 0..CmdIdMod - 1
Cmds  == Requests \cup {CmdNone}

Entry == [eui : Euis \cup {NoEui}, label : {"", "auto", "registered"},
          online : BOOLEAN, reports : 0..MaxReports,
          cmd : Cmds, cmd_id : Ids, ack : Ids]

ZeroEntry == [eui |-> NoEui, label |-> "", online |-> FALSE, reports |-> 0,
              cmd |-> CmdNone, cmd_id |-> 0, ack |-> 0]

ZeroTable == [i \in Slots |-> ZeroEntry]

\* The two keys of the app_reg namespace; the blob is blob_len entries long.
Image == [count : 0..MaxNodes, blob_len : 0..MaxNodes, blob : [Slots -> Entry]]

BlankImage == [count |-> 0, blob_len |-> 0, blob |-> ZeroTable]

------------------------------------------------------------------------------
(* Lookup and allocation.                                                  *)

\* Mutant of Find: the loop stops one slot short.
FindSkipsLast(e) == {i \in 1..s_count - 1 : s_devices[i].eui = e}

\* find_by_eui64: the slots of node e.
Find(e) == {i \in 1..s_count : s_devices[i].eui = e}

\* Mutant of SlotFor: s_count > DEVICE_REGISTRY_MAX_NODES as the capacity test.
SlotForPastEnd(e) == IF Find(e) # {} THEN Find(e) ELSE {s_count + 1} \cap 1..MaxNodes + 1

\* find_by_eui64, else alloc_entry; empty when the table is full.
SlotFor(e) == IF Find(e) # {} THEN Find(e) ELSE {s_count + 1} \cap Slots

\* Mutant of At: a known node's entry is cleared like a new one.
AtCleared(i, e) == [ZeroEntry EXCEPT !.eui = e]

\* The entry at slot i as alloc_entry or find_by_eui64 returns it.
At(i, e) == IF i <= s_count THEN s_devices[i] ELSE [ZeroEntry EXCEPT !.eui = e]

\* Mutant of Touch: only a new slot gets a time stamp.
TouchNewOnly(i, e, entry) ==
  /\ s_devices' = [s_devices EXCEPT ![i] = [entry EXCEPT !.online = TRUE]]
  /\ s_last_seen_mono' = IF i <= s_count THEN s_last_seen_mono
                                         ELSE [s_last_seen_mono EXCEPT ![i] = clock]
  /\ s_count' = IF i <= s_count THEN s_count ELSE i
  /\ heard' = [heard EXCEPT ![e] = clock]

\* Node e got through and its entry at slot i becomes entry.
Touch(i, e, entry) ==
  /\ s_devices' = [s_devices EXCEPT ![i] = [entry EXCEPT !.online = TRUE]]
  /\ s_last_seen_mono' = [s_last_seen_mono EXCEPT ![i] = clock]
  /\ s_count' = IF i <= s_count THEN s_count ELSE i
  /\ heard' = [heard EXCEPT ![e] = clock]

\* A task can enter a critical section; the CoAP server can take a request.
Unlocked == up /\ s_mutex = "free"
Serving  == Unlocked /\ pc["coap"] = "idle"

------------------------------------------------------------------------------
(* Power-up of a router that has never run: the first boot.                *)

Init ==
  /\ s_devices = ZeroTable /\ s_last_seen_mono = [i \in Slots |-> 0] /\ s_count = 0
  /\ s_mutex = "free" /\ pc = [t \in Tasks |-> "idle"]
  /\ registrant = NoEui /\ now_us = 0
  /\ s_dirty = FALSE /\ s_cmd_id_counter = 0 /\ clock = 0
  /\ up = TRUE /\ crashes = 0
  /\ written = BlankImage /\ flash = {BlankImage}
  /\ created = {} /\ heard = [e \in Euis |-> 0]
  /\ tickets = {} /\ handed = [p \in Euis \X Requests |-> 0]

------------------------------------------------------------------------------
(* Requests the CoAP server serves.                                        *)

\* POST /sensor/register; the caller then saves.
Register(e) ==
  /\ Serving
  /\ \E i \in SlotFor(e) : Touch(i, e, [At(i, e) EXCEPT !.label = "registered"])
  /\ registrant' = e
  /\ pc' = [pc EXCEPT !["coap"] = "save"]
  /\ UNCHANGED <<s_mutex, now_us, nvs, power, cmds, s_dirty, clock, created>>

\* POST /sensor/data: an unknown node is registered with a made-up label.
Update(e) ==
  /\ Serving
  /\ \E i \in SlotFor(e) :
       LET entry == At(i, e) IN
         /\ entry.reports < MaxReports
         /\ Touch(i, e, [entry EXCEPT !.reports = @ + 1,
                                      !.label = IF i <= s_count THEN @ ELSE "auto"])
  /\ s_dirty' = TRUE
  /\ UNCHANGED <<tasks, nvs, power, cmds, clock, created>>

\* Mutant of PopCmd: the command stays pending.
PopCmdKeeps(e) ==
  /\ Serving
  /\ \E i \in Find(e) :
       /\ s_devices[i].cmd # CmdNone
       /\ handed' = [handed EXCEPT ![<<e, s_devices[i].cmd>>] = @ + 1]
  /\ UNCHANGED <<table, tasks, nvs, power, s_cmd_id_counter, tickets, s_dirty, clock,
                 created, heard>>

\* GET /cmd: the node gets the pending command, which is cleared.
PopCmd(e) ==
  /\ Serving
  /\ \E i \in Find(e) :
       /\ s_devices[i].cmd # CmdNone
       /\ s_devices' = [s_devices EXCEPT ![i].cmd = CmdNone, ![i].cmd_id = 0]
       /\ handed' = [handed EXCEPT ![<<e, s_devices[i].cmd>>] = @ + 1]
  /\ UNCHANGED <<s_last_seen_mono, s_count, tasks, nvs, power, s_cmd_id_counter,
                 tickets, s_dirty, clock, created, heard>>

\* POST /cmd/ack: a node reports on a command it was handed.
RecordAck(e) ==
  /\ Serving
  /\ \E i \in Find(e) : \E k \in tickets :
       /\ k.eui = e /\ handed[<<e, k.cmd>>] > 0
       /\ s_devices' = [s_devices EXCEPT ![i].ack = k.id]
  /\ s_dirty' = TRUE
  /\ UNCHANGED <<s_last_seen_mono, s_count, tasks, nvs, power, cmds, clock, created, heard>>

\* The ticket of a command that is queued now.
Ticket(e, c, n) == [cmd |-> c, eui |-> e, id |-> n, before |-> {k.cmd : k \in tickets}]

\* Mutant of QueueCmd: the command is written to the first slot.
QueueCmdFirstSlot(e, c) ==
  /\ Unlocked
  /\ \A k \in tickets : k.cmd # c
  /\ s_cmd_id_counter' = (s_cmd_id_counter + 1) % CmdIdMod
  /\ Find(e) # {}
  /\ s_devices' = [s_devices EXCEPT ![1].cmd = c, ![1].cmd_id = s_cmd_id_counter']
  /\ tickets' = tickets \cup {Ticket(e, c, s_cmd_id_counter')}
  /\ UNCHANGED <<s_last_seen_mono, s_count, tasks, nvs, power, handed, s_dirty,
                 clock, created, heard>>

\* POST /nodes/<eui>/cmd and the MQTT downlink: one slot, the last request wins.
QueueCmd(e, c) ==
  /\ Unlocked
  /\ \A k \in tickets : k.cmd # c
  /\ s_cmd_id_counter' = (s_cmd_id_counter + 1) % CmdIdMod
  /\ \E i \in Find(e) :
       s_devices' = [s_devices EXCEPT ![i].cmd = c, ![i].cmd_id = s_cmd_id_counter']
  /\ tickets' = tickets \cup {Ticket(e, c, s_cmd_id_counter')}
  /\ UNCHANGED <<s_last_seen_mono, s_count, tasks, nvs, power, handed, s_dirty,
                 clock, created, heard>>

------------------------------------------------------------------------------
(* The periodic sweep.                                                     *)

\* The clock is read before the mutex is taken.
SweepStart ==
  /\ up /\ pc["timer"] = "idle"
  /\ now_us' = clock
  /\ pc' = [pc EXCEPT !["timer"] = "mark"]
  /\ UNCHANGED <<table, nvs, power, s_mutex, registrant, cmds, s_dirty, clock, created, heard>>

\* Mutant of Expired: the loop stops one slot short.
ExpiredSkipsLast == {i \in 1..s_count - 1 : /\ s_devices[i].online
                                            /\ now_us - s_last_seen_mono[i] > OnlineTtl}

\* The slots the sweep finds silent for longer than the TTL.
Expired == {i \in 1..s_count : /\ s_devices[i].online
                               /\ now_us - s_last_seen_mono[i] > OnlineTtl}

SweepMark ==
  /\ Unlocked /\ pc["timer"] = "mark"
  /\ s_devices' = [i \in Slots |-> IF i \in Expired THEN [s_devices[i] EXCEPT !.online = FALSE]
                                                    ELSE s_devices[i]]
  /\ pc' = [pc EXCEPT !["timer"] = "check"]
  /\ UNCHANGED <<s_last_seen_mono, s_count, nvs, power, s_mutex, registrant, now_us, cmds,
                 s_dirty, clock, created, heard>>

\* After the callbacks, outside the mutex.
SweepCheck ==
  /\ up /\ pc["timer"] = "check"
  /\ pc' = [pc EXCEPT !["timer"] = IF s_dirty THEN "save" ELSE "idle"]
  /\ UNCHANGED <<table, nvs, power, s_mutex, registrant, now_us, cmds, s_dirty, clock,
                 created, heard>>

------------------------------------------------------------------------------
(* save_to_nvs, called by a registration and by the sweep.                 *)

\* Mutant of Return: the sweep saves again until the table is clean.
ReturnRetries(t) ==
  /\ pc' = [pc EXCEPT ![t] = IF t = "timer" THEN "check" ELSE "idle"]
  /\ registrant' = IF t = "coap" THEN NoEui ELSE registrant
  /\ created' = IF t = "coap" THEN created \cup {registrant} ELSE created

\* Task t returns from save_to_nvs; a registration is answered 2.01 either way.
Return(t) ==
  /\ pc' = [pc EXCEPT ![t] = "idle"]
  /\ registrant' = IF t = "coap" THEN NoEui ELSE registrant
  /\ created' = IF t = "coap" THEN created \cup {registrant} ELSE created

\* An NVS call sets the contents to img: a power cut may find it there.
Put(img) == written' = img /\ flash' = flash \cup {img}

\* Mutant of SaveCount: the mutex is given up between the count and the blob.
SaveCountUnlocked(t) ==
  /\ Unlocked /\ pc[t] = "save"
  /\ Put([written EXCEPT !.count = s_count])
  /\ pc' = [pc EXCEPT ![t] = "blob"]
  /\ UNCHANGED <<table, power, s_mutex, registrant, now_us, cmds, s_dirty, clock,
                 created, heard>>

\* Takes the mutex and keeps it until the blob is written.
SaveCount(t) ==
  /\ Unlocked /\ pc[t] = "save"
  /\ s_mutex' = t
  /\ Put([written EXCEPT !.count = s_count])
  /\ pc' = [pc EXCEPT ![t] = "blob"]
  /\ UNCHANGED <<table, power, registrant, now_us, cmds, s_dirty, clock, created, heard>>

\* Called only once the table has an entry, so count > 0.
SaveBlob(t) ==
  /\ up /\ pc[t] = "blob"
  /\ s_mutex' = "free"
  /\ Put([written EXCEPT !.blob_len = s_count, !.blob = s_devices])
  /\ pc' = [pc EXCEPT ![t] = "commit"]
  /\ UNCHANGED <<table, power, registrant, now_us, cmds, s_dirty, clock, created, heard>>

\* Mutant of SaveCommit: nvs_commit is forgotten.
SaveCommitForgotten(t) ==
  /\ up /\ pc[t] = "commit"
  /\ pc' = [pc EXCEPT ![t] = "clear"]
  /\ UNCHANGED <<table, nvs, power, s_mutex, registrant, now_us, cmds, s_dirty, clock,
                 created, heard>>

\* nvs_commit; its error is returned, and s_dirty is cleared all the same.
SaveCommit(t) ==
  /\ up /\ pc[t] = "commit"
  /\ flash' = {written} \/ (NvsMayFail /\ flash' = flash)
  /\ pc' = [pc EXCEPT ![t] = "clear"]
  /\ UNCHANGED <<table, written, power, s_mutex, registrant, now_us, cmds, s_dirty, clock,
                 created, heard>>

SaveClear(t) ==
  /\ up /\ pc[t] = "clear"
  /\ s_dirty' = FALSE
  /\ Return(t)
  /\ UNCHANGED <<table, nvs, power, s_mutex, now_us, cmds, clock, heard>>

\* nvs_open or nvs_set_u32 fails.
SaveCountFails(t) ==
  /\ NvsMayFail /\ up /\ pc[t] = "save"
  /\ Return(t)
  /\ UNCHANGED <<table, nvs, power, s_mutex, now_us, cmds, s_dirty, clock, heard>>

\* nvs_set_blob fails.
SaveBlobFails(t) ==
  /\ NvsMayFail /\ up /\ pc[t] = "blob"
  /\ s_mutex' = "free"
  /\ Return(t)
  /\ UNCHANGED <<table, nvs, power, now_us, cmds, s_dirty, clock, heard>>

------------------------------------------------------------------------------
(* Time, power cuts and restarts.                                          *)

Tick ==
  /\ up /\ clock < MaxClock
  /\ clock' = clock + 1
  /\ UNCHANGED <<table, nvs, power, tasks, cmds, s_dirty, created, heard>>

\* All RAM is lost; of the flash, one of the contents it may have reached stays.
Crash ==
  /\ up /\ crashes < MaxCrashes
  /\ up' = FALSE /\ crashes' = crashes + 1
  /\ \E img \in flash : written' = img /\ flash' = {img}
  /\ s_devices' = ZeroTable /\ s_last_seen_mono' = [i \in Slots |-> 0] /\ s_count' = 0
  /\ s_mutex' = "free" /\ pc' = [t \in Tasks |-> "idle"]
  /\ registrant' = NoEui /\ now_us' = 0
  /\ s_dirty' = FALSE /\ s_cmd_id_counter' = 0 /\ clock' = 0
  /\ heard' = [e \in Euis |-> 0]
  /\ UNCHANGED <<created, tickets, handed>>

\* nvs_get_blob fails when the blob is longer than the buffer count allows.
Loads(img) == img.blob_len <= img.count

\* Mutant of Boot: s_count is the stored count, not the length of the blob.
BootCounts ==
  /\ ~up
  /\ up' = TRUE
  /\ IF Loads(written)
       THEN /\ s_count' = written.count
            /\ s_devices' = [i \in Slots |-> IF i <= written.blob_len
                                               THEN [written.blob[i] EXCEPT !.online = FALSE]
                                               ELSE ZeroEntry]
       ELSE UNCHANGED <<s_count, s_devices>>
  /\ UNCHANGED <<s_last_seen_mono, nvs, crashes, tasks, cmds, s_dirty, clock, created, heard>>

\* app_device_registry_init and load_from_nvs, before any other task starts.
Boot ==
  /\ ~up
  /\ up' = TRUE
  /\ IF Loads(written)
       THEN /\ s_count' = written.blob_len
            /\ s_devices' = [i \in Slots |-> IF i <= written.blob_len
                                               THEN [written.blob[i] EXCEPT !.online = FALSE]
                                               ELSE ZeroEntry]
       ELSE UNCHANGED <<s_count, s_devices>>
  /\ UNCHANGED <<s_last_seen_mono, nvs, crashes, tasks, cmds, s_dirty, clock, created, heard>>

------------------------------------------------------------------------------

SaveStep(t) == \/ SaveCount(t) \/ SaveBlob(t) \/ SaveCommit(t) \/ SaveClear(t)
               \/ SaveCountFails(t) \/ SaveBlobFails(t)

SweepStep == SweepStart \/ SweepMark \/ SweepCheck

\* The four handlers of the CoAP server; a GET /cmd that names no node, or a
\* malformed request, is refused and changes nothing.
CoapStep(e) == Register(e) \/ Update(e) \/ PopCmd(e) \/ RecordAck(e)

Next ==
  \/ \E e \in Euis : CoapStep(e)
  \/ \E e \in Euis, c \in Requests : QueueCmd(e, c)
  \/ SweepStep
  \/ \E t \in Tasks : SaveStep(t)
  \/ Tick \/ Crash \/ Boot

Spec == Init /\ [][Next]_vars

\* The 30 s timer keeps firing and a task that waits for the mutex gets it in
\* the pauses between requests; nothing makes a node talk or an operator ask.
Fairness ==
  /\ SF_vars(SweepStep)
  /\ \A t \in Tasks : SF_vars(SaveStep(t))
  /\ WF_vars(Tick) /\ WF_vars(Boot)

FairSpec == Spec /\ Fairness
------------------------------------------------------------------------------
(* Safety.                                                                 *)

\* The type invariant of the table, the flash and the tasks.
TypeOK ==
  /\ s_devices \in [Slots -> Entry] /\ s_last_seen_mono \in [Slots -> 0..MaxClock]
  /\ s_count \in 0..MaxNodes
  /\ s_mutex \in Tasks \cup {"free"} /\ s_dirty \in BOOLEAN /\ s_cmd_id_counter \in Ids
  /\ pc \in [Tasks -> {"idle", "mark", "check", "save", "blob", "commit", "clear"}]
  /\ registrant \in (IF pc["coap"] = "idle" THEN {NoEui} ELSE Euis) /\ now_us \in 0..MaxClock /\ clock \in 0..MaxClock
  /\ up \in BOOLEAN /\ crashes \in 0..MaxCrashes
  /\ written \in Image /\ flash \subseteq Image
  /\ created \subseteq Euis /\ heard \in [Euis -> 0..MaxClock]
  /\ tickets \subseteq [cmd : Requests, eui : Euis, id : Ids, before : SUBSET Requests]
  /\ handed \in [Euis \X Requests -> Nat]

Distinct(entries, n) ==
  \A i, j \in 1..n : /\ entries[i].eui \in Euis
                     /\ entries[i].eui = entries[j].eui => i = j

\* No node ever occupies two slots, neither by racing requests nor through
\* what a power cut brings back: find_by_eui64 returns the only entry.
UniqueEuis == Distinct(s_devices, s_count)

\* Whenever the power is cut, even between the count and the blob, the next
\* load_from_nvs succeeds: nvs_get_blob is never given too short a buffer.
ImageRestorable == \A img \in flash : Loads(img)

\* A node that was answered 2.01 Created is in the table of every later run,
\* under the label it registered with.
CreatedSurvives ==
  up => \A e \in created : \E i \in Find(e) : s_devices[i].label = "registered"

Online(e) == \E i \in Find(e) : s_devices[i].online

\* The sweep never declares a node offline that got through within the TTL,
\* although it reads the clock before it waits for the mutex.
NoFalseOffline ==
  [][\A e \in Euis : Online(e) /\ up' /\ ~Online(e)' => clock - heard[e] > OnlineTtl]_vars

\* A command is handed over at most once, and only to the node it was queued for:
\* pop_cmd clears what it returns (app_device_registry.h:104).
HandedOnce ==
  \A e \in Euis, c \in Requests :
    /\ handed[<<e, c>>] <= 1
    /\ handed[<<e, c>>] > 0 => \E k \in tickets : k.cmd = c /\ k.eui = e

\* The latest command for a node is pending until the node takes it: no
\* report, registration, acknowledgement or sweep in between loses it, also when
\* the ids of the commands have wrapped.
LatestRequestKept ==
  \A k \in tickets :
    \/ handed[<<k.eui, k.cmd>>] > 0
    \/ \E i \in Find(k.eui) : s_devices[i].cmd = k.cmd
    \/ \E later \in tickets : later.eui = k.eui /\ k.cmd \in later.before

\* Of the commands a node was handed, over restarts of the router as well, no two
\* have one id: an acknowledgement tells which it is about (app_protocol.h:119,
\* "Unique ID for ACK matching").
AckIdsDistinct ==
  \A k, l \in tickets :
    /\ k.eui = l.eui /\ k.id = l.id
    /\ handed[<<k.eui, k.cmd>>] > 0 /\ handed[<<l.eui, l.cmd>>] > 0
    => k.cmd = l.cmd

Saving == \E t \in Tasks : pc[t] \in {"save", "blob", "commit", "clear"}

\* README.md:114: once no save is running and s_dirty is clear, the flash
\* holds every report count of the table.
CleanMeansSaved ==
  up /\ ~s_dirty /\ ~Saving
    => \A img \in flash : \A i \in 1..s_count : img.blob[i].reports = s_devices[i].reports

------------------------------------------------------------------------------
(* Liveness.                                                               *)

Silent(e) == clock - heard[e] > OnlineTtl

\* A node that stays silent longer than the TTL is declared offline.
SilentGoesOffline ==
  \A e \in Euis : Online(e) /\ Silent(e) ~> ~Online(e) \/ ~Silent(e)

\* Every registration is answered and every sweep ends, whatever NVS calls
\* fail: no path of save_to_nvs keeps the mutex.
TasksReturn == \A t \in Tasks : pc[t] # "idle" ~> pc[t] = "idle"

------------------------------------------------------------------------------
(* What the registry promises (DurableRegistry): the nodes it answers for  *)
(* are those of the table, or, while the power is off, of the flash.       *)

\* The nodes of the first n entries.
EuisOf(entries, n) == {entries[i].eui : i \in 1..n}

Known == IF up THEN EuisOf(s_devices, s_count) ELSE EuisOf(written.blob, written.blob_len)

Durable == {e \in Euis : \A img \in flash : e \in EuisOf(img.blob, img.blob_len)}

Promise == INSTANCE DurableRegistry WITH known <- Known, durable <- Durable

\* The registry implements DurableRegistry, with NVS errors and power cuts.
KeepsPromise == Promise!Spec

------------------------------------------------------------------------------
(* What the registry promises for commands (CommandSlot): cmd is a letter  *)
(* box per node.  Delivery and acknowledgement are beyond the registry.    *)

Offered == {<<k.eui, k.cmd>> : k \in tickets}
Moving  == {p \in Euis \X Requests : handed[p] > 0}
Waiting == [e \in Euis |-> {s_devices[i].cmd : i \in Find(e)} \ {CmdNone}]

Box == INSTANCE CommandSlot
         WITH Nodes <- Euis, Commands <- Requests, offered <- Offered, waiting <- Waiting,
              moving <- Moving, executed <- [e \in Euis |-> <<>>], confirmed <- {}

\* Without power cuts the registry's four tasks are one letter box per node:
\* whatever runs between two critical sections, a queued command goes into its
\* own node's box, the box is emptied by handing over what was in it, and
\* nothing else touches it (app_device_registry.h:95, "Queue a command for the
\* next time the node polls").
KeepsBox == Box!Spec
==============================================================================
