------------------------- MODULE DeviceRegistryProofs -------------------------
(***************************************************************************)
(* Theorems about DeviceRegistry, for every set of nodes and commands and  *)
(* every value of the other constants: its types, what it stores, and its  *)
(* commands while the router stays powered.                                *)
(***************************************************************************)
EXTENDS DeviceRegistry, TLAPS

------------------------------------------------------------------------------
(* Type correctness.                                                       *)

\* An entry stays one when a field gets a value of the field's type.
LEMMA EntryFields ==
  ASSUME NEW entry \in Entry
  PROVE  /\ [entry EXCEPT !.online = TRUE] \in Entry
         /\ [entry EXCEPT !.online = FALSE] \in Entry
         /\ [entry EXCEPT !.label = "registered"] \in Entry
         /\ \A n \in 0..MaxReports, l \in {"", "auto", "registered"} :
              [entry EXCEPT !.reports = n, !.label = l] \in Entry
         /\ \A c \in Cmds, n \in Ids : [entry EXCEPT !.cmd = c, !.cmd_id = n] \in Entry
         /\ \A n \in Ids : [entry EXCEPT !.ack = n] \in Entry
  BY DEF Entry

\* Who an entry is about is changed by no other field.
LEMMA EntryKeeps ==
  ASSUME NEW entry \in Entry
  PROVE  /\ \A b : /\ [entry EXCEPT !.online = b].eui = entry.eui
                   /\ [entry EXCEPT !.online = b].label = entry.label
         /\ \A l : /\ [entry EXCEPT !.label = l].eui = entry.eui
                   /\ [entry EXCEPT !.label = l].label = l
         /\ \A c, n : /\ [entry EXCEPT !.cmd = c, !.cmd_id = n].eui = entry.eui
                      /\ [entry EXCEPT !.cmd = c, !.cmd_id = n].label = entry.label
         /\ \A n : /\ [entry EXCEPT !.ack = n].eui = entry.eui
                   /\ [entry EXCEPT !.ack = n].label = entry.label
  BY DEF Entry

LEMMA EntryKeepsOnline ==
  ASSUME NEW entry \in Entry
  PROVE  /\ \A c, n : [entry EXCEPT !.cmd = c, !.cmd_id = n].online = entry.online
         /\ \A n : [entry EXCEPT !.ack = n].online = entry.online
  BY DEF Entry

\* A node's slot is a slot of the table.
LEMMA FindType ==
  ASSUME TypeOK, NEW e \in Euis, NEW i \in Find(e)
  PROVE  /\ i \in Slots /\ i \in 1..s_count
         /\ s_devices[i] \in Entry /\ s_devices[i].eui = e
  BY SizeAssumption DEF Find, Slots, TypeOK

\* A slot for a node is a slot of the table, at most one past those in use.
LEMMA SlotForType ==
  ASSUME TypeOK, NEW e \in Euis, NEW i \in SlotFor(e)
  PROVE  /\ i \in Slots /\ i <= s_count + 1
         /\ i <= s_count => i \in Find(e)
         /\ i > s_count => i = s_count + 1 /\ Find(e) = {}
  BY SizeAssumption DEF SlotFor, Find, Slots, TypeOK

\* The entry a lookup or an allocation yields is one of node e.
LEMMA AtType ==
  ASSUME TypeOK, NEW e \in Euis, NEW i \in SlotFor(e)
  PROVE  At(i, e) \in Entry /\ At(i, e).eui = e
<1>1. CASE i <= s_count
  BY <1>1, SlotForType DEF At, Find, TypeOK, Slots
<1>2. CASE i > s_count
  <2>1. At(i, e) = [ZeroEntry EXCEPT !.eui = e]
    BY <1>2, SlotForType DEF At, TypeOK, Slots
  <2>2. 0 \in Ids /\ 0 \in 0..MaxReports
    BY SizeAssumption, BoundAssumption DEF Ids
  <2> QED
    BY <2>1, <2>2 DEF ZeroEntry, Entry, Cmds
<1> QED
  BY <1>1, <1>2, SlotForType DEF TypeOK, Slots

\* A request that gets through keeps the table well-typed.
LEMMA TouchType ==
  ASSUME TypeOK, NEW e \in Euis, NEW i \in SlotFor(e), NEW entry \in Entry,
         Touch(i, e, entry)
  PROVE  /\ s_devices' \in [Slots -> Entry]
         /\ s_last_seen_mono' \in [Slots -> 0..MaxClock]
         /\ s_count' \in 0..MaxNodes
         /\ heard' \in [Euis -> 0..MaxClock]
<1>1. [entry EXCEPT !.online = TRUE] \in Entry
  BY EntryFields
<1> QED
  BY <1>1, SlotForType DEF Touch, TypeOK, Slots

LEMMA RegisterType ==
  ASSUME TypeOK, NEW e \in Euis, Register(e)
  PROVE  TypeOK'
<1> PICK i \in SlotFor(e) : Touch(i, e, [At(i, e) EXCEPT !.label = "registered"])
  BY DEF Register
<1>1. [At(i, e) EXCEPT !.label = "registered"] \in Entry
  BY AtType, EntryFields
<1>2. UNCHANGED <<nvs, power, cmds, s_mutex, now_us, s_dirty, clock, created>>
  BY DEF Register
<1>3. pc' = [pc EXCEPT !["coap"] = "save"] /\ registrant' = e
  BY DEF Register
<1> QED
  BY <1>1, <1>2, <1>3, TouchType DEF TypeOK, nvs, power, cmds, Tasks

\* The entry telemetry stores is one of its node, under the label it had.
LEMMA UpdateEntry ==
  ASSUME TypeOK, NEW e \in Euis, Update(e)
  PROVE  \E i \in SlotFor(e), entry \in Entry :
           /\ entry.eui = e /\ (i <= s_count => entry.label = s_devices[i].label)
           /\ Touch(i, e, entry)
<1> DEFINE entry(i) == [At(i, e) EXCEPT !.reports = @ + 1,
                          !.label = IF i <= s_count THEN @ ELSE "auto"]
<1> PICK i \in SlotFor(e) : At(i, e).reports < MaxReports /\ Touch(i, e, entry(i))
  BY DEF Update
<1>1. At(i, e).reports + 1 \in 0..MaxReports
  <2>1. At(i, e).reports \in 0..MaxReports
    BY AtType DEF Entry
  <2>2. \A n \in 0..MaxReports : n < MaxReports => n + 1 \in 0..MaxReports
    BY BoundAssumption
  <2> HIDE DEF entry
  <2> QED
    BY <2>1, <2>2, Zenon
<1>2. /\ entry(i).eui = e
      /\ i <= s_count => entry(i).label = s_devices[i].label
  BY AtType DEF Entry, At
<1>3. entry(i) \in Entry
  <2>1. (IF i <= s_count THEN At(i, e).label ELSE "auto") \in {"", "auto", "registered"}
    BY AtType DEF Entry
  <2> QED
    BY <1>1, <2>1, AtType, EntryFields
<1> HIDE DEF entry
<1> QED
  BY <1>2, <1>3

LEMMA UpdateType ==
  ASSUME TypeOK, NEW e \in Euis, Update(e)
  PROVE  TypeOK'
<1> PICK i \in SlotFor(e), entry \in Entry : Touch(i, e, entry)
  BY UpdateEntry
<1>1. UNCHANGED <<tasks, nvs, power, cmds, clock, created>> /\ s_dirty' = TRUE
  BY DEF Update
<1> QED
  BY <1>1, TouchType DEF TypeOK, nvs, power, cmds, tasks

LEMMA PopCmdType ==
  ASSUME TypeOK, NEW e \in Euis, PopCmd(e)
  PROVE  TypeOK'
<1> PICK i \in Find(e) :
      /\ s_devices[i].cmd # CmdNone
      /\ s_devices' = [s_devices EXCEPT ![i].cmd = CmdNone, ![i].cmd_id = 0]
      /\ handed' = [handed EXCEPT ![<<e, s_devices[i].cmd>>] = @ + 1]
  BY DEF PopCmd
<1>1. i \in Slots /\ s_devices[i] \in Entry
  BY FindType
<1>2. s_devices[i].cmd \in Requests
  BY <1>1 DEF Entry, Cmds
<1>3. 0 \in Ids
  BY SizeAssumption DEF Ids
<1>4. s_devices' = [s_devices EXCEPT ![i] = [s_devices[i] EXCEPT !.cmd = CmdNone, !.cmd_id = 0]]
  BY <1>1 DEF TypeOK
<1>5. [s_devices[i] EXCEPT !.cmd = CmdNone, !.cmd_id = 0] \in Entry
  BY <1>1, <1>3, EntryFields DEF Cmds
<1>6. s_devices' \in [Slots -> Entry]
  BY <1>4, <1>5, <1>1 DEF TypeOK
<1>7. handed' \in [Euis \X Requests -> Nat]
  BY <1>2 DEF TypeOK
<1> QED
  BY <1>6, <1>7 DEF PopCmd, TypeOK, tasks, nvs, power

LEMMA RecordAckType ==
  ASSUME TypeOK, NEW e \in Euis, RecordAck(e)
  PROVE  TypeOK'
<1> PICK i \in Find(e), k \in tickets : s_devices' = [s_devices EXCEPT ![i].ack = k.id]
  BY DEF RecordAck
<1>1. i \in Slots /\ s_devices[i] \in Entry /\ k.id \in Ids
  BY FindType DEF TypeOK
<1>2. [s_devices[i] EXCEPT !.ack = k.id] \in Entry
  BY <1>1, EntryFields
<1>3. s_devices' \in [Slots -> Entry]
  BY <1>1, <1>2 DEF TypeOK
<1> QED
  BY <1>3 DEF RecordAck, TypeOK, tasks, nvs, power, cmds

LEMMA QueueCmdType ==
  ASSUME TypeOK, NEW e \in Euis, NEW c \in Requests, QueueCmd(e, c)
  PROVE  TypeOK'
<1>1. s_cmd_id_counter' \in Ids
  BY SizeAssumption DEF QueueCmd, TypeOK, Ids
<1> PICK i \in Find(e) :
      s_devices' = [s_devices EXCEPT ![i].cmd = c, ![i].cmd_id = s_cmd_id_counter']
  BY DEF QueueCmd
<1>2. i \in Slots /\ s_devices[i] \in Entry
  BY FindType
<1>3. s_devices' = [s_devices EXCEPT
                      ![i] = [s_devices[i] EXCEPT !.cmd = c, !.cmd_id = s_cmd_id_counter']]
  BY <1>2 DEF TypeOK
<1>4. [s_devices[i] EXCEPT !.cmd = c, !.cmd_id = s_cmd_id_counter'] \in Entry
  BY <1>1, <1>2, EntryFields DEF Cmds
<1>5. s_devices' \in [Slots -> Entry]
  BY <1>2, <1>3, <1>4 DEF TypeOK
<1>6. tickets' \subseteq [cmd : Requests, eui : Euis, id : Ids, before : SUBSET Requests]
  BY <1>1 DEF QueueCmd, Ticket, TypeOK
<1> QED
  BY <1>1, <1>5, <1>6 DEF QueueCmd, TypeOK, tasks, nvs, power

LEMMA SweepType ==
  ASSUME TypeOK, SweepStep
  PROVE  TypeOK'
<1>1. CASE SweepStart
  BY <1>1 DEF SweepStart, TypeOK, table, nvs, power, cmds, Tasks
<1>2. CASE SweepMark
  <2>1. \A i \in Slots : [s_devices[i] EXCEPT !.online = FALSE] \in Entry
    BY EntryFields DEF TypeOK
  <2>2. s_devices' \in [Slots -> Entry]
    BY <1>2, <2>1 DEF SweepMark, TypeOK
  <2> QED
    BY <1>2, <2>2 DEF SweepMark, TypeOK, nvs, power, cmds, Tasks
<1>3. CASE SweepCheck
  BY <1>3 DEF SweepCheck, TypeOK, table, nvs, power, cmds, Tasks
<1> QED
  BY <1>1, <1>2, <1>3 DEF SweepStep

LEMMA SaveType ==
  ASSUME TypeOK, NEW t \in Tasks, SaveStep(t)
  PROVE  TypeOK'
<1>1. CASE SaveCount(t)
  <2>1. [written EXCEPT !.count = s_count] \in Image
    BY DEF TypeOK, Image
  <2> QED
    BY <1>1, <2>1 DEF SaveCount, Put, TypeOK, table, power, cmds, Tasks
<1>2. CASE SaveBlob(t)
  <2>1. [written EXCEPT !.blob_len = s_count, !.blob = s_devices] \in Image
    BY DEF TypeOK, Image
  <2> QED
    BY <1>2, <2>1 DEF SaveBlob, Put, TypeOK, table, power, cmds, Tasks
<1>3. CASE SaveCommit(t)
  BY <1>3 DEF SaveCommit, TypeOK, table, power, cmds, Tasks
<1>4. ASSUME Return(t), pc[t] # "idle"
      PROVE  /\ pc' \in [Tasks -> {"idle", "mark", "check", "save", "blob", "commit", "clear"}]
             /\ registrant' \in IF pc'["coap"] = "idle" THEN {NoEui} ELSE Euis
             /\ created' \subseteq Euis
  <2>1. CASE t = "coap"
    BY <1>4, <2>1 DEF Return, TypeOK, Tasks
  <2>2. CASE t = "timer"
    BY <1>4, <2>2 DEF Return, TypeOK, Tasks
  <2> QED
    BY <2>1, <2>2 DEF Tasks
<1>5. CASE SaveClear(t)
  BY <1>4, <1>5 DEF SaveClear, TypeOK, table, nvs, power, cmds
<1>6. CASE SaveCountFails(t)
  BY <1>4, <1>6 DEF SaveCountFails, TypeOK, table, nvs, power, cmds
<1>7. CASE SaveBlobFails(t)
  BY <1>4, <1>7 DEF SaveBlobFails, TypeOK, table, nvs, power, cmds
<1> QED
  BY <1>1, <1>2, <1>3, <1>5, <1>6, <1>7 DEF SaveStep

LEMMA BlankTypes == ZeroEntry \in Entry /\ ZeroTable \in [Slots -> Entry] /\ BlankImage \in Image
<1>1. 0 \in Ids /\ 0 \in 0..MaxReports /\ 0 \in 0..MaxNodes
  BY SizeAssumption, BoundAssumption DEF Ids
<1>2. ZeroEntry \in Entry
  BY <1>1 DEF ZeroEntry, Entry, Cmds
<1>3. ZeroTable \in [Slots -> Entry]
  BY <1>2 DEF ZeroTable
<1> QED
  BY <1>1, <1>2, <1>3 DEF BlankImage, Image

LEMMA PowerType ==
  ASSUME TypeOK, Crash \/ Boot \/ Tick
  PROVE  TypeOK'
<1>1. CASE Crash
  <2>1. 0 \in Ids /\ 0 \in 0..MaxNodes /\ 0 \in 0..MaxClock
    BY SizeAssumption, BoundAssumption DEF Ids
  <2>2. written' \in Image /\ flash' \subseteq Image
    BY <1>1 DEF Crash, TypeOK
  <2>3. /\ s_devices' \in [Slots -> Entry] /\ s_last_seen_mono' \in [Slots -> 0..MaxClock]
        /\ s_count' \in 0..MaxNodes /\ s_mutex' = "free" /\ s_dirty' = FALSE
        /\ s_cmd_id_counter' \in Ids /\ now_us' \in 0..MaxClock /\ clock' \in 0..MaxClock
        /\ heard' \in [Euis -> 0..MaxClock]
    BY <1>1, <2>1, BlankTypes DEF Crash
  <2>4. /\ pc' \in [Tasks -> {"idle", "mark", "check", "save", "blob", "commit", "clear"}]
        /\ pc'["coap"] = "idle" /\ registrant' = NoEui
    BY <1>1 DEF Crash, Tasks
  <2>5. up' \in BOOLEAN /\ crashes' \in 0..MaxCrashes
    <3>1. crashes \in 0..MaxCrashes /\ crashes < MaxCrashes
      BY <1>1 DEF Crash, TypeOK
    <3>2. crashes' = crashes + 1
      BY <1>1 DEF Crash
    <3>3. crashes' \in 0..MaxCrashes
      BY <3>1, <3>2, BoundAssumption
    <3>4. up' \in BOOLEAN
      BY <1>1 DEF Crash
    <3> QED
      BY <3>3, <3>4
  <2> QED
    BY <1>1, <2>2, <2>3, <2>4, <2>5 DEF Crash, TypeOK
<1>2. CASE Boot
  <2>1. \A i \in Slots : [written.blob[i] EXCEPT !.online = FALSE] \in Entry
    BY EntryFields DEF TypeOK, Image
  <2>2. written.blob_len \in 0..MaxNodes
    BY DEF TypeOK, Image
  <2>3. s_devices' \in [Slots -> Entry] /\ s_count' \in 0..MaxNodes
    BY <1>2, <2>1, <2>2, BlankTypes DEF Boot, TypeOK
  <2> QED
    BY <1>2, <2>3 DEF Boot, TypeOK, nvs, tasks, cmds
<1>3. CASE Tick
  BY <1>3, BoundAssumption DEF Tick, TypeOK, table, nvs, power, tasks, cmds
<1> QED
  BY <1>1, <1>2, <1>3

\* Every variable always has its type: in particular the table never outgrows
\* MaxNodes, and a registration being served is one of a known node.
THEOREM TypeCorrect == Spec => []TypeOK
<1>1. Init => TypeOK
  <2> SUFFICES ASSUME Init PROVE TypeOK
    OBVIOUS
  <2>1. 0 \in Ids /\ 0 \in 0..MaxNodes /\ 0 \in 0..MaxClock /\ 0 \in 0..MaxCrashes
    BY SizeAssumption, BoundAssumption DEF Ids
  <2>2. /\ pc \in [Tasks -> {"idle", "mark", "check", "save", "blob", "commit", "clear"}]
        /\ pc["coap"] = "idle"
    BY DEF Init, Tasks
  <2>3. /\ s_devices \in [Slots -> Entry] /\ s_last_seen_mono \in [Slots -> 0..MaxClock]
        /\ heard \in [Euis -> 0..MaxClock] /\ handed \in [Euis \X Requests -> Nat]
        /\ written \in Image /\ flash \subseteq Image
    BY <2>1, BlankTypes DEF Init
  <2> QED
    BY <2>1, <2>2, <2>3 DEF Init, TypeOK
<1>2. TypeOK /\ [Next]_vars => TypeOK'
  <2> SUFFICES ASSUME TypeOK, [Next]_vars PROVE TypeOK'
    OBVIOUS
  <2>1. CASE UNCHANGED vars
    BY <2>1 DEF TypeOK, vars, table, nvs, power, tasks, cmds
  <2>2. CASE Next
    BY <2>2, RegisterType, UpdateType, PopCmdType, RecordAckType, QueueCmdType, SweepType,
       SaveType, PowerType DEF Next, CoapStep
  <2> QED
    BY <2>1, <2>2
<1> QED
  BY <1>1, <1>2, PTL DEF Spec
------------------------------------------------------------------------------
(* The inductive invariant of the table and the flash.  An image is a      *)
(* prefix of the table it was taken from, because entries are only added;  *)
(* the count written by a save under way is that of the table, because the *)
(* mutex keeps requests out until the blob is written.                     *)

Prefix(img) ==
  /\ img.blob_len <= s_count
  /\ \A i \in 1..img.blob_len :
       /\ img.blob[i].eui = s_devices[i].eui
       /\ img.blob[i].label = "registered" => s_devices[i].label = "registered"

ImagesSound ==
  /\ written \in flash
  /\ ImageRestorable
  /\ \A img \in flash : Distinct(img.blob, img.blob_len)
  /\ up => \A img \in flash : Prefix(img)

SaveHoldsMutex == \A t \in Tasks : pc[t] = "blob" => s_mutex = t /\ written.count = s_count

PowerOff == ~up => s_count = 0 /\ flash = {written} /\ \A t \in Tasks : pc[t] = "idle"

IInv == UniqueEuis /\ ImagesSound /\ SaveHoldsMutex /\ PowerOff
\* A step that changes neither who is in the table nor the flash, and starts
\* no write, preserves the invariant.
LEMMA QuietStep ==
  ASSUME TypeOK, IInv, UNCHANGED <<s_count, written, flash, up>>,
         \A i \in 1..s_count : /\ s_devices'[i].eui = s_devices[i].eui
                               /\ s_devices'[i].label = s_devices[i].label,
         \A t \in Tasks : pc'[t] = "blob" => pc[t] = "blob" /\ s_mutex' = s_mutex,
         up \/ pc' = pc
  PROVE  IInv'
<1>1. UniqueEuis'
  BY DEF IInv, UniqueEuis, Distinct
<1>2. \A img \in flash : Prefix(img) => Prefix(img)'
  BY DEF Prefix, TypeOK, Image
<1>3. ImagesSound'
  BY <1>2 DEF IInv, ImagesSound, ImageRestorable, Loads, Distinct
<1>4. SaveHoldsMutex'
  BY DEF IInv, SaveHoldsMutex
<1>5. PowerOff'
  BY DEF IInv, PowerOff
<1> QED
  BY <1>1, <1>3, <1>4, <1>5 DEF IInv

\* A request that gets through appends its node to the table, or finds it.
LEMMA TouchGrows ==
  ASSUME TypeOK, NEW e \in Euis, NEW i \in SlotFor(e), NEW entry \in Entry,
         entry.eui = e, i <= s_count => entry.label \in {s_devices[i].label, "registered"},
         Touch(i, e, entry)
  PROVE  /\ s_count <= s_count' /\ i <= s_count'
         /\ s_devices'[i].eui = e /\ s_devices'[i].label = entry.label
         /\ \A j \in 1..s_count :
              /\ s_devices'[j].eui = s_devices[j].eui
              /\ s_devices[j].label = "registered" => s_devices'[j].label = "registered"
         /\ s_count' # s_count => s_count' = s_count + 1 /\ i = s_count' /\ Find(e) = {}
<1>1. s_devices' \in [Slots -> Entry] /\ s_devices' = [s_devices EXCEPT ![i] = [entry EXCEPT !.online = TRUE]]
  BY TouchType DEF Touch
<1>2. /\ [entry EXCEPT !.online = TRUE].eui = entry.eui
      /\ [entry EXCEPT !.online = TRUE].label = entry.label
  BY DEF Entry
<1>3. i \in Slots /\ s_devices'[i] = [entry EXCEPT !.online = TRUE]
  BY <1>1, SlotForType DEF TypeOK
<1>4. \A j \in Slots : j # i => s_devices'[j] = s_devices[j]
  BY <1>1 DEF TypeOK
<1>5. 1..s_count \subseteq Slots
  BY SizeAssumption DEF TypeOK, Slots
<1>6. i <= s_count => s_devices[i].eui = e
  BY SlotForType, FindType
<1>7. s_count' = IF i <= s_count THEN s_count ELSE i
  BY DEF Touch
<1>8. /\ s_count \in Nat /\ i \in Nat /\ i <= s_count + 1
      /\ i > s_count => i = s_count + 1 /\ Find(e) = {}
  BY SlotForType, SizeAssumption DEF TypeOK, Slots
<1>9. \A j \in 1..s_count :
        /\ s_devices'[j].eui = s_devices[j].eui
        /\ s_devices[j].label = "registered" => s_devices'[j].label = "registered"
  <2> SUFFICES ASSUME NEW j \in 1..s_count
               PROVE  /\ s_devices'[j].eui = s_devices[j].eui
                      /\ s_devices[j].label = "registered" => s_devices'[j].label = "registered"
    OBVIOUS
  <2>1. CASE j = i
    <3>1. i <= s_count
      BY <1>8, <2>1
    <3> QED
      BY <1>2, <1>3, <1>6, <2>1, <3>1
  <2>2. CASE j # i
    BY <1>4, <1>5, <2>2
  <2> QED
    BY <2>1, <2>2
<1> QED
  BY <1>2, <1>3, <1>7, <1>8, <1>9

LEMMA GrowStep ==
  ASSUME TypeOK, IInv, Serving, NEW e \in Euis, NEW i \in SlotFor(e), NEW entry \in Entry,
         entry.eui = e, i <= s_count => entry.label \in {s_devices[i].label, "registered"},
         Touch(i, e, entry), UNCHANGED <<written, flash, up>>,
         \A t \in Tasks : pc'[t] = "blob" => pc[t] = "blob"
  PROVE  IInv'
<1>0. s_count \in Nat /\ s_count' \in Nat
  BY TouchType, SizeAssumption DEF TypeOK
<1>1. UniqueEuis'
  <2>1. CASE s_count' = s_count
    BY <2>1, TouchGrows DEF IInv, UniqueEuis, Distinct
  <2>2. CASE s_count' # s_count
    <3>1. \A j \in 1..s_count : s_devices'[j].eui \in Euis /\ s_devices'[j].eui # e
      BY <2>2, TouchGrows DEF IInv, UniqueEuis, Distinct, Find
    <3>2. s_count' = s_count + 1 /\ s_devices'[s_count'].eui = e
      BY <2>2, TouchGrows
    <3>3. \A j, k \in 1..s_count : s_devices'[j].eui = s_devices'[k].eui => j = k
      BY TouchGrows DEF IInv, UniqueEuis, Distinct
    <3>4. 1..s_count' = 1..s_count \cup {s_count'}
      BY <1>0, <3>2
    <3> QED
      BY <3>1, <3>2, <3>3, <3>4 DEF UniqueEuis, Distinct
  <2> QED
    BY <2>1, <2>2
<1>2. \A img \in flash : Prefix(img) => Prefix(img)'
  <2> SUFFICES ASSUME NEW img \in flash, Prefix(img) PROVE Prefix(img)'
    OBVIOUS
  <2>1. img.blob_len \in Nat /\ img.blob_len <= s_count /\ s_count <= s_count'
    BY SizeAssumption, TouchGrows DEF Prefix, TypeOK, Image
  <2>2. \A j \in 1..img.blob_len : j \in 1..s_count
    BY <1>0, <2>1
  <2> QED
    BY <1>0, <2>1, <2>2, TouchGrows DEF Prefix
<1>3. ImagesSound'
  BY <1>2 DEF IInv, ImagesSound, ImageRestorable, Loads, Distinct
<1>4. SaveHoldsMutex'
  BY DEF IInv, SaveHoldsMutex, Serving, Unlocked, Tasks
<1>5. PowerOff'
  BY DEF PowerOff, Serving, Unlocked
<1> QED
  BY <1>1, <1>3, <1>4, <1>5 DEF IInv

LEMMA RequestStep ==
  ASSUME TypeOK, IInv, NEW e \in Euis, Register(e) \/ Update(e)
  PROVE  IInv'
<1>1. CASE Register(e)
  <2> DEFINE entry(i) == [At(i, e) EXCEPT !.label = "registered"]
  <2> PICK i \in SlotFor(e) : Touch(i, e, entry(i))
    BY <1>1 DEF Register
  <2>1. entry(i) \in Entry
    BY AtType, EntryFields
  <2>2. entry(i).eui = e /\ entry(i).label = "registered"
    BY AtType, EntryKeeps
  <2>3. \A t \in Tasks : pc'[t] = "blob" => pc[t] = "blob"
    BY <1>1 DEF Register, TypeOK, Tasks
  <2>4. Serving /\ UNCHANGED <<written, flash, up>>
    BY <1>1 DEF Register, nvs, power
  <2> HIDE DEF entry
  <2> QED
    BY <2>1, <2>2, <2>3, <2>4, GrowStep
<1>2. CASE Update(e)
  <2> PICK i \in SlotFor(e), entry \in Entry :
        /\ entry.eui = e /\ (i <= s_count => entry.label = s_devices[i].label)
        /\ Touch(i, e, entry)
    BY <1>2, UpdateEntry
  <2>1. Serving /\ UNCHANGED <<written, flash, up, pc>>
    BY <1>2 DEF Update, nvs, power, tasks
  <2> QED
    BY <2>1, GrowStep
<1> QED
  BY <1>1, <1>2

\* Commands and acknowledgements change nobody's identity or label.
LEMMA CommandKeeps ==
  ASSUME TypeOK, NEW e \in Euis,
         PopCmd(e) \/ RecordAck(e) \/ \E c \in Requests : QueueCmd(e, c)
  PROVE  /\ UNCHANGED <<s_count, written, flash, up, pc, s_mutex>>
         /\ \A i \in 1..s_count : /\ s_devices'[i].eui = s_devices[i].eui
                                  /\ s_devices'[i].label = s_devices[i].label
<1>1. UNCHANGED <<s_count, written, flash, up, pc, s_mutex>>
  BY DEF PopCmd, RecordAck, QueueCmd, tasks, nvs, power
<1>2. \A i \in Slots : /\ s_devices'[i].eui = s_devices[i].eui
                       /\ s_devices'[i].label = s_devices[i].label
  <2>1. CASE PopCmd(e)
    <3> PICK i \in Find(e) : s_devices' = [s_devices EXCEPT ![i].cmd = CmdNone, ![i].cmd_id = 0]
      BY <2>1 DEF PopCmd
    <3>1. s_devices' = [s_devices EXCEPT ![i] = [s_devices[i] EXCEPT !.cmd = CmdNone, !.cmd_id = 0]]
      BY FindType DEF TypeOK
    <3> QED
      BY <3>1, FindType, EntryKeeps DEF TypeOK
  <2>2. CASE RecordAck(e)
    <3> PICK i \in Find(e), k \in tickets : s_devices' = [s_devices EXCEPT ![i].ack = k.id]
      BY <2>2 DEF RecordAck
    <3>1. s_devices' = [s_devices EXCEPT ![i] = [s_devices[i] EXCEPT !.ack = k.id]]
      BY FindType DEF TypeOK
    <3> QED
      BY <3>1, FindType, EntryKeeps DEF TypeOK
  <2>3. ASSUME NEW c \in Requests, QueueCmd(e, c)
        PROVE  \A i \in Slots : /\ s_devices'[i].eui = s_devices[i].eui
                                /\ s_devices'[i].label = s_devices[i].label
    <3> PICK i \in Find(e) :
          s_devices' = [s_devices EXCEPT ![i].cmd = c, ![i].cmd_id = s_cmd_id_counter']
      BY <2>3 DEF QueueCmd
    <3>1. s_devices' = [s_devices EXCEPT ![i] = [s_devices[i] EXCEPT !.cmd = c, !.cmd_id = s_cmd_id_counter']]
      BY FindType DEF TypeOK
    <3> QED
      BY <3>1, FindType, EntryKeeps DEF TypeOK
  <2> QED
    BY <2>1, <2>2, <2>3
<1>3. 1..s_count \subseteq Slots
  BY SizeAssumption DEF TypeOK, Slots
<1> QED
  BY <1>1, <1>2, <1>3

\* Nor do they bring a node online or take it offline.
LEMMA CommandKeepsOnline ==
  ASSUME TypeOK, NEW e \in Euis,
         PopCmd(e) \/ RecordAck(e) \/ \E c \in Requests : QueueCmd(e, c)
  PROVE  \A i \in 1..s_count : s_devices'[i].online = s_devices[i].online
<1>2. \A i \in Slots : s_devices'[i].online = s_devices[i].online
  <2>1. CASE PopCmd(e)
    <3> PICK i \in Find(e) : s_devices' = [s_devices EXCEPT ![i].cmd = CmdNone, ![i].cmd_id = 0]
      BY <2>1 DEF PopCmd
    <3>1. s_devices' = [s_devices EXCEPT ![i] = [s_devices[i] EXCEPT !.cmd = CmdNone, !.cmd_id = 0]]
      BY FindType DEF TypeOK
    <3> QED
      BY <3>1, FindType, EntryKeepsOnline DEF TypeOK
  <2>2. CASE RecordAck(e)
    <3> PICK i \in Find(e), k \in tickets : s_devices' = [s_devices EXCEPT ![i].ack = k.id]
      BY <2>2 DEF RecordAck
    <3>1. s_devices' = [s_devices EXCEPT ![i] = [s_devices[i] EXCEPT !.ack = k.id]]
      BY FindType DEF TypeOK
    <3> QED
      BY <3>1, FindType, EntryKeepsOnline DEF TypeOK
  <2>3. ASSUME NEW c \in Requests, QueueCmd(e, c)
        PROVE  \A i \in Slots : s_devices'[i].online = s_devices[i].online
    <3> PICK i \in Find(e) :
          s_devices' = [s_devices EXCEPT ![i].cmd = c, ![i].cmd_id = s_cmd_id_counter']
      BY <2>3 DEF QueueCmd
    <3>1. s_devices' = [s_devices EXCEPT ![i] = [s_devices[i] EXCEPT !.cmd = c, !.cmd_id = s_cmd_id_counter']]
      BY FindType DEF TypeOK
    <3> QED
      BY <3>1, FindType, EntryKeepsOnline DEF TypeOK
  <2> QED
    BY <2>1, <2>2, <2>3
<1>3. 1..s_count \subseteq Slots
  BY SizeAssumption DEF TypeOK, Slots
<1> QED
  BY <1>2, <1>3

LEMMA CommandStep ==
  ASSUME TypeOK, IInv, NEW e \in Euis,
         PopCmd(e) \/ RecordAck(e) \/ \E c \in Requests : QueueCmd(e, c)
  PROVE  IInv'
  BY CommandKeeps, QuietStep

\* Nor does the sweep.
LEMMA SweepKeepsTable ==
  ASSUME TypeOK, SweepStep
  PROVE  /\ up /\ UNCHANGED <<s_count, written, flash, up, s_mutex>>
         /\ \A i \in 1..s_count : /\ s_devices'[i].eui = s_devices[i].eui
                                  /\ s_devices'[i].label = s_devices[i].label
         /\ \A t \in Tasks : pc'[t] = "blob" => pc[t] = "blob"
<1>1. up /\ UNCHANGED <<s_count, written, flash, up, s_mutex>>
  BY DEF SweepStep, SweepStart, SweepMark, SweepCheck, Unlocked, table, nvs, power
<1>2. \A i \in Slots : /\ s_devices'[i].eui = s_devices[i].eui
                       /\ s_devices'[i].label = s_devices[i].label
  <2>1. CASE SweepMark
    <3>1. \A i \in Slots : s_devices'[i] = IF i \in Expired
                                             THEN [s_devices[i] EXCEPT !.online = FALSE]
                                             ELSE s_devices[i]
      BY <2>1 DEF SweepMark
    <3> QED
      BY <3>1 DEF TypeOK, Entry
  <2>2. CASE SweepStart \/ SweepCheck
    BY <2>2 DEF SweepStart, SweepCheck, table
  <2> QED
    BY <2>1, <2>2 DEF SweepStep
<1>3. 1..s_count \subseteq Slots
  BY SizeAssumption DEF TypeOK, Slots
<1>4. \A t \in Tasks : pc'[t] = "blob" => pc[t] = "blob"
  BY DEF SweepStep, SweepStart, SweepMark, SweepCheck, TypeOK, Tasks
<1> QED
  BY <1>1, <1>2, <1>3, <1>4

LEMMA SweepKeeps ==
  ASSUME TypeOK, IInv, SweepStep
  PROVE  IInv'
  BY SweepKeepsTable, QuietStep

\* A flash write adds one image, which must be a sound prefix of the table.
LEMMA PutStep ==
  ASSUME TypeOK, IInv, up, NEW img \in Image, Put(img), UNCHANGED <<table, up>>,
         Loads(img), Prefix(img), Distinct(img.blob, img.blob_len)
  PROVE  UniqueEuis' /\ ImagesSound'
<1>1. UniqueEuis'
  BY DEF IInv, UniqueEuis, table
<1>2. \A any \in Image : Prefix(any) => Prefix(any)'
  BY DEF Prefix, table
<1>3. flash' = flash \cup {img} /\ written' = img /\ flash \subseteq Image
  BY DEF Put, TypeOK
<1> QED
  BY <1>1, <1>2, <1>3 DEF IInv, ImagesSound, ImageRestorable

LEMMA SaveCountStep ==
  ASSUME TypeOK, IInv, NEW t \in Tasks, SaveCount(t)
  PROVE  IInv'
<1> DEFINE img == [written EXCEPT !.count = s_count]
<1>1. /\ img \in Image /\ img.count = s_count
      /\ img.blob_len = written.blob_len /\ img.blob = written.blob
  BY DEF TypeOK, Image
<1>2. up /\ s_mutex = "free" /\ s_mutex' = t /\ Put(img) /\ UNCHANGED <<table, up>>
  BY DEF SaveCount, Unlocked, power
<1>3. written \in flash /\ Prefix(written) /\ Distinct(written.blob, written.blob_len)
  BY <1>2 DEF IInv, ImagesSound
<1> HIDE DEF img
<1>4. Loads(img) /\ Prefix(img) /\ Distinct(img.blob, img.blob_len)
  BY <1>1, <1>3 DEF Loads, Prefix
<1>5. UniqueEuis' /\ ImagesSound'
  BY <1>1, <1>2, <1>4, PutStep
<1>6. SaveHoldsMutex'
  <2>1. \A u \in Tasks : pc[u] # "blob"
    BY <1>2 DEF IInv, SaveHoldsMutex, Tasks
  <2>2. pc' = [pc EXCEPT ![t] = "blob"]
    BY DEF SaveCount
  <2>3. written'.count = s_count' /\ s_mutex' = t
    BY <1>1, <1>2 DEF Put, table
  <2> QED
    BY <2>1, <2>2, <2>3 DEF SaveHoldsMutex, TypeOK
<1>7. PowerOff'
  BY <1>2 DEF PowerOff
<1> QED
  BY <1>5, <1>6, <1>7 DEF IInv

LEMMA SaveBlobStep ==
  ASSUME TypeOK, IInv, NEW t \in Tasks, SaveBlob(t)
  PROVE  IInv'
<1> DEFINE img == [written EXCEPT !.blob_len = s_count, !.blob = s_devices]
<1>1. /\ img \in Image /\ img.count = written.count
      /\ img.blob_len = s_count /\ img.blob = s_devices
  BY DEF TypeOK, Image
<1>2. up /\ pc[t] = "blob" /\ Put(img) /\ UNCHANGED <<table, up>>
  BY DEF SaveBlob, power
<1>3. s_mutex = t /\ written.count = s_count /\ UniqueEuis
  BY <1>2 DEF IInv, SaveHoldsMutex
<1>4. s_count \in 0..MaxNodes
  BY DEF TypeOK
<1> HIDE DEF img
<1>5. Loads(img) /\ Prefix(img) /\ Distinct(img.blob, img.blob_len)
  BY <1>1, <1>3, <1>4 DEF Loads, Prefix, UniqueEuis
<1>6. UniqueEuis' /\ ImagesSound'
  BY <1>1, <1>2, <1>5, PutStep
<1>7. \A u \in Tasks : pc'[u] # "blob"
  <2>1. \A u \in Tasks : u # t => pc[u] # "blob"
    BY <1>3 DEF IInv, SaveHoldsMutex
  <2> QED
    BY <2>1 DEF SaveBlob, TypeOK
<1>8. SaveHoldsMutex' /\ PowerOff'
  BY <1>2, <1>7 DEF SaveHoldsMutex, PowerOff
<1> QED
  BY <1>6, <1>8 DEF IInv

LEMMA SaveStepKeeps ==
  ASSUME TypeOK, IInv, NEW t \in Tasks, SaveStep(t)
  PROVE  IInv'
<1>1. CASE SaveCount(t)
  BY <1>1, SaveCountStep
<1>2. CASE SaveBlob(t)
  BY <1>2, SaveBlobStep
<1>3. CASE SaveCommit(t)
  <2>1. flash' \subseteq flash /\ written \in flash' /\ UNCHANGED <<table, written, up, s_mutex>>
    BY <1>3 DEF SaveCommit, power, IInv, ImagesSound
  <2>2. UniqueEuis'
    BY <2>1 DEF IInv, UniqueEuis, table
  <2>3. \A any \in flash : Prefix(any) => Prefix(any)'
    BY <2>1 DEF Prefix, table
  <2>4. ImagesSound'
    BY <2>1, <2>3 DEF IInv, ImagesSound, ImageRestorable
  <2>5. \A u \in Tasks : pc'[u] = "blob" => pc[u] = "blob"
    BY <1>3 DEF SaveCommit, TypeOK
  <2>6. SaveHoldsMutex'
    BY <2>1, <2>5 DEF IInv, SaveHoldsMutex, table
  <2>7. PowerOff'
    BY <1>3 DEF SaveCommit, PowerOff, power
  <2> QED
    BY <2>2, <2>4, <2>6, <2>7 DEF IInv
<1>4. CASE SaveClear(t) \/ SaveCountFails(t)
  <2>1. up /\ UNCHANGED <<s_devices, s_count, written, flash, up, s_mutex>>
    BY <1>4 DEF SaveClear, SaveCountFails, table, nvs, power
  <2>2. \A u \in Tasks : pc'[u] = "blob" => pc[u] = "blob"
    BY <1>4 DEF SaveClear, SaveCountFails, Return, TypeOK
  <2> QED
    BY <2>1, <2>2, QuietStep
<1>5. CASE SaveBlobFails(t)
  <2>1. up /\ pc[t] = "blob" /\ UNCHANGED <<s_devices, s_count, written, flash, up>>
    BY <1>5 DEF SaveBlobFails, table, nvs, power
  <2>2. \A u \in Tasks : pc'[u] # "blob"
    <3>1. \A u \in Tasks : u # t => pc[u] # "blob"
      BY <2>1 DEF IInv, SaveHoldsMutex
    <3> QED
      BY <1>5, <3>1 DEF SaveBlobFails, Return, TypeOK
  <2> QED
    BY <2>1, <2>2, QuietStep
<1> QED
  BY <1>1, <1>2, <1>3, <1>4, <1>5 DEF SaveStep

LEMMA PowerKeeps ==
  ASSUME TypeOK, IInv, Crash \/ Boot \/ Tick
  PROVE  IInv'
<1>1. CASE Crash
  <2> PICK img \in flash : written' = img /\ flash' = {img}
    BY <1>1 DEF Crash
  <2>1. s_count' = 0 /\ up' = FALSE /\ \A t \in Tasks : pc'[t] = "idle"
    BY <1>1 DEF Crash
  <2>2. UniqueEuis'
    BY <2>1 DEF UniqueEuis, Distinct
  <2>3. ImagesSound'
    BY <2>1 DEF IInv, ImagesSound, ImageRestorable
  <2>4. SaveHoldsMutex' /\ PowerOff'
    BY <2>1 DEF SaveHoldsMutex, PowerOff
  <2> QED
    BY <2>2, <2>3, <2>4 DEF IInv
<1>2. CASE Boot
  <2>1. flash = {written} /\ Loads(written) /\ Distinct(written.blob, written.blob_len)
    BY <1>2 DEF Boot, IInv, PowerOff, ImagesSound, ImageRestorable
  <2>2. written \in Image /\ written.blob_len \in 0..MaxNodes
    BY DEF TypeOK, Image
  <2>3. /\ s_count' = written.blob_len /\ UNCHANGED <<written, flash, pc>>
        /\ s_devices' = [i \in Slots |-> IF i <= written.blob_len
                                          THEN [written.blob[i] EXCEPT !.online = FALSE]
                                          ELSE ZeroEntry]
    BY <1>2, <2>1 DEF Boot, nvs, tasks
  <2>4. \A i \in 1..written.blob_len : /\ s_devices'[i].eui = written.blob[i].eui
                                       /\ s_devices'[i].label = written.blob[i].label
    <3> SUFFICES ASSUME NEW i \in 1..written.blob_len
                 PROVE  /\ s_devices'[i].eui = written.blob[i].eui
                        /\ s_devices'[i].label = written.blob[i].label
      OBVIOUS
    <3>1. i \in Slots /\ i <= written.blob_len /\ written.blob[i] \in Entry
      BY <2>2, SizeAssumption DEF Slots, Image
    <3>2. s_devices'[i] = [written.blob[i] EXCEPT !.online = FALSE]
      BY <2>3, <3>1
    <3> QED
      BY <3>1, <3>2, EntryKeeps
  <2>5. UniqueEuis'
    BY <2>1, <2>3, <2>4 DEF UniqueEuis, Distinct
  <2>6. Prefix(written)'
    BY <2>2, <2>3, <2>4 DEF Prefix
  <2>7. ImagesSound'
    BY <2>1, <2>3, <2>6 DEF IInv, ImagesSound, ImageRestorable, Loads, Distinct, Prefix
  <2>8. SaveHoldsMutex' /\ PowerOff'
    BY <1>2, <2>3 DEF IInv, SaveHoldsMutex, PowerOff, Boot
  <2> QED
    BY <2>5, <2>7, <2>8 DEF IInv
<1>3. CASE Tick
  BY <1>3, QuietStep DEF Tick, table, nvs, power, tasks
<1> QED
  BY <1>1, <1>2, <1>3

LEMMA Inductive == Spec => []IInv
<1>1. Init => IInv
  <2> SUFFICES ASSUME Init PROVE IInv
    OBVIOUS
  <2>1. BlankImage.count = 0 /\ BlankImage.blob_len = 0
    BY DEF BlankImage
  <2>2. UniqueEuis /\ SaveHoldsMutex /\ PowerOff
    BY DEF Init, UniqueEuis, Distinct, SaveHoldsMutex, PowerOff
  <2>3. ImagesSound
    BY <2>1 DEF Init, ImagesSound, ImageRestorable, Loads, Distinct, Prefix
  <2> QED
    BY <2>2, <2>3 DEF IInv
<1>2. TypeOK /\ IInv /\ [Next]_vars => IInv'
  <2> SUFFICES ASSUME TypeOK, IInv, [Next]_vars PROVE IInv'
    OBVIOUS
  <2>1. CASE UNCHANGED vars
    BY <2>1, QuietStep DEF vars, table, nvs, power, tasks
  <2>2. CASE Next
    BY <2>2, RequestStep, CommandStep, SweepKeeps, SaveStepKeeps, PowerKeeps DEF Next, CoapStep
  <2> QED
    BY <2>1, <2>2
<1> QED
  BY <1>1, <1>2, TypeCorrect, PTL DEF Spec

\* Whatever is cut off when, load_from_nvs finds a blob its count admits.
THEOREM AlwaysRestorable == Spec => []ImageRestorable
<1>1. IInv => ImageRestorable
  BY DEF IInv, ImagesSound
<1> QED
  BY <1>1, Inductive, PTL

\* find_by_eui64 always has at most one entry to find.
THEOREM AlwaysUnique == Spec => []UniqueEuis
<1>1. IInv => UniqueEuis
  BY DEF IInv
<1> QED
  BY <1>1, Inductive, PTL

------------------------------------------------------------------------------
(* Commands while the router stays powered: each is handed over at most    *)
(* once, and the latest of a node is not lost.                             *)

\* The command in slot i has a ticket of its node and has not been handed over.
PendingAt(i) ==
  s_devices[i].cmd # CmdNone =>
    /\ handed[<<s_devices[i].eui, s_devices[i].cmd>>] = 0
    /\ \E k \in tickets : k.cmd = s_devices[i].cmd /\ k.eui = s_devices[i].eui

\* Where a command is between its queueing and its handing over: HandedOnce needs
\* that a pending command has never been handed over, and that its one ticket is of
\* the node in whose slot it is.
CmdInv ==
  /\ up
  /\ \A k, l \in tickets : k.cmd = l.cmd => k = l
  /\ \A i \in 1..s_count : PendingAt(i)
  /\ HandedOnce

\* A step that leaves commands alone: entries keep their command, new ones have none.
CmdsStay ==
  /\ UNCHANGED cmds
  /\ s_count <= s_count'
  /\ \A i \in 1..s_count : s_devices'[i].eui = s_devices[i].eui /\ s_devices'[i].cmd = s_devices[i].cmd
  /\ \A i \in 1..s_count' : i > s_count => s_devices'[i].cmd = CmdNone

LEMMA StayStep ==
  ASSUME TypeOK, TypeOK', CmdInv, up', CmdsStay
  PROVE  /\ CmdInv'
         /\ LatestRequestKept => LatestRequestKept'
<1>1. s_count \in Nat /\ s_count' \in Nat
  BY SizeAssumption DEF TypeOK
<1>2. UNCHANGED <<tickets, handed, s_cmd_id_counter>>
  BY DEF CmdsStay, cmds
<1>3. ASSUME NEW i \in 1..s_count' PROVE PendingAt(i)'
  BY <1>1, <1>2, <1>3 DEF CmdsStay, CmdInv, PendingAt
<1>4. CmdInv'
  BY <1>2, <1>3 DEF CmdInv, HandedOnce
<1>5. ASSUME LatestRequestKept PROVE LatestRequestKept'
  <2>1. LatestRequestKept'
    <3> SUFFICES ASSUME NEW k \in tickets
                 PROVE  \/ handed[<<k.eui, k.cmd>>] > 0
                        \/ \E i \in Find(k.eui)' : s_devices'[i].cmd = k.cmd
                        \/ \E later \in tickets : later.eui = k.eui /\ k.cmd \in later.before
      BY <1>2 DEF LatestRequestKept
    <3>1. CASE \E i \in Find(k.eui) : s_devices[i].cmd = k.cmd
      BY <1>1, <3>1 DEF Find, CmdsStay
    <3> QED
      BY <1>5, <3>1 DEF LatestRequestKept
  <2> QED
    BY <2>1
<1> QED
  BY <1>4, <1>5

LEMMA EntryKeepsCmd ==
  ASSUME NEW entry \in Entry
  PROVE  /\ \A b : /\ [entry EXCEPT !.online = b].cmd = entry.cmd
                   /\ [entry EXCEPT !.online = b].eui = entry.eui
         /\ \A l : [entry EXCEPT !.label = l].cmd = entry.cmd
         /\ \A n, l : /\ [entry EXCEPT !.reports = n, !.label = l].cmd = entry.cmd
                      /\ [entry EXCEPT !.reports = n, !.label = l].eui = entry.eui
         /\ \A n : [entry EXCEPT !.ack = n].cmd = entry.cmd
         /\ \A c, n : [entry EXCEPT !.cmd = c, !.cmd_id = n].cmd = c
  BY DEF Entry

LEMMA TouchStays ==
  ASSUME TypeOK, NEW e \in Euis, NEW i \in SlotFor(e), NEW entry \in Entry,
         entry.eui = e, entry.cmd = At(i, e).cmd, Touch(i, e, entry), UNCHANGED cmds
  PROVE  CmdsStay
<1>1. i \in Slots /\ s_count \in Nat /\ (i > s_count => i = s_count + 1)
  BY SlotForType, SizeAssumption DEF TypeOK
<1>2. s_devices'[i] = [entry EXCEPT !.online = TRUE]
        /\ \A j \in Slots : j # i => s_devices'[j] = s_devices[j]
  BY <1>1 DEF Touch, TypeOK
<1>3. s_devices'[i].eui = e /\ s_devices'[i].cmd = At(i, e).cmd
  BY <1>2, EntryKeepsCmd
<1>4. i <= s_count => s_devices[i].eui = e /\ At(i, e).cmd = s_devices[i].cmd
  BY SlotForType, FindType DEF At
<1>5. i > s_count => At(i, e).cmd = CmdNone
  BY <1>1 DEF At, ZeroEntry
<1>6. 1..s_count \subseteq Slots /\ s_count' = IF i <= s_count THEN s_count ELSE i
  BY SizeAssumption DEF Touch, TypeOK, Slots
<1>7. \A j \in 1..s_count : s_devices'[j].eui = s_devices[j].eui /\ s_devices'[j].cmd = s_devices[j].cmd
  <2>1. ASSUME i <= s_count PROVE s_devices'[i].eui = s_devices[i].eui /\ s_devices'[i].cmd = s_devices[i].cmd
    BY <1>3, <1>4, <2>1
  <2>2. \A j \in 1..s_count : j \in Slots /\ (j = i => i <= s_count)
    BY <1>6
  <2>3. \A j \in Slots : j # i => s_devices'[j].eui = s_devices[j].eui /\ s_devices'[j].cmd = s_devices[j].cmd
    BY <1>2
  <2> QED
    BY <2>1, <2>2, <2>3
<1>8. \A j \in 1..s_count' : j > s_count => j = i
  BY <1>1, <1>6 DEF Slots
<1> QED
  BY <1>1, <1>3, <1>5, <1>6, <1>7, <1>8 DEF CmdsStay, Slots

LEMMA RequestStays ==
  ASSUME TypeOK, NEW e \in Euis, Register(e) \/ Update(e)
  PROVE  CmdsStay /\ UNCHANGED up
<1>1. CASE Register(e)
  <2> PICK i \in SlotFor(e) : Touch(i, e, [At(i, e) EXCEPT !.label = "registered"])
    BY <1>1 DEF Register
  <2>1. [At(i, e) EXCEPT !.label = "registered"] \in Entry
          /\ [At(i, e) EXCEPT !.label = "registered"].eui = e
          /\ [At(i, e) EXCEPT !.label = "registered"].cmd = At(i, e).cmd
    <3>1. PICK entry \in Entry : entry = At(i, e)
      BY AtType
    <3>2. [entry EXCEPT !.label = "registered"].eui = e
      BY <3>1, AtType, EntryKeeps
    <3>3. [entry EXCEPT !.label = "registered"] \in Entry
            /\ [entry EXCEPT !.label = "registered"].cmd = entry.cmd
      BY EntryFields, EntryKeepsCmd
    <3> QED
      BY <3>1, <3>2, <3>3
  <2> QED
    BY <1>1, <2>1, TouchStays DEF Register, power
<1>2. CASE Update(e)
  <2> DEFINE entry(i) == [At(i, e) EXCEPT !.reports = @ + 1,
                            !.label = IF i <= s_count THEN @ ELSE "auto"]
  <2> PICK i \in SlotFor(e) : At(i, e).reports < MaxReports /\ Touch(i, e, entry(i))
    BY <1>2 DEF Update
  <2>1. At(i, e).reports + 1 \in 0..MaxReports
    <3>1. At(i, e).reports \in 0..MaxReports
      BY AtType DEF Entry
    <3>2. \A n \in 0..MaxReports : n < MaxReports => n + 1 \in 0..MaxReports
      BY BoundAssumption
    <3> HIDE DEF entry
    <3> QED
      BY <3>1, <3>2, Zenon
  <2>2. entry(i).eui = e /\ entry(i).cmd = At(i, e).cmd
    BY AtType, EntryKeepsCmd
  <2>3. entry(i) \in Entry
    <3>1. (IF i <= s_count THEN At(i, e).label ELSE "auto") \in {"", "auto", "registered"}
      BY AtType DEF Entry
    <3> QED
      BY <2>1, <3>1, AtType, EntryFields
  <2> HIDE DEF entry
  <2> QED
    BY <1>2, <2>2, <2>3, TouchStays DEF Update, power
<1> QED
  BY <1>1, <1>2

LEMMA RecordAckStays ==
  ASSUME TypeOK, NEW e \in Euis, RecordAck(e)
  PROVE  CmdsStay /\ UNCHANGED up
<1> PICK i \in Find(e), k \in tickets : s_devices' = [s_devices EXCEPT ![i].ack = k.id]
  BY DEF RecordAck
<1>1. s_devices' = [s_devices EXCEPT ![i] = [s_devices[i] EXCEPT !.ack = k.id]]
  BY FindType DEF TypeOK
<1>2. \A j \in Slots : s_devices'[j].cmd = s_devices[j].cmd
  BY <1>1, FindType, EntryKeepsCmd DEF TypeOK
<1>3. 1..s_count \subseteq Slots /\ s_count \in Nat
  BY SizeAssumption DEF TypeOK, Slots
<1>4. /\ UNCHANGED <<s_count, up, cmds>>
      /\ \A j \in 1..s_count : s_devices'[j].eui = s_devices[j].eui
  BY CommandKeeps DEF RecordAck
<1>5. \A j \in 1..s_count' : ~(j > s_count)
  BY <1>3, <1>4
<1> QED
  BY <1>2, <1>3, <1>4, <1>5 DEF CmdsStay

LEMMA OtherStays ==
  ASSUME TypeOK, up, SweepStep \/ (\E t \in Tasks : SaveStep(t)) \/ Tick \/ UNCHANGED vars
  PROVE  CmdsStay /\ up'
<1> USE DEF table, power, tasks, nvs, cmds
<1>1. s_count \in Nat /\ 1..s_count \subseteq Slots /\ \A j \in 1..s_count : ~(j > s_count)
  BY SizeAssumption DEF TypeOK, Slots
<1>2. CASE SweepMark
  <2>1. \A i \in Slots : s_devices'[i].eui = s_devices[i].eui /\ s_devices'[i].cmd = s_devices[i].cmd
    BY <1>2, EntryKeepsCmd DEF SweepMark, TypeOK
  <2>2. UNCHANGED <<s_count, cmds>> /\ up'
    BY <1>2 DEF SweepMark
  <2> QED
    BY <1>1, <2>1, <2>2 DEF CmdsStay
<1>3. CASE UNCHANGED <<s_devices, s_count, up, cmds>>
  BY <1>1, <1>3 DEF CmdsStay
<1>4. SweepStart \/ SweepCheck \/ Tick \/ UNCHANGED vars => UNCHANGED <<s_devices, s_count, up, cmds>>
  BY DEF SweepStart, SweepCheck, Tick, vars
<1>5. (\E t \in Tasks : SaveStep(t)) => UNCHANGED <<s_devices, s_count, up, cmds>>
  BY DEF SaveStep, SaveCount, SaveBlob, SaveCommit, SaveClear, SaveCountFails, SaveBlobFails
<1> QED
  BY <1>2, <1>3, <1>4, <1>5 DEF SweepStep

\* The command that is handed over has a ticket, was never handed over before, and
\* is in no other slot.
LEMMA PopStep ==
  ASSUME TypeOK, TypeOK', UniqueEuis, CmdInv, NEW e \in Euis, PopCmd(e)
  PROVE  /\ CmdInv'
         /\ LatestRequestKept => LatestRequestKept'
<1>1. PICK i \in Find(e) :
        /\ s_devices[i].cmd # CmdNone
        /\ s_devices' = [s_devices EXCEPT ![i].cmd = CmdNone, ![i].cmd_id = 0]
        /\ handed' = [handed EXCEPT ![<<e, s_devices[i].cmd>>] = @ + 1]
  BY DEF PopCmd
<1>2. PICK c : c = s_devices[i].cmd
  OBVIOUS
<1>3. i \in Slots /\ i \in 1..s_count /\ s_devices[i] \in Entry /\ s_devices[i].eui = e
  BY FindType
<1>4. c \in Requests
  BY <1>1, <1>2, <1>3 DEF Entry, Cmds
<1>5. s_devices' = [s_devices EXCEPT ![i] = [s_devices[i] EXCEPT !.cmd = CmdNone, !.cmd_id = 0]]
  BY <1>1, <1>3 DEF TypeOK
<1>6. s_devices'[i].cmd = CmdNone /\ \A j \in Slots : j # i => s_devices'[j] = s_devices[j]
  BY <1>3, <1>5, EntryKeepsCmd DEF TypeOK
<1>7. UNCHANGED <<s_count, up, tickets, s_cmd_id_counter>>
  BY DEF PopCmd, power
<1>8. \A j \in 1..s_count : j \in Slots
  BY SizeAssumption DEF TypeOK, Slots
<1>9. handed[<<e, c>>] = 0 /\ \E k \in tickets : k.cmd = c /\ k.eui = e
  BY <1>1, <1>2, <1>3 DEF CmdInv, PendingAt
<1>10. /\ handed'[<<e, c>>] = 1
       /\ \A f \in Euis, d \in Requests : <<f, d>> # <<e, c>> => handed'[<<f, d>>] = handed[<<f, d>>]
  BY <1>1, <1>2, <1>4, <1>9 DEF TypeOK
<1>11. ASSUME NEW j \in 1..s_count PROVE PendingAt(j)'
  <2>1. CASE j = i
    BY <1>6, <2>1 DEF PendingAt
  <2>2. CASE j # i
    <3>1. s_devices'[j] = s_devices[j] /\ s_devices[j].eui # e
      BY <1>3, <1>6, <1>8, <2>2 DEF UniqueEuis, Distinct
    <3>2. s_devices[j].cmd \in Cmds /\ s_devices[j].eui \in Euis
      BY <1>8 DEF TypeOK, Entry, UniqueEuis, Distinct
    <3> QED
      BY <1>7, <1>10, <3>1, <3>2 DEF CmdInv, PendingAt, Cmds
  <2> QED
    BY <2>1, <2>2
<1>12. CmdInv'
  <2>1. HandedOnce'
    <3> SUFFICES ASSUME NEW f \in Euis, NEW d \in Requests
                 PROVE  /\ handed'[<<f, d>>] <= 1
                        /\ handed'[<<f, d>>] > 0 => \E k \in tickets : k.cmd = d /\ k.eui = f
      BY <1>7 DEF HandedOnce
    <3>1. CASE f = e /\ d = c
      BY <1>9, <1>10, <3>1
    <3>2. CASE ~(f = e /\ d = c)
      BY <1>10, <3>2 DEF CmdInv, HandedOnce
    <3> QED
      BY <3>1, <3>2
  <2> QED
    BY <1>7, <1>11, <2>1 DEF CmdInv
<1>13. ASSUME LatestRequestKept PROVE LatestRequestKept'
  <2>1. ASSUME NEW k \in tickets
        PROVE  \/ handed'[<<k.eui, k.cmd>>] > 0
               \/ \E j \in Find(k.eui)' : s_devices'[j].cmd = k.cmd
               \/ \E later \in tickets : later.eui = k.eui /\ k.cmd \in later.before
    <3>1. k.cmd \in Requests /\ k.eui \in Euis
      BY DEF TypeOK
    <3>2. CASE k.cmd = c
      BY <1>9, <1>10, <3>2 DEF CmdInv
    <3>3. ASSUME k.cmd # c, NEW j \in Find(k.eui), s_devices[j].cmd = k.cmd
          PROVE  j \in Find(k.eui)' /\ s_devices'[j].cmd = k.cmd
      BY <1>2, <1>6, <1>7, <1>8, <3>3 DEF Find
    <3>4. CASE k.cmd # c
      BY <1>10, <1>13, <3>1, <3>3, <3>4 DEF LatestRequestKept
    <3> QED
      BY <3>2, <3>4
  <2> QED
    BY <1>7, <1>13, <2>1 DEF LatestRequestKept
<1> QED
  BY <1>12, <1>13

\* A command is queued once; it takes the place of the one before it.
LEMMA QueueStep ==
  ASSUME TypeOK, TypeOK', UniqueEuis, CmdInv, NEW e \in Euis, NEW c \in Requests, QueueCmd(e, c)
  PROVE  CmdInv'
<1>1. PICK i \in Find(e) :
        s_devices' = [s_devices EXCEPT ![i].cmd = c, ![i].cmd_id = s_cmd_id_counter']
  BY DEF QueueCmd
<1>2. i \in Slots /\ i \in 1..s_count /\ s_devices[i] \in Entry /\ s_devices[i].eui = e
  BY FindType
<1>3. s_devices' = [s_devices EXCEPT ![i] = [s_devices[i] EXCEPT !.cmd = c, !.cmd_id = s_cmd_id_counter']]
  BY <1>1, <1>2 DEF TypeOK
<1>4. /\ s_devices'[i].cmd = c /\ s_devices'[i].eui = e
      /\ \A j \in Slots : j # i => s_devices'[j] = s_devices[j]
  BY <1>2, <1>3, EntryKeepsCmd, EntryKeeps DEF TypeOK
<1>5. PICK t : tickets' = tickets \cup {t} /\ t = Ticket(e, c, s_cmd_id_counter')
  BY DEF QueueCmd
<1>6. UNCHANGED <<s_count, up, handed>> /\ \A k \in tickets : k.cmd # c
  BY DEF QueueCmd, power
<1>7. \A f \in Euis : handed[<<f, c>>] = 0
  <2> SUFFICES ASSUME NEW f \in Euis PROVE handed[<<f, c>>] = 0
    OBVIOUS
  <2>1. handed[<<f, c>>] \in Nat
    BY DEF TypeOK
  <2>2. ~(handed[<<f, c>>] > 0)
    BY <1>6 DEF CmdInv, HandedOnce
  <2> QED
    BY <2>1, <2>2
<1>8. t.cmd = c /\ t.eui = e
  BY <1>5 DEF Ticket
<1>9. \A j \in 1..s_count : j \in Slots
  BY SizeAssumption DEF TypeOK, Slots
<1>10. ASSUME NEW j \in 1..s_count PROVE PendingAt(j)'
  <2>1. CASE j = i
    BY <1>4, <1>5, <1>6, <1>7, <1>8, <2>1 DEF PendingAt
  <2>2. CASE j # i
    BY <1>4, <1>5, <1>6, <1>9, <2>2 DEF CmdInv, PendingAt
  <2> QED
    BY <2>1, <2>2
<1>11. \A k, l \in tickets' : k.cmd = l.cmd => k = l
  BY <1>5, <1>6, <1>8 DEF CmdInv
<1> QED
  BY <1>5, <1>6, <1>10, <1>11 DEF CmdInv, HandedOnce

\* The new command is the latest of its node: every other one was there before it.
LEMMA QueueLatest ==
  ASSUME TypeOK, LatestRequestKept, NEW e \in Euis, NEW c \in Requests, QueueCmd(e, c)
  PROVE  LatestRequestKept'
<1>1. PICK i \in Find(e) :
        s_devices' = [s_devices EXCEPT ![i].cmd = c, ![i].cmd_id = s_cmd_id_counter']
  BY DEF QueueCmd
<1>2. i \in Slots /\ i \in 1..s_count /\ s_devices[i] \in Entry /\ s_devices[i].eui = e
  BY FindType
<1>3. s_devices' = [s_devices EXCEPT ![i] = [s_devices[i] EXCEPT !.cmd = c, !.cmd_id = s_cmd_id_counter']]
  BY <1>1, <1>2 DEF TypeOK
<1>4. \A j \in Slots : j # i => s_devices'[j] = s_devices[j]
  BY <1>3 DEF TypeOK
<1>5. PICK t : tickets' = tickets \cup {t} /\ t = Ticket(e, c, s_cmd_id_counter')
  BY DEF QueueCmd
<1>6. UNCHANGED <<s_count, handed>>
  BY DEF QueueCmd
<1>7. t.cmd = c /\ t.eui = e /\ \A k \in tickets : k.cmd \in t.before
  BY <1>5 DEF Ticket
<1> SUFFICES ASSUME NEW k \in tickets'
             PROVE  \/ handed'[<<k.eui, k.cmd>>] > 0
                    \/ \E j \in Find(k.eui)' : s_devices'[j].cmd = k.cmd
                    \/ \E later \in tickets' : later.eui = k.eui /\ k.cmd \in later.before
  BY DEF LatestRequestKept
<1>8. \A j \in 1..s_count : j \in Slots
  BY SizeAssumption DEF TypeOK, Slots
<1>9. CASE k = t
  <2>1. s_devices'[i].cmd = c /\ s_devices'[i].eui = e
    BY <1>2, <1>3, EntryKeepsCmd, EntryKeeps DEF TypeOK
  <2> QED
    BY <1>2, <1>6, <1>7, <1>9, <2>1 DEF Find
<1>10. CASE k # t /\ k.eui = e
  BY <1>5, <1>7, <1>10
<1>11. CASE k # t /\ k.eui # e
  <2>1. k \in tickets
    BY <1>5, <1>11
  <2>2. ASSUME NEW j \in Find(k.eui), s_devices[j].cmd = k.cmd
        PROVE  j \in Find(k.eui)' /\ s_devices'[j].cmd = k.cmd
    BY <1>2, <1>4, <1>6, <1>8, <1>11, <2>2 DEF Find
  <2> QED
    BY <1>5, <1>6, <2>1, <2>2 DEF LatestRequestKept
<1> QED
  BY <1>9, <1>10, <1>11

------------------------------------------------------------------------------

LEMMA CmdInit == Init => CmdInv /\ LatestRequestKept
<1> SUFFICES ASSUME Init PROVE CmdInv /\ LatestRequestKept
  OBVIOUS
<1> QED
  BY DEF Init, CmdInv, HandedOnce, LatestRequestKept

LEMMA CmdStep ==
  ASSUME MaxCrashes = 0, TypeOK, TypeOK', UniqueEuis, CmdInv, [Next]_vars
  PROVE  /\ CmdInv'
         /\ LatestRequestKept => LatestRequestKept'
<1>1. up /\ ~Crash /\ ~Boot
  BY DEF CmdInv, Crash, Boot, TypeOK
<1>2. ASSUME NEW e \in Euis, CoapStep(e)
      PROVE  CmdInv' /\ (LatestRequestKept => LatestRequestKept')
  BY <1>1, <1>2, RequestStays, RecordAckStays, StayStep, PopStep DEF CoapStep
<1>3. CASE SweepStep \/ (\E t \in Tasks : SaveStep(t)) \/ Tick \/ UNCHANGED vars
  BY <1>1, <1>3, OtherStays, StayStep
<1>4. ASSUME NEW e \in Euis, NEW c \in Requests, QueueCmd(e, c)
      PROVE  /\ CmdInv'
             /\ LatestRequestKept => LatestRequestKept'
  BY <1>4, QueueStep, QueueLatest
<1> QED
  BY <1>1, <1>2, <1>3, <1>4 DEF Next

\* Without a power cut no command is handed over twice, or to another node than its
\* own, whatever the requests, sweeps and saves in between (app_device_registry.h:104).
THEOREM HandedOver == ASSUME MaxCrashes = 0 PROVE Spec => []HandedOnce
<1>1. CmdInv => HandedOnce
  BY DEF CmdInv
<1> QED
  BY CmdInit, CmdStep, <1>1, TypeCorrect, AlwaysUnique, PTL DEF Spec

\* Without a power cut the latest command of a node is pending until the node takes
\* it, however many commands there are and however often their ids wrap.
THEOREM LatestKept == ASSUME MaxCrashes = 0 PROVE Spec => []LatestRequestKept
<1> QED
  BY CmdInit, CmdStep, TypeCorrect, AlwaysUnique, PTL DEF Spec

------------------------------------------------------------------------------
(* The letter box: which step of CommandSlot each step of the registry is. *)

LEMMA WaitingOf ==
  ASSUME NEW e \in Euis
  PROVE  /\ Waiting[e] = {s_devices[i].cmd : i \in Find(e)} \ {CmdNone}
         /\ Waiting'[e] = {s_devices'[i].cmd : i \in Find(e)'} \ {CmdNone}
  BY DEF Waiting

\* A step that leaves commands alone is a stutter of the letter boxes.
LEMMA StayBox ==
  ASSUME TypeOK, TypeOK', CmdsStay
  PROVE  UNCHANGED <<Offered, Waiting, Moving>>
<1>1. s_count \in Nat /\ s_count' \in Nat
  BY SizeAssumption DEF TypeOK
<1>2. UNCHANGED <<tickets, handed>>
  BY DEF CmdsStay, cmds
<1>3. ASSUME NEW e \in Euis PROVE Waiting'[e] = Waiting[e]
  <2>1. \A i \in Find(e) : i \in Find(e)' /\ s_devices'[i].cmd = s_devices[i].cmd
    BY <1>1 DEF Find, CmdsStay
  <2>2. \A i \in Find(e)' : s_devices'[i].cmd # CmdNone => i \in Find(e)
    BY <1>1 DEF Find, CmdsStay
  <2>3. /\ {s_devices'[i].cmd : i \in Find(e)'} \ {CmdNone} \subseteq {s_devices[i].cmd : i \in Find(e)}
        /\ {s_devices[i].cmd : i \in Find(e)} \ {CmdNone} \subseteq {s_devices'[i].cmd : i \in Find(e)'}
    BY <2>1, <2>2
  <2> QED
    BY <2>3, WaitingOf
<1>4. Waiting' = Waiting
  BY <1>3 DEF Waiting
<1> QED
  BY <1>2, <1>4 DEF Offered, Moving

\* GET /cmd hands over what is in the box, which is the only one of its node.
LEMMA PopBox ==
  ASSUME TypeOK, TypeOK', UniqueEuis, CmdInv, NEW e \in Euis, PopCmd(e)
  PROVE  \E c \in Requests : Box!HandOver(e, c)
<1>1. PICK i \in Find(e) :
        /\ s_devices[i].cmd # CmdNone
        /\ s_devices' = [s_devices EXCEPT ![i].cmd = CmdNone, ![i].cmd_id = 0]
        /\ handed' = [handed EXCEPT ![<<e, s_devices[i].cmd>>] = @ + 1]
  BY DEF PopCmd
<1>2. PICK c : c = s_devices[i].cmd
  OBVIOUS
<1>3. i \in Slots /\ i \in 1..s_count /\ s_devices[i] \in Entry /\ s_devices[i].eui = e
  BY FindType
<1>4. c \in Requests
  BY <1>1, <1>2, <1>3 DEF Entry, Cmds
<1>5. s_devices' = [s_devices EXCEPT ![i] = [s_devices[i] EXCEPT !.cmd = CmdNone, !.cmd_id = 0]]
  BY <1>1, <1>3 DEF TypeOK
<1>6. /\ s_devices'[i].cmd = CmdNone /\ s_devices'[i].eui = e
      /\ \A j \in Slots : j # i => s_devices'[j] = s_devices[j]
  BY <1>3, <1>5, EntryKeepsCmd, EntryKeeps DEF TypeOK
<1>7. UNCHANGED <<s_count, tickets>>
  BY DEF PopCmd
<1>8. \A j \in 1..s_count : j \in Slots
  BY SizeAssumption DEF TypeOK, Slots
<1>9. handed[<<e, c>>] = 0 /\ \E k \in tickets : k.cmd = c /\ k.eui = e
  BY <1>1, <1>2, <1>3 DEF CmdInv, PendingAt
<1>10. /\ handed'[<<e, c>>] = 1
       /\ \A f \in Euis, d \in Requests : <<f, d>> # <<e, c>> => handed'[<<f, d>>] = handed[<<f, d>>]
  BY <1>1, <1>2, <1>4, <1>9 DEF TypeOK
<1>11. Find(e) = {i} /\ \A f \in Euis : Find(f)' = Find(f)
  <2>1. \A j \in 1..s_count : s_devices'[j].eui = s_devices[j].eui
    BY <1>3, <1>6, <1>8
  <2> QED
    BY <1>3, <1>7, <2>1 DEF Find, UniqueEuis, Distinct
<1>12. Waiting' = [Waiting EXCEPT ![e] = {}]
  <2>1. Waiting'[e] = {}
    BY <1>6, <1>11, WaitingOf
  <2>2. ASSUME NEW f \in Euis, f # e PROVE Waiting'[f] = Waiting[f]
    <3>1. \A j \in Find(f) : j # i /\ j \in Slots
      BY <1>3, <1>8, <2>2 DEF Find
    <3>2. \A j \in Find(f) : s_devices'[j].cmd = s_devices[j].cmd
      BY <1>6, <3>1
    <3>3. {s_devices'[j].cmd : j \in Find(f)'} = {s_devices[j].cmd : j \in Find(f)}
      BY <1>11, <3>2
    <3> QED
      BY <3>3, WaitingOf
  <2>3. Waiting' = [f \in Euis |-> Waiting'[f]] /\ Waiting = [f \in Euis |-> Waiting[f]]
    BY DEF Waiting
  <2> QED
    BY <2>1, <2>2, <2>3
<1>13. Moving' = Moving \cup {<<e, c>>}
  <2>1. \A f \in Euis, d \in Requests : <<f, d>> \in Moving' <=> <<f, d>> \in Moving \cup {<<e, c>>}
    <3> SUFFICES ASSUME NEW f \in Euis, NEW d \in Requests
                 PROVE  handed'[<<f, d>>] > 0 <=> handed[<<f, d>>] > 0 \/ (f = e /\ d = c)
      BY DEF Moving
    <3>1. CASE f = e /\ d = c
      BY <1>10, <3>1
    <3>2. CASE ~(f = e /\ d = c)
      BY <1>10, <3>2
    <3> QED
      BY <3>1, <3>2
  <2>2. Moving \subseteq Euis \X Requests /\ Moving' \subseteq Euis \X Requests
    BY DEF Moving
  <2> QED
    BY <1>4, <2>1, <2>2
<1>14. c \in Waiting[e]
  BY <1>1, <1>2, WaitingOf
<1>15. UNCHANGED Offered
  BY <1>7 DEF Offered
<1> QED
  BY <1>4, <1>12, <1>13, <1>14, <1>15 DEF Box!HandOver

\* A queued command goes into its node's box in place of the one before it.
LEMMA QueueBox ==
  ASSUME TypeOK, TypeOK', UniqueEuis, CmdInv,
         NEW e \in Euis, NEW c \in Requests, QueueCmd(e, c)
  PROVE  Box!Offer(e, c)
<1>1. PICK i \in Find(e) :
        s_devices' = [s_devices EXCEPT ![i].cmd = c, ![i].cmd_id = s_cmd_id_counter']
  BY DEF QueueCmd
<1>2. i \in Slots /\ i \in 1..s_count /\ s_devices[i] \in Entry /\ s_devices[i].eui = e
  BY FindType
<1>3. s_devices' = [s_devices EXCEPT ![i] = [s_devices[i] EXCEPT !.cmd = c, !.cmd_id = s_cmd_id_counter']]
  BY <1>1, <1>2 DEF TypeOK
<1>4. /\ s_devices'[i].cmd = c /\ s_devices'[i].eui = e
      /\ \A j \in Slots : j # i => s_devices'[j] = s_devices[j]
  BY <1>2, <1>3, EntryKeepsCmd, EntryKeeps DEF TypeOK
<1>5. PICK t : tickets' = tickets \cup {t} /\ t = Ticket(e, c, s_cmd_id_counter')
  BY DEF QueueCmd
<1>6. UNCHANGED <<s_count, handed>> /\ \A k \in tickets : k.cmd # c
  BY DEF QueueCmd
<1>7. \A f \in Euis : handed[<<f, c>>] = 0
  <2> SUFFICES ASSUME NEW f \in Euis PROVE handed[<<f, c>>] = 0
    OBVIOUS
  <2>1. handed[<<f, c>>] \in Nat
    BY DEF TypeOK
  <2>2. ~(handed[<<f, c>>] > 0)
    BY <1>6 DEF CmdInv, HandedOnce
  <2> QED
    BY <2>1, <2>2
<1>8. t.cmd = c /\ t.eui = e
  BY <1>5 DEF Ticket
<1>9. \A j \in 1..s_count : j \in Slots
  BY SizeAssumption DEF TypeOK, Slots
<1>10. Find(e) = {i} /\ \A f \in Euis : Find(f)' = Find(f)
  <2>1. \A j \in 1..s_count : s_devices'[j].eui = s_devices[j].eui
    BY <1>2, <1>4, <1>9
  <2> QED
    BY <1>2, <1>6, <2>1 DEF Find, UniqueEuis, Distinct
<1>11. Waiting' = [Waiting EXCEPT ![e] = {c}]
  <2>1. Waiting'[e] = {c}
    BY <1>4, <1>10, WaitingOf, IdentityAssumption
  <2>2. ASSUME NEW f \in Euis, f # e PROVE Waiting'[f] = Waiting[f]
    <3>1. \A j \in Find(f) : j # i /\ j \in Slots
      BY <1>2, <1>9, <2>2 DEF Find
    <3>2. \A j \in Find(f) : s_devices'[j].cmd = s_devices[j].cmd
      BY <1>4, <3>1
    <3>3. {s_devices'[j].cmd : j \in Find(f)'} = {s_devices[j].cmd : j \in Find(f)}
      BY <1>10, <3>2
    <3> QED
      BY <3>3, WaitingOf
  <2>3. Waiting' = [f \in Euis |-> Waiting'[f]] /\ Waiting = [f \in Euis |-> Waiting[f]]
    BY DEF Waiting
  <2> QED
    BY <2>1, <2>2, <2>3
<1>12. Offered' = Offered \cup {<<e, c>>} /\ \A f \in Euis : <<f, c>> \notin Offered
  BY <1>5, <1>6, <1>8 DEF Offered
<1>13. Moving' = Moving
  BY <1>6 DEF Moving
<1> QED
  BY <1>11, <1>12, <1>13 DEF Box!Offer

LEMMA BoxStep ==
  ASSUME MaxCrashes = 0, TypeOK, TypeOK', UniqueEuis, CmdInv, [Next]_vars
  PROVE  [Box!Next]_(Box!vars)
<1>1. up /\ ~Crash /\ ~Boot
  BY DEF CmdInv, Crash, Boot, TypeOK
<1>2. CmdsStay => UNCHANGED Box!vars
  BY StayBox DEF Box!vars
<1>3. ASSUME NEW e \in Euis, CoapStep(e)
      PROVE  [Box!Next]_(Box!vars)
  BY <1>2, <1>3, RequestStays, RecordAckStays, PopBox DEF CoapStep, Box!Next
<1>4. CASE SweepStep \/ (\E t \in Tasks : SaveStep(t)) \/ Tick \/ UNCHANGED vars
  BY <1>1, <1>2, <1>4, OtherStays
<1>5. ASSUME NEW e \in Euis, NEW c \in Requests, QueueCmd(e, c)
      PROVE  Box!Next
  BY <1>5, QueueBox DEF Box!Next
<1> QED
  BY <1>1, <1>3, <1>4, <1>5 DEF Next

\* Without a power cut the registry implements the letter boxes of CommandSlot:
\* what CommandPipeline takes for one step of the router is one, whichever of
\* the four tasks run in between.
THEOREM ImplementsBox == ASSUME MaxCrashes = 0 PROVE Spec => KeepsBox
<1>1. Init => Box!Init
  <2> SUFFICES ASSUME Init PROVE Box!Init
    OBVIOUS
  <2>1. Offered = {} /\ Moving = {}
    BY DEF Init, Offered, Moving
  <2>2. \A e \in Euis : Find(e) = {}
    <3>1. s_count = 0 /\ 1..0 = {}
      BY DEF Init
    <3> QED
      BY <3>1 DEF Find
  <2>3. Waiting = [e \in Euis |-> {}]
    BY <2>2 DEF Waiting
  <2> QED
    BY <2>1, <2>3 DEF Box!Init
<1> QED
  BY <1>1, CmdInit, CmdStep, BoxStep, TypeCorrect, AlwaysUnique, PTL DEF Spec, KeepsBox, Box!Spec
==============================================================================
