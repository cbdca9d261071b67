----------------------- MODULE DeviceRegistryDurability -----------------------
(***************************************************************************)
(* What DeviceRegistry promises across power cuts and in its sweep: it     *)
(* implements DurableRegistry, no power cut takes back a registration that *)
(* was answered as long as NVS calls succeed, and the sweep declares no    *)
(* node offline that got through within the TTL.                           *)
(***************************************************************************)
EXTENDS DeviceRegistryProofs, FiniteSetTheorems

------------------------------------------------------------------------------
(* The refinement: each step of the registry maps to a step of the promise *)
(* or leaves what the promise is about unchanged.                          *)

\* n entries name at most n nodes.
LEMMA EuisBound ==
  ASSUME NEW entries, NEW n \in Nat
  PROVE  Cardinality(EuisOf(entries, n)) <= n
<1> DEFINE g == [i \in 1..n |-> entries[i].eui]
<1>1. g \in Surjection(1..n, EuisOf(entries, n))
  BY DEF Surjection, EuisOf
<1>2. IsFiniteSet(1..n) /\ Cardinality(1..n) = n
  BY FS_Interval
<1> QED
  BY <1>1, <1>2, FS_Surjection

\* Two tables that agree on the first n identities name the same nodes.
LEMMA EuisSame ==
  ASSUME NEW f, NEW g, NEW n, \A i \in 1..n : f[i].eui = g[i].eui
  PROVE  EuisOf(f, n) = EuisOf(g, n)
  BY DEF EuisOf

\* An image names only nodes of the table it is a prefix of.
LEMMA PrefixEuis ==
  ASSUME TypeOK, NEW img \in Image, Prefix(img)
  PROVE  EuisOf(img.blob, img.blob_len) \subseteq EuisOf(s_devices, s_count)
<1>1. img.blob_len \in Nat /\ s_count \in Nat /\ img.blob_len <= s_count
  BY SizeAssumption DEF TypeOK, Image, Prefix
<1>2. \A i \in 1..img.blob_len : i \in 1..s_count
  BY <1>1
<1> QED
  BY <1>2 DEF EuisOf, Prefix

\* What is durable is in the last contents written, and is known.
LEMMA DurableKnown ==
  ASSUME TypeOK, IInv
  PROVE  /\ Durable \subseteq EuisOf(written.blob, written.blob_len)
         /\ Durable \subseteq Known
         /\ EuisOf(written.blob, written.blob_len) \subseteq Known
<1>1. written \in flash /\ written \in Image
  BY DEF IInv, ImagesSound, TypeOK
<1>2. Durable \subseteq EuisOf(written.blob, written.blob_len)
  BY <1>1 DEF Durable
<1>3. EuisOf(written.blob, written.blob_len) \subseteq Known
  BY <1>1, PrefixEuis DEF Known, IInv, ImagesSound
<1> QED
  BY <1>2, <1>3

\* A step that keeps the identities and the flash keeps what is promised.
LEMMA QuietMaps ==
  ASSUME TypeOK, UNCHANGED <<s_count, written, flash, up>>,
         \A i \in 1..s_count : s_devices'[i].eui = s_devices[i].eui
  PROVE  UNCHANGED <<Known, Durable>>
<1>1. EuisOf(s_devices', s_count') = EuisOf(s_devices, s_count)
  BY EuisSame
<1> QED
  BY <1>1 DEF Known, Durable

\* DurableRegistry counts with the same Cardinality.
LEMMA SameCardinality == ASSUME NEW S PROVE Promise!Cardinality(S) = Cardinality(S)
  BY Zenon DEF Promise!Cardinality, Cardinality

\* A request that gets through makes its node known.
LEMMA TouchMaps ==
  ASSUME TypeOK, NEW e \in Euis, NEW i \in SlotFor(e), NEW entry \in Entry,
         entry.eui = e, i <= s_count => entry.label \in {s_devices[i].label, "registered"},
         Touch(i, e, entry), up, UNCHANGED <<written, flash, up>>
  PROVE  Promise!Learn
<1>1. /\ s_count \in Nat /\ s_count' \in Nat /\ s_count <= s_count' /\ i \in 1..s_count'
      /\ s_count' <= MaxNodes
  <2>1. s_count \in 0..MaxNodes /\ s_count' \in 0..MaxNodes
    BY TouchType DEF TypeOK
  <2>2. s_count <= s_count' /\ i <= s_count'
    BY TouchGrows
  <2>3. i \in 1..MaxNodes
    BY SlotForType DEF Slots
  <2> QED
    BY <2>1, <2>2, <2>3, SizeAssumption
<1>2. EuisOf(s_devices', s_count') = EuisOf(s_devices, s_count) \cup {e}
  <2>1. \A j \in 1..s_count : j \in 1..s_count'
    BY <1>1
  <2>2. e \in EuisOf(s_devices', s_count')
    BY <1>1, TouchGrows DEF EuisOf
  <2>3. EuisOf(s_devices, s_count) \subseteq EuisOf(s_devices', s_count')
    BY <2>1, TouchGrows DEF EuisOf
  <2>4. \A j \in 1..s_count' : j \in 1..s_count \/ s_devices'[j].eui = e
    BY <1>1, TouchGrows
  <2>5. EuisOf(s_devices', s_count') \subseteq EuisOf(s_devices, s_count) \cup {e}
    BY <2>4, TouchGrows DEF EuisOf
  <2> QED
    BY <2>2, <2>3, <2>5
<1>3. Known' = Known \cup {e} /\ Durable' = Durable
  BY <1>2 DEF Known, Durable
<1>4. Cardinality(Known \cup {e}) <= MaxNodes
  <2>1. Cardinality(EuisOf(s_devices', s_count')) <= s_count'
    BY <1>1, EuisBound
  <2>2. Cardinality(EuisOf(s_devices', s_count')) \in Nat
    <3>1. IsFiniteSet(1..s_count')
      BY <1>1, FS_Interval
    <3>2. [j \in 1..s_count' |-> s_devices'[j].eui] \in
            Surjection(1..s_count', EuisOf(s_devices', s_count'))
      BY DEF Surjection, EuisOf
    <3> QED
      BY <3>1, <3>2, FS_Surjection, FS_CardinalityType
  <2>3. EuisOf(s_devices', s_count') = Known \cup {e}
    BY <1>2 DEF Known
  <2> QED
    BY <1>1, <2>1, <2>2, <2>3, SizeAssumption
<1> QED
  <2> SUFFICES \E x \in Euis : /\ Cardinality(Known \cup {x}) <= MaxNodes
                               /\ Known' = Known \cup {x} /\ Durable' = Durable
    BY SameCardinality DEF Promise!Learn
  <2> QED
    BY <1>3, <1>4

LEMMA RequestMaps ==
  ASSUME TypeOK, NEW e \in Euis, Register(e) \/ Update(e)
  PROVE  Promise!Learn
<1>1. CASE Register(e)
  <2> DEFINE entry(i) == [At(i, e) EXCEPT !.label = "registered"]
  <2> PICK i \in SlotFor(e) : Touch(i, e, entry(i))
    BY <1>1 DEF Register
  <2>1. entry(i) \in Entry
    BY AtType, EntryFields
  <2>2. entry(i).eui = e /\ entry(i).label = "registered"
    BY AtType, EntryKeeps
  <2>3. up /\ UNCHANGED <<written, flash, up>>
    BY <1>1 DEF Register, Serving, Unlocked, nvs, power
  <2> HIDE DEF entry
  <2> QED
    BY <2>1, <2>2, <2>3, TouchMaps
<1>2. CASE Update(e)
  <2> PICK i \in SlotFor(e) : \E entry \in Entry :
        /\ entry.eui = e /\ (i <= s_count => entry.label = s_devices[i].label)
        /\ Touch(i, e, entry)
    BY <1>2, UpdateEntry
  <2> PICK entry \in Entry :
        /\ entry.eui = e /\ (i <= s_count => entry.label = s_devices[i].label)
        /\ Touch(i, e, entry)
    OBVIOUS
  <2>1. up /\ UNCHANGED <<written, flash, up>>
    BY <1>2 DEF Update, Serving, Unlocked, nvs, power
  <2> QED
    BY <2>1, TouchMaps
<1> QED
  BY <1>1, <1>2

LEMMA SaveMaps ==
  ASSUME TypeOK, IInv, NEW t \in Tasks, SaveStep(t)
  PROVE  UNCHANGED <<Known, Durable>> \/ Promise!Persist
<1>1. ASSUME NEW img \in Image, Put(img), UNCHANGED <<table, up>>,
             Durable \subseteq EuisOf(img.blob, img.blob_len), up
      PROVE  UNCHANGED <<Known, Durable>>
  BY <1>1 DEF Put, Known, Durable, table
<1>2. CASE SaveCount(t)
  <2> DEFINE img == [written EXCEPT !.count = s_count]
  <2>1. img \in Image /\ img.blob = written.blob /\ img.blob_len = written.blob_len
    BY DEF TypeOK, Image
  <2>2. Put(img) /\ UNCHANGED <<table, up>> /\ up
    BY <1>2 DEF SaveCount, power, Unlocked
  <2> HIDE DEF img
  <2> QED
    BY <1>1, <2>1, <2>2, DurableKnown
<1>3. CASE SaveBlob(t)
  <2> DEFINE img == [written EXCEPT !.blob_len = s_count, !.blob = s_devices]
  <2>1. img \in Image /\ img.blob = s_devices /\ img.blob_len = s_count
    BY DEF TypeOK, Image
  <2>2. Put(img) /\ UNCHANGED <<table, up>> /\ up
    BY <1>3 DEF SaveBlob, power
  <2>3. Durable \subseteq EuisOf(s_devices, s_count)
    BY <2>2, DurableKnown DEF Known
  <2> HIDE DEF img
  <2> QED
    BY <1>1, <2>1, <2>2, <2>3
<1>4. CASE SaveCommit(t)
  <2>1. UNCHANGED <<table, written, up>>
    BY <1>4 DEF SaveCommit, power
  <2>2. Known' = Known
    BY <2>1 DEF Known, table
  <2>3. CASE flash' = flash
    BY <2>2, <2>3 DEF Durable
  <2>4. CASE flash' = {written}
    <3>1. Durable' = {e \in Euis : e \in EuisOf(written.blob, written.blob_len)}
      BY <2>1, <2>4 DEF Durable
    <3>2. Durable \subseteq Durable' /\ Durable' \subseteq Known
      BY <3>1, DurableKnown DEF Durable
    <3> QED
      BY <2>2, <3>2 DEF Promise!Persist
  <2> QED
    BY <1>4, <2>3, <2>4 DEF SaveCommit
<1>5. CASE SaveClear(t) \/ SaveCountFails(t) \/ SaveBlobFails(t)
  <2>1. UNCHANGED <<s_devices, s_count, written, flash, up>>
    BY <1>5 DEF SaveClear, SaveCountFails, SaveBlobFails, table, nvs, power
  <2> QED
    BY <2>1, QuietMaps
<1> QED
  BY <1>2, <1>3, <1>4, <1>5 DEF SaveStep

LEMMA CrashMaps ==
  ASSUME TypeOK, IInv, Crash
  PROVE  Promise!PowerCut
<1> PICK img \in flash : written' = img /\ flash' = {img}
  BY DEF Crash
<1>1. up /\ up' = FALSE
  BY DEF Crash
<1>2. img \in Image /\ Prefix(img) /\ Distinct(img.blob, img.blob_len)
  BY <1>1 DEF IInv, ImagesSound, TypeOK
<1>3. Known' = EuisOf(img.blob, img.blob_len)
  BY <1>1 DEF Known
<1>4. Known' \subseteq Known
  BY <1>1, <1>2, <1>3, PrefixEuis DEF Known
<1>5. Known' \subseteq Euis
  BY <1>2, <1>3 DEF EuisOf, Distinct
<1>6. Durable' = Known'
  BY <1>3, <1>5 DEF Durable
<1>7. Durable \subseteq Known'
  BY <1>3 DEF Durable
<1> QED
  BY <1>4, <1>6, <1>7 DEF Promise!PowerCut

LEMMA BootMaps ==
  ASSUME TypeOK, IInv, Boot
  PROVE  UNCHANGED <<Known, Durable>>
<1>1. ~up /\ up' = TRUE /\ Loads(written) /\ UNCHANGED <<written, flash>>
  BY DEF Boot, IInv, PowerOff, ImagesSound, ImageRestorable, nvs
<1>2. written \in Image /\ written.blob_len \in 0..MaxNodes
  BY DEF TypeOK, Image
<1>3. /\ s_count' = written.blob_len
      /\ s_devices' = [i \in Slots |-> IF i <= written.blob_len
                                        THEN [written.blob[i] EXCEPT !.online = FALSE]
                                        ELSE ZeroEntry]
  BY <1>1 DEF Boot
<1>4. \A i \in 1..written.blob_len : s_devices'[i].eui = written.blob[i].eui
  <2> SUFFICES ASSUME NEW i \in 1..written.blob_len
               PROVE  s_devices'[i].eui = written.blob[i].eui
    OBVIOUS
  <2>1. i \in Slots /\ i <= written.blob_len /\ written.blob[i] \in Entry
    BY <1>2, SizeAssumption DEF Slots, Image
  <2>2. s_devices'[i] = [written.blob[i] EXCEPT !.online = FALSE]
    BY <1>3, <2>1
  <2> QED
    BY <2>1, <2>2, EntryKeeps
<1>5. EuisOf(s_devices', s_count') = EuisOf(written.blob, written.blob_len)
  <2>1. EuisOf(s_devices', written.blob_len) = EuisOf(written.blob, written.blob_len)
    BY <1>4, EuisSame
  <2> QED
    BY <1>3, <2>1
<1> QED
  BY <1>1, <1>5 DEF Known, Durable

LEMMA StepMaps ==
  ASSUME TypeOK, IInv, [Next]_vars
  PROVE  [Promise!Next]_<<Known, Durable>>
<1>1. CASE UNCHANGED vars
  BY <1>1, QuietMaps DEF vars, table, nvs, power
<1>2. ASSUME NEW e \in Euis, CoapStep(e)
      PROVE  [Promise!Next]_<<Known, Durable>>
  <2>1. CASE Register(e) \/ Update(e)
    BY <2>1, RequestMaps DEF Promise!Next
  <2>2. CASE PopCmd(e) \/ RecordAck(e)
    BY <2>2, CommandKeeps, QuietMaps
  <2> QED
    BY <1>2, <2>1, <2>2 DEF CoapStep
<1>3. ASSUME NEW e \in Euis, NEW c \in Requests, QueueCmd(e, c)
      PROVE  [Promise!Next]_<<Known, Durable>>
  BY <1>3, CommandKeeps, QuietMaps
<1>4. CASE SweepStep
  BY <1>4, SweepKeepsTable, QuietMaps
<1>5. ASSUME NEW t \in Tasks, SaveStep(t)
      PROVE  [Promise!Next]_<<Known, Durable>>
  BY <1>5, SaveMaps DEF Promise!Next
<1>6. CASE Tick
  BY <1>6, QuietMaps DEF Tick, table, nvs, power
<1>7. CASE Crash
  BY <1>7, CrashMaps DEF Promise!Next
<1>8. CASE Boot
  BY <1>8, BootMaps
<1> QED
  BY <1>1, <1>2, <1>3, <1>4, <1>5, <1>6, <1>7, <1>8 DEF Next

\* The registry keeps the promise of DurableRegistry: a known node is
\* forgotten only by a power cut, a node whose record reached the flash never,
\* and no power cut, wherever it falls in a save, invents one.
THEOREM Implements == Spec => KeepsPromise
<1>1. Init => Promise!Init
  <2> SUFFICES ASSUME Init PROVE Promise!Init
    OBVIOUS
  <2>1. \A entries : EuisOf(entries, 0) = {}
    BY DEF EuisOf
  <2>2. Known = {}
    BY <2>1 DEF Init, Known
  <2>3. Durable = {}
    BY <2>1 DEF Init, Durable, BlankImage
  <2> QED
    BY <2>2, <2>3 DEF Promise!Init
<1>2. TypeOK /\ IInv /\ [Next]_vars => [Promise!Next]_<<Known, Durable>>
  BY StepMaps
<1> QED
  BY <1>1, <1>2, TypeCorrect, Inductive, PTL DEF Spec, KeepsPromise, Promise!Spec

------------------------------------------------------------------------------
(* Registrations.  A save copies the whole table, so what is in one image  *)
(* is in every later one, and a registration is answered only once it is   *)
(* in every image a power cut could leave.                                 *)

InImage(e, img) == \E i \in 1..img.blob_len : /\ img.blob[i].eui = e
                                               /\ img.blob[i].label = "registered"

InTable(e) == \E i \in 1..s_count : /\ s_devices[i].eui = e
                                    /\ s_devices[i].label = "registered"

DInv ==
  /\ \A e \in created : \A img \in flash : InImage(e, img)
  /\ pc["coap"] # "idle" => InTable(registrant)
  /\ pc["coap"] = "commit" => InImage(registrant, written)
  /\ pc["coap"] = "clear" => \A img \in flash : InImage(registrant, img)

\* What an image of the flash names as registered, so does the table.
LEMMA ImageInTable ==
  ASSUME TypeOK, NEW img \in Image, Prefix(img), NEW e, InImage(e, img)
  PROVE  InTable(e)
<1>1. img.blob_len \in Nat /\ s_count \in Nat /\ img.blob_len <= s_count
  BY SizeAssumption DEF TypeOK, Image, Prefix
<1>2. \A i \in 1..img.blob_len : i \in 1..s_count
  BY <1>1
<1> QED
  BY <1>2 DEF InImage, InTable, Prefix

\* A step that leaves identities, flash and the CoAP task alone.
LEMMA QuietDurable ==
  ASSUME DInv, UNCHANGED <<s_count, written, flash, created, registrant>>,
         pc'["coap"] = pc["coap"],
         \A i \in 1..s_count : /\ s_devices'[i].eui = s_devices[i].eui
                               /\ s_devices'[i].label = s_devices[i].label
  PROVE  DInv'
<1>1. \A e : InTable(e) => InTable(e)'
  BY DEF InTable
<1> QED
  BY <1>1 DEF DInv, InImage

LEMMA RequestDurable ==
  ASSUME TypeOK, DInv, NEW e \in Euis, Register(e) \/ Update(e)
  PROVE  DInv'
<1>1. CASE Register(e)
  <2> DEFINE entry(i) == [At(i, e) EXCEPT !.label = "registered"]
  <2> PICK i \in SlotFor(e) : Touch(i, e, entry(i))
    BY <1>1 DEF Register
  <2>1. entry(i) \in Entry
    BY AtType, EntryFields
  <2>2. entry(i).eui = e /\ entry(i).label = "registered"
    BY AtType, EntryKeeps
  <2> HIDE DEF entry
  <2>3. i <= s_count' /\ s_devices'[i].eui = e /\ s_devices'[i].label = "registered"
    BY <2>1, <2>2, TouchGrows
  <2>4. i \in 1..s_count'
    <3>1. s_count' \in 0..MaxNodes /\ i \in 1..MaxNodes
      BY <2>1, TouchType, SlotForType DEF Slots
    <3> QED
      BY <2>3, <3>1, SizeAssumption
  <2>5. InTable(e)'
    BY <2>3, <2>4 DEF InTable
  <2>6. registrant' = e /\ pc'["coap"] = "save" /\ UNCHANGED <<written, flash, created>>
    BY <1>1 DEF Register, TypeOK, Tasks, nvs
  <2> QED
    BY <2>5, <2>6 DEF DInv, InImage
<1>2. CASE Update(e)
  BY <1>2 DEF Update, Serving, DInv, InImage, tasks, nvs
<1> QED
  BY <1>1, <1>2

LEMMA SaveDurable ==
  ASSUME ~NvsMayFail, TypeOK, IInv, DInv, NEW t \in Tasks, SaveStep(t)
  PROVE  DInv'
<1>0. pc \in [Tasks -> {"idle", "mark", "check", "save", "blob", "commit", "clear"}]
  BY DEF TypeOK
<1>1. CASE SaveCount(t)
  <2> DEFINE img == [written EXCEPT !.count = s_count]
  <2>1. img.blob = written.blob /\ img.blob_len = written.blob_len
    BY DEF TypeOK, Image
  <2>2. Put(img) /\ UNCHANGED <<s_devices, s_count, created, registrant>> /\ pc[t] = "save"
    BY <1>1 DEF SaveCount, table
  <2>3. pc'[t] = "blob" /\ \A u \in Tasks : u # t => pc'[u] = pc[u]
    BY <1>0, <1>1 DEF SaveCount
  <2>4. \A e : InImage(e, written) => InImage(e, img)
    BY <2>1 DEF InImage
  <2>5. written \in flash
    BY DEF IInv, ImagesSound
  <2>6. \A e : InTable(e)' <=> InTable(e)
    BY <2>2 DEF InTable
  <2>7. \A e, any : InImage(e, any)' <=> InImage(e, any)
    BY DEF InImage
  <2> HIDE DEF img
  <2>8. flash' = flash \cup {img} /\ written' = img
    BY <2>2 DEF Put
  <2>9. \A e \in created' : \A any \in flash' : InImage(e, any)
    BY <2>2, <2>4, <2>5, <2>8 DEF DInv
  <2>10. CASE t = "coap"
    BY <2>2, <2>3, <2>6, <2>9, <2>10 DEF DInv, InImage
  <2>11. CASE t = "timer"
    <3>1. pc'["coap"] = pc["coap"]
      BY <2>3, <2>11 DEF Tasks
    <3>2. pc["coap"] = "commit" => InImage(registrant, written')
      BY <2>4, <2>8 DEF DInv
    <3>3. pc["coap"] = "clear" => \A any \in flash' : InImage(registrant, any)
      BY <2>4, <2>5, <2>8 DEF DInv
    <3> QED
      BY <2>2, <2>6, <2>9, <3>1, <3>2, <3>3 DEF DInv, InImage
  <2> QED
    BY <2>10, <2>11 DEF Tasks
<1>2. CASE SaveBlob(t)
  <2> DEFINE img == [written EXCEPT !.blob_len = s_count, !.blob = s_devices]
  <2>1. img.blob = s_devices /\ img.blob_len = s_count
    BY DEF TypeOK, Image
  <2>2. up /\ Put(img) /\ UNCHANGED <<s_devices, s_count, created, registrant>> /\ pc[t] = "blob"
    BY <1>2 DEF SaveBlob, table
  <2>3. pc'[t] = "commit" /\ \A u \in Tasks : u # t => pc'[u] = pc[u]
    BY <1>0, <1>2 DEF SaveBlob
  <2>4. \A e : InTable(e) => InImage(e, img)
    BY <2>1 DEF InImage, InTable
  <2>5. \A e \in created : InTable(e)
    <3>1. written \in flash /\ written \in Image /\ Prefix(written)
      BY <2>2 DEF IInv, ImagesSound, TypeOK
    <3> QED
      BY <3>1, ImageInTable DEF DInv
  <2>6. \A e : InTable(e)' <=> InTable(e)
    BY <2>2 DEF InTable
  <2> HIDE DEF img
  <2>7. flash' = flash \cup {img} /\ written' = img
    BY <2>2 DEF Put
  <2>8. \A e \in created' : \A any \in flash' : InImage(e, any)
    BY <2>2, <2>4, <2>5, <2>7 DEF DInv
  <2>9. pc["coap"] # "idle"  => InImage(registrant, img)
    BY <2>4 DEF DInv
  <2>10. pc'["coap"] \in {pc["coap"], "commit"} /\ (pc["coap"] = "idle" => pc'["coap"] = "idle")
    BY <2>2, <2>3 DEF Tasks
  <2>11. pc'["coap"] = "clear" => pc["coap"] = "clear"
    BY <2>10
  <2>12. pc'["coap"] = "clear" => \A any \in flash' : InImage(registrant, any)
    BY <2>7, <2>9, <2>11 DEF DInv
  <2> QED
    BY <2>2, <2>6, <2>7, <2>8, <2>9, <2>10, <2>12 DEF DInv, InImage
<1>3. CASE SaveCommit(t)
  <2>1. /\ flash' = {written} /\ written \in flash /\ pc[t] = "commit"
        /\ UNCHANGED <<s_devices, s_count, written, created, registrant>>
    BY <1>3 DEF SaveCommit, IInv, ImagesSound, table
  <2>2. pc'[t] = "clear" /\ \A u \in Tasks : u # t => pc'[u] = pc[u]
    BY <1>0, <1>3 DEF SaveCommit
  <2>3. \A e : InTable(e)' <=> InTable(e)
    BY <2>1 DEF InTable
  <2>4. \A e \in created' : \A any \in flash' : InImage(e, any)
    BY <2>1 DEF DInv
  <2>5. CASE t = "coap"
    BY <2>1, <2>2, <2>3, <2>4, <2>5 DEF DInv, InImage
  <2>6. CASE t = "timer"
    <3>1. pc'["coap"] = pc["coap"]
      BY <2>2, <2>6 DEF Tasks
    <3> QED
      BY <2>1, <2>3, <2>4, <3>1 DEF DInv, InImage
  <2> QED
    BY <2>5, <2>6 DEF Tasks
<1>4. CASE SaveClear(t)
  <2>1. UNCHANGED <<s_devices, s_count, written, flash>> /\ pc[t] = "clear"
    BY <1>4 DEF SaveClear, table, nvs
  <2>2. \A e : InTable(e)' <=> InTable(e)
    BY <2>1 DEF InTable
  <2>3. CASE t = "coap"
    <3>1. pc'["coap"] = "idle" /\ created' = created \cup {registrant}
      BY <1>0, <1>4, <2>3 DEF SaveClear, Return
    <3> QED
      BY <2>1, <2>3, <3>1 DEF DInv, InImage
  <2>4. CASE t = "timer"
    <3>1. pc'["coap"] = pc["coap"] /\ UNCHANGED <<created, registrant>>
      BY <1>0, <1>4, <2>4 DEF SaveClear, Return, Tasks
    <3> QED
      BY <2>1, <3>1, QuietDurable
  <2> QED
    BY <2>3, <2>4 DEF Tasks
<1>5. ~SaveCountFails(t) /\ ~SaveBlobFails(t)
  BY DEF SaveCountFails, SaveBlobFails
<1> QED
  BY <1>1, <1>2, <1>3, <1>4, <1>5 DEF SaveStep

LEMMA DurableStep ==
  ASSUME ~NvsMayFail, TypeOK, IInv, DInv, [Next]_vars
  PROVE  DInv'
<1>1. CASE UNCHANGED vars
  BY <1>1, QuietDurable DEF vars, table, nvs, tasks
<1>2. ASSUME NEW e \in Euis, CoapStep(e)
      PROVE  DInv'
  <2>1. CASE PopCmd(e) \/ RecordAck(e)
    <3>1. UNCHANGED <<created, registrant>>
      BY <2>1 DEF PopCmd, RecordAck, tasks
    <3> QED
      BY <2>1, <3>1, CommandKeeps, QuietDurable
  <2> QED
    BY <1>2, <2>1, RequestDurable DEF CoapStep
<1>3. ASSUME NEW e \in Euis, NEW c \in Requests, QueueCmd(e, c)
      PROVE  DInv'
  <2>1. UNCHANGED <<created, registrant>>
    BY <1>3 DEF QueueCmd, tasks
  <2> QED
    BY <1>3, <2>1, CommandKeeps, QuietDurable
<1>4. CASE SweepStep
  <2>1. UNCHANGED <<created, registrant>> /\ pc'["coap"] = pc["coap"]
    BY <1>4 DEF SweepStep, SweepStart, SweepMark, SweepCheck, TypeOK, Tasks
  <2> QED
    BY <1>4, <2>1, SweepKeepsTable, QuietDurable
<1>5. ASSUME NEW t \in Tasks, SaveStep(t)
      PROVE  DInv'
  BY <1>5, SaveDurable
<1>6. CASE Tick
  BY <1>6, QuietDurable DEF Tick, table, nvs, tasks
<1>7. CASE Crash
  <2>1. flash' \subseteq flash /\ created' = created /\ pc'["coap"] = "idle"
    BY <1>7 DEF Crash, Tasks
  <2> QED
    BY <2>1 DEF DInv, InImage
<1>8. CASE Boot
  <2>1. UNCHANGED <<flash, created, pc>> /\ pc["coap"] = "idle"
    BY <1>8 DEF Boot, nvs, tasks, IInv, PowerOff, Tasks
  <2> QED
    BY <2>1 DEF DInv, InImage
<1> QED
  BY <1>1, <1>2, <1>3, <1>4, <1>5, <1>6, <1>7, <1>8 DEF Next

\* As long as NVS calls succeed, a node answered 2.01 Created is in the table
\* of every later run, under the label it registered with.
THEOREM CreatedNeverLost ==
  ASSUME ~NvsMayFail
  PROVE  Spec => []CreatedSurvives
<1>1. Init => DInv
  BY DEF Init, DInv, Tasks
<1>2. TypeOK /\ IInv /\ DInv /\ [Next]_vars => DInv'
  BY DurableStep
<1>3. TypeOK /\ IInv /\ DInv => CreatedSurvives
  <2> SUFFICES ASSUME TypeOK, IInv, DInv, up, NEW e \in created
               PROVE  \E i \in Find(e) : s_devices[i].label = "registered"
    BY DEF CreatedSurvives
  <2>1. written \in flash /\ written \in Image /\ Prefix(written)
    BY DEF IInv, ImagesSound, TypeOK
  <2>2. InTable(e)
    BY <2>1, ImageInTable DEF DInv
  <2> QED
    BY <2>2 DEF InTable, Find
<1> QED
  BY <1>1, <1>2, <1>3, TypeCorrect, Inductive, PTL DEF Spec

------------------------------------------------------------------------------
(* The sweep.  A slot's time stamp is that of its node's last message, and *)
(* the sweep's clock reading is never ahead of the clock.                  *)

HInv ==
  /\ now_us <= clock
  /\ \A i \in 1..s_count : s_devices[i].online => s_last_seen_mono[i] = heard[s_devices[i].eui]

\* A step that brings no slot online and leaves identities and times alone.
LEMMA QuietHeard ==
  ASSUME HInv, UNCHANGED <<s_count, s_last_seen_mono, heard>>, now_us' <= clock',
         \A i \in 1..s_count : /\ s_devices'[i].eui = s_devices[i].eui
                               /\ s_devices'[i].online => s_devices[i].online
  PROVE  HInv'
  BY DEF HInv

\* A request that gets through stamps its own slot and nobody else's.
LEMMA TouchHeard ==
  ASSUME TypeOK, UniqueEuis, HInv, NEW e \in Euis, NEW i \in SlotFor(e), NEW entry \in Entry,
         entry.eui = e, i <= s_count => entry.label \in {s_devices[i].label, "registered"},
         Touch(i, e, entry), UNCHANGED <<now_us, clock>>
  PROVE  /\ HInv'
         /\ \A x \in Euis : Online(x) => Online(x)'
<1>1. i \in Slots /\ s_devices \in [Slots -> Entry] /\ 1..s_count \subseteq Slots
  BY SlotForType, SizeAssumption DEF TypeOK, Slots
<1>2. s_devices'[i] = [entry EXCEPT !.online = TRUE]
  BY <1>1 DEF Touch
<1>3. s_devices'[i].eui = e /\ s_devices'[i].online
  BY <1>2 DEF Entry
<1>4. s_last_seen_mono'[i] = clock /\ heard'[e] = clock
  BY <1>1 DEF Touch, TypeOK
<1>5. \A j \in 1..s_count : j # i =>
        /\ s_devices'[j] = s_devices[j] /\ s_last_seen_mono'[j] = s_last_seen_mono[j]
        /\ s_devices[j].eui # e
  <2>1. \A j \in 1..s_count : j # i => s_devices[j].eui # e
    <3> SUFFICES ASSUME NEW j \in 1..s_count, j # i, s_devices[j].eui = e PROVE FALSE
      OBVIOUS
    <3>1. j \in Find(e)
      BY DEF Find
    <3>2. i \in Find(e)
      BY <3>1, SlotForType DEF TypeOK, Slots
    <3> QED
      BY <3>1, <3>2 DEF UniqueEuis, Distinct, Find
  <2> QED
    BY <1>1, <2>1 DEF Touch, TypeOK
<1>6. /\ s_count \in Nat /\ s_count' \in Nat /\ s_count <= s_count' /\ i \in 1..s_count'
      /\ \A j \in 1..s_count' : j \in 1..s_count \/ j = i
  <2>1. s_count \in 0..MaxNodes /\ s_count' \in 0..MaxNodes /\ i \in 1..MaxNodes
    BY TouchType, SlotForType DEF TypeOK, Slots
  <2>2. /\ s_count <= s_count' /\ i <= s_count'
        /\ s_count' # s_count => s_count' = s_count + 1 /\ i = s_count'
    BY TouchGrows
  <2> QED
    BY <2>1, <2>2, SizeAssumption
<1>7. \A x \in Euis : x # e => heard'[x] = heard[x]
  BY DEF Touch, TypeOK
<1>8. \A j \in 1..s_count : s_devices[j].eui \in Euis
  BY DEF UniqueEuis, Distinct
<1>9. HInv'
  <2>1. \A j \in 1..s_count' :
          s_devices'[j].online => s_last_seen_mono'[j] = heard'[s_devices'[j].eui]
    BY <1>3, <1>4, <1>5, <1>6, <1>7, <1>8 DEF HInv
  <2> QED
    BY <2>1 DEF HInv
<1>10. \A x \in Euis : Online(x) => Online(x)'
  <2> SUFFICES ASSUME NEW x \in Euis, NEW j \in Find(x), s_devices[j].online
               PROVE  Online(x)'
    BY DEF Online
  <2>1. j \in 1..s_count /\ j \in 1..s_count' /\ s_devices[j].eui = x
    BY <1>6 DEF Find
  <2>2. CASE j = i
    <3>1. x = e
      BY <2>1, <2>2, SlotForType, FindType
    <3> QED
      BY <1>3, <1>6, <3>1 DEF Online, Find
  <2>3. CASE j # i
    BY <1>5, <2>1, <2>3 DEF Online, Find
  <2> QED
    BY <2>2, <2>3
<1> QED
  BY <1>9, <1>10

\* What each step does to the times, and to who is online.
LEMMA HeardStep ==
  ASSUME TypeOK, IInv, HInv, [Next]_vars
  PROVE  /\ HInv'
         /\ \A x \in Euis : Online(x) /\ up' /\ ~Online(x)' => clock - heard[x] > OnlineTtl
<1>0. 1..s_count \subseteq Slots /\ s_devices \in [Slots -> Entry]
  BY SizeAssumption DEF TypeOK, Slots
<1>1. ASSUME UNCHANGED <<s_count, s_last_seen_mono, heard>>, now_us' <= clock',
             \A i \in 1..s_count : /\ s_devices'[i].eui = s_devices[i].eui
                                   /\ s_devices'[i].online = s_devices[i].online
      PROVE  HInv' /\ \A x \in Euis : Online(x) => Online(x)'
  BY <1>1, QuietHeard DEF Online, Find
<1>2. now_us \in 0..MaxClock /\ clock \in 0..MaxClock /\ now_us <= clock /\ MaxClock \in Nat
  BY BoundAssumption DEF TypeOK, HInv
<1>3. CASE UNCHANGED vars
  BY <1>1, <1>2, <1>3 DEF vars, table, tasks
<1>4. ASSUME NEW e \in Euis, CoapStep(e)
      PROVE  HInv' /\ \A x \in Euis : Online(x) => Online(x)'
  <2>1. CASE Register(e)
    <3> DEFINE entry(i) == [At(i, e) EXCEPT !.label = "registered"]
    <3> PICK i \in SlotFor(e) : Touch(i, e, entry(i))
      BY <2>1 DEF Register
    <3>1. entry(i) \in Entry
      BY AtType, EntryFields
    <3>2. entry(i).eui = e /\ entry(i).label = "registered"
      BY AtType, EntryKeeps
    <3>3. UNCHANGED <<now_us, clock>> /\ UniqueEuis
      BY <2>1 DEF Register, IInv
    <3> HIDE DEF entry
    <3> QED
      BY <3>1, <3>2, <3>3, TouchHeard
  <2>2. CASE Update(e)
    <3> PICK i \in SlotFor(e), entry \in Entry :
          /\ entry.eui = e /\ (i <= s_count => entry.label = s_devices[i].label)
          /\ Touch(i, e, entry)
      BY <2>2, UpdateEntry
    <3>1. UNCHANGED <<now_us, clock>> /\ UniqueEuis
      BY <2>2 DEF Update, tasks, IInv
    <3> QED
      BY <3>1, TouchHeard
  <2>3. CASE PopCmd(e) \/ RecordAck(e)
    <3>1. UNCHANGED <<s_count, s_last_seen_mono, heard, now_us, clock>>
      BY <2>3 DEF PopCmd, RecordAck, tasks
    <3> QED
      BY <1>1, <1>2, <2>3, <3>1, CommandKeepsOnline, CommandKeeps
  <2> QED
    BY <1>4, <2>1, <2>2, <2>3 DEF CoapStep
<1>5. ASSUME NEW e \in Euis, NEW c \in Requests, QueueCmd(e, c)
      PROVE  HInv' /\ \A x \in Euis : Online(x) => Online(x)'
  <2>1. UNCHANGED <<s_count, s_last_seen_mono, heard, now_us, clock>>
    BY <1>5 DEF QueueCmd, tasks
  <2> QED
    BY <1>1, <1>2, <1>5, <2>1, CommandKeepsOnline, CommandKeeps
<1>6. CASE SweepMark
  <2>1. UNCHANGED <<s_count, s_last_seen_mono, heard, now_us, clock>>
    BY <1>6 DEF SweepMark
  <2>2. \A i \in 1..s_count : s_devices'[i] = IF i \in Expired
                                              THEN [s_devices[i] EXCEPT !.online = FALSE]
                                              ELSE s_devices[i]
    BY <1>0, <1>6 DEF SweepMark
  <2>3. \A i \in 1..s_count : /\ s_devices'[i].eui = s_devices[i].eui
                              /\ s_devices'[i].online => s_devices[i].online
    BY <1>0, <2>2 DEF Entry
  <2>4. HInv'
    BY <1>2, <2>1, <2>3, QuietHeard
  <2>5. ASSUME NEW x \in Euis, NEW i \in Find(x), s_devices[i].online, ~Online(x)'
        PROVE  clock - heard[x] > OnlineTtl
    <3>1. i \in 1..s_count /\ s_devices[i].eui = x
      BY DEF Find
    <3>2. i \in Expired
      BY <2>1, <2>2, <2>5, <3>1 DEF Online, Find
    <3>3. now_us - s_last_seen_mono[i] > OnlineTtl /\ s_last_seen_mono[i] = heard[x]
      BY <2>5, <3>1, <3>2 DEF Expired, HInv
    <3>4. heard[x] \in 0..MaxClock /\ OnlineTtl \in Nat
      BY SizeAssumption DEF TypeOK
    <3> QED
      BY <1>2, <3>3, <3>4
  <2> QED
    BY <2>4, <2>5 DEF Online
<1>7. CASE SweepStart \/ SweepCheck
  BY <1>1, <1>2, <1>7 DEF SweepStart, SweepCheck, table
<1>8. ASSUME NEW t \in Tasks, SaveStep(t)
      PROVE  HInv' /\ \A x \in Euis : Online(x) => Online(x)'
  BY <1>1, <1>2, <1>8 DEF SaveStep, SaveCount, SaveBlob, SaveCommit, SaveClear, SaveCountFails,
                          SaveBlobFails, table
<1>9. CASE Tick
  <2>1. UNCHANGED <<table, now_us, heard>> /\ clock' = clock + 1
    BY <1>9 DEF Tick, tasks
  <2>2. now_us' <= clock'
    BY <1>2, <2>1
  <2> QED
    BY <1>1, <2>1, <2>2 DEF table
<1>10. CASE Crash
  <2>1. s_count' = 0 /\ now_us' = 0 /\ clock' = 0 /\ ~up'
    BY <1>10 DEF Crash
  <2> QED
    BY <2>1 DEF HInv
<1>11. CASE Boot
  <2>1. s_count = 0 /\ UNCHANGED <<now_us, clock>>
    BY <1>11 DEF Boot, IInv, PowerOff, tasks
  <2>2. \A i \in 1..s_count' : s_devices'[i].online = FALSE
    <3>1. Loads(written) /\ written \in Image
      BY <1>11 DEF Boot, IInv, PowerOff, ImagesSound, ImageRestorable, TypeOK
    <3>2. s_count' = written.blob_len /\ s_count' \in 0..MaxNodes
      BY <1>11, <3>1 DEF Boot, Image
    <3>3. \A i \in 1..s_count' : i \in Slots /\ i <= written.blob_len
      BY <3>2, SizeAssumption DEF Slots
    <3>4. \A i \in Slots : [written.blob[i] EXCEPT !.online = FALSE].online = FALSE
      BY <3>1 DEF Image, Entry
    <3> QED
      BY <1>11, <3>1, <3>3, <3>4 DEF Boot
  <2>3. HInv'
    BY <1>2, <2>1, <2>2 DEF HInv
  <2>4. \A x \in Euis : ~Online(x)
    BY <2>1 DEF Online, Find
  <2> QED
    BY <2>3, <2>4
<1> QED
  BY <1>3, <1>4, <1>5, <1>6, <1>7, <1>8, <1>9, <1>10, <1>11 DEF Next, SweepStep

\* The sweep declares a node offline only if nothing of it got through for
\* longer than the TTL, however long it waited for the mutex.
THEOREM OfflineIsSilent == Spec => NoFalseOffline
<1>1. Init => HInv
  BY DEF Init, HInv
<1>2. TypeOK /\ IInv /\ HInv /\ [Next]_vars =>
        /\ HInv'
        /\ [\A e \in Euis : Online(e) /\ up' /\ ~Online(e)' => clock - heard[e] > OnlineTtl]_vars
  BY HeardStep
<1> QED
  BY <1>1, <1>2, TypeCorrect, Inductive, PTL DEF Spec, NoFalseOffline
==============================================================================
