---------------------------- MODULE NodeOtaProofs ----------------------------
(***************************************************************************)
(* The guard against sleep, proved for any commands and any workers: when  *)
(* one update is executed at a time the node never sleeps during it, its   *)
(* telemetry says so, and no update is forgotten.                          *)
(***************************************************************************)
EXTENDS NodeOta, TLAPS

\* What pc is, as far as the proofs need it.
Placed == pc = [t \in Tasks |-> pc[t]]

\* At most one worker lives.
Alone == \A w, v \in Workers : pc[w] # "none" /\ pc[v] # "none" => w = v

\* From its reception until its worker exists an update has the node for itself.
Received == pc["sensor"] \in {"handle", "ack", "create"} /\ cmd \in Updates
              => \A w \in Workers : pc[w] = "none"

\* Before the worker is created the guard is already up.
Launching == pc["sensor"] = "create" \/ (pc["sensor"] = "ack" /\ status = "launched")
               => cmd \in Updates /\ s_ota_in_progress

\* While an update is executed the guard is up.
Guarded == \A w \in Workers : Updating(w) => s_ota_in_progress

\* NoSleepDuringOta and TelemetryTellsOta are not inductive: that the guard is up
\* when the sensor task looks at it is Guarded, and that no worker appears after
\* it has looked, or lowers another's guard, are Received and Alone.
IInv == /\ Placed /\ Alone /\ Received /\ Launching /\ Guarded
        /\ NoSleepDuringOta /\ TelemetryTellsOta

LEMMA SensorApart == "sensor" \in Tasks /\ \A w \in Workers : w \in Tasks /\ w # "sensor"
  BY WorkerAssumption DEF Tasks

\* After a restart or a deep sleep, as after Init, there is no worker.
LEMMA ResetInv == ASSUME NEW woken, Reset(woken) PROVE IInv'
  BY SensorApart DEF Reset, IInv, Placed, Alone, Received, Launching, Guarded,
     NoSleepDuringOta, TelemetryTellsOta, Updating, Tasks

LEMMA InitInv == Init => IInv
  BY SensorApart DEF Init, IInv, Placed, Alone, Received, Launching, Guarded,
     NoSleepDuringOta, TelemetryTellsOta, Updating, Tasks

\* The sensor task goes on, leaving guard and workers alone, to a label at which
\* nothing is asked of them.
LEMMA SensorMoves ==
  ASSUME IInv, NEW l, Goto("sensor", l), UNCHANGED s_ota_in_progress,
         l \notin {"handle", "ack", "create", "sleep", "upload"}
  PROVE  IInv'
  BY SensorApart DEF Goto, IInv, Placed, Alone, Received, Launching, Guarded,
     NoSleepDuringOta, TelemetryTellsOta, Updating

\* A worker goes on with what it is doing.
LEMMA WorkerMoves ==
  ASSUME IInv, NEW w \in Workers, NEW l, Goto(w, l), pc[w] # "none",
         l \in {"complete", "restart"} => Updating(w),
         l \in {"complete", "restart", "failed", "none"},
         s_ota_in_progress' = s_ota_in_progress
           \/ (l = "failed" /\ s_ota_in_progress' = FALSE),
         UNCHANGED <<cmd, status, flagged>>
  PROVE  IInv'
  BY SensorApart DEF Goto, IInv, Placed, Alone, Received, Launching, Guarded,
     NoSleepDuringOta, TelemetryTellsOta, Updating

\* One update at a time: every action keeps the inductive invariant.
LEMMA StepInv == ASSUME ~Overlapping, IInv, [Next]_vars PROVE IInv'
<1> USE DEF loop, router
<1>1. ASSUME NEW t \in Tasks, Take(t) PROVE IInv'
  BY <1>1 DEF Take, IInv, Placed, Alone, Received, Launching, Guarded,
     NoSleepDuringOta, TelemetryTellsOta, Updating
<1>2. CASE Attach
  BY <1>2, SensorMoves DEF Attach, Goto, Placed
<1>3. CASE Register
  BY <1>3, SensorMoves DEF Register
<1>4. CASE ReadSensor
  BY <1>4, SensorApart DEF ReadSensor, Goto, IInv, Placed, Alone, Received, Launching, Guarded,
     NoSleepDuringOta, TelemetryTellsOta, Updating
<1>5. CASE Upload
  BY <1>5, SensorMoves DEF Upload
<1>6. CASE UploadFails
  BY <1>6, SensorApart DEF UploadFails, Goto, IInv, Placed, Alone, Received, Launching, Guarded,
     NoSleepDuringOta, TelemetryTellsOta, Updating
<1>7. CASE Poll
  BY <1>7, SensorApart DEF Poll, Offers, Goto, IInv, Placed, Alone, Received, Launching, Guarded,
     NoSleepDuringOta, TelemetryTellsOta, Updating
<1>8. CASE Handle
  BY <1>8, SensorApart DEF Handle, Goto, IInv, Placed, Alone, Received, Launching, Guarded,
     NoSleepDuringOta, TelemetryTellsOta, Updating
<1>9. CASE Ack
  BY <1>9, SensorApart DEF Ack, Acknowledge, Confirmable, Goto, IInv, Placed, Alone, Received,
     Launching, Guarded, NoSleepDuringOta, TelemetryTellsOta, Updating
<1>10. CASE CreateWorker
  BY <1>10, SensorApart DEF CreateWorker, IInv, Placed, Alone, Received, Launching, Guarded,
     NoSleepDuringOta, TelemetryTellsOta, Updating
<1>11. CASE CreateFails
  BY <1>11, SensorMoves DEF CreateFails
<1>12. CASE Decide
  BY <1>12, SensorApart DEF Decide, Goto, IInv, Placed, Alone, Received, Launching, Guarded,
     NoSleepDuringOta, TelemetryTellsOta, Updating
<1>13. CASE DeepSleep
  BY <1>13, ResetInv DEF DeepSleep
<1>14. CASE Restart("sensor")
  BY <1>14, ResetInv DEF Restart
<1>15. ASSUME NEW w \in Workers, WorkerStep(w) PROVE IInv'
  <2>1. CASE DownloadOk(w)
    BY <2>1, WorkerMoves DEF DownloadOk, Updating
  <2>2. CASE DownloadFails(w)
    BY <2>2, WorkerMoves DEF DownloadFails
  <2>3. CASE AckComplete(w)
    BY <2>3, WorkerMoves DEF AckComplete, Acknowledge, Confirmable, Updating
  <2>4. CASE AckFailed(w)
    BY <2>4, WorkerMoves DEF AckFailed, Acknowledge, Confirmable
  <2>5. CASE Restart(w)
    BY <2>5, ResetInv DEF Restart
  <2> QED
    BY <1>15, <2>1, <2>2, <2>3, <2>4, <2>5 DEF WorkerStep
<1>16. CASE UNCHANGED vars
  BY <1>16 DEF vars, IInv, Placed, Alone, Received, Launching, Guarded,
     NoSleepDuringOta, TelemetryTellsOta, Updating
<1> QED
  BY <1>1, <1>2, <1>3, <1>4, <1>5, <1>6, <1>7, <1>8, <1>9, <1>10, <1>11, <1>12, <1>13, <1>14,
     <1>15, <1>16 DEF Next, SensorStep

\* When updates do not overlap, the node is never on its way into deep sleep
\* while one is downloaded, acknowledged or about to restart the node, whatever
\* is lost, fails or restarts: README.md:129 for every set of commands.
THEOREM SleepsAfterOta == ASSUME ~Overlapping PROVE Spec => []NoSleepDuringOta
<1>1. IInv => NoSleepDuringOta
  BY DEF IInv
<1> QED
  BY InitInv, StepInv, <1>1, PTL DEF Spec

\* Under the same assumption every reading uploaded during an update carries
\* NODE_FLAG_OTA_PENDING.
THEOREM OtaIsTold == ASSUME ~Overlapping PROVE Spec => []TelemetryTellsOta
<1>1. IInv => TelemetryTellsOta
  BY DEF IInv
<1> QED
  BY InitInv, StepInv, <1>1, PTL DEF Spec

------------------------------------------------------------------------------
(* What the guard means when it is up.                                     *)

\* The guard is up only for an update that is executed or about to be.
Held ==
  s_ota_in_progress =>
    \/ \E w \in Workers : Updating(w)
    \/ pc["sensor"] \in {"create", "restart"}
    \/ pc["sensor"] = "ack" /\ status = "launched"

\* A step that takes the sensor task from one place to another, and no worker
\* anywhere.
LEMMA HeldMoves ==
  ASSUME Held, Placed, NEW l, Goto("sensor", l), UNCHANGED s_ota_in_progress,
         pc["sensor"] \notin {"ack", "create", "restart"}
  PROVE  Held'
  BY SensorApart DEF Held, Placed, Goto, Updating

\* Memory suffices and there is a name for a worker: then the worker that the
\* guard was raised for is made.
LEMMA HeldStep ==
  ASSUME ~MemoryMayFail, Workers # {}, IInv, Held, [Next]_vars
  PROVE  Held'
<1> USE DEF loop, router, IInv
<1>1. ASSUME NEW t \in Tasks, Take(t) PROVE Held'
  BY <1>1 DEF Take, Held, Updating
<1>2. CASE Attach
  BY <1>2, HeldMoves DEF Attach
<1>3. CASE Register
  BY <1>3, HeldMoves DEF Register, Confirmable
<1>4. CASE ReadSensor
  BY <1>4, HeldMoves DEF ReadSensor
<1>5. CASE Upload
  BY <1>5, HeldMoves DEF Upload
<1>6. CASE UploadFails
  BY <1>6, HeldMoves DEF UploadFails
<1>7. CASE Poll
  BY <1>7, HeldMoves DEF Poll, Confirmable
<1>8. CASE Handle
  BY <1>8, SensorApart DEF Handle, Goto, Held, Placed, Updating
<1>9. CASE Ack
  BY <1>9, SensorApart DEF Ack, Acknowledge, Confirmable, Goto, Held, Placed, Updating
<1>10. CASE CreateWorker
  BY <1>10, SensorApart DEF CreateWorker, Held, Placed, Updating
<1>11. CASE CreateFails
  BY <1>11 DEF CreateFails, Received, Launching
<1>12. CASE Decide
  BY <1>12, HeldMoves DEF Decide
<1>13. CASE DeepSleep \/ \E t \in Tasks : Restart(t)
  BY <1>13 DEF DeepSleep, Restart, Reset, Held
<1>14. ASSUME NEW w \in Workers, WorkerStep(w), ~Restart(w) PROVE Held'
  <2>1. CASE DownloadOk(w)
    BY <2>1, SensorApart DEF DownloadOk, Goto, Held, Placed, Updating
  <2>2. CASE DownloadFails(w)
    BY <2>2 DEF DownloadFails, Held
  <2>3. CASE AckComplete(w)
    BY <2>3, SensorApart DEF AckComplete, Acknowledge, Confirmable, Goto, Held, Placed, Updating
  <2>4. CASE AckFailed(w)
    BY <2>4, SensorApart DEF AckFailed, Acknowledge, Confirmable, Goto, Held, Placed, Updating
  <2> QED
    BY <1>14, <2>1, <2>2, <2>3, <2>4 DEF WorkerStep
<1>15. CASE UNCHANGED vars
  BY <1>15 DEF vars, Held, Updating
<1> QED
  BY SensorApart, <1>1, <1>2, <1>3, <1>4, <1>5, <1>6, <1>7, <1>8, <1>9, <1>10, <1>11, <1>12, <1>13,
     <1>14, <1>15 DEF Next, SensorStep, WorkerStep

\* When updates do not overlap, memory suffices and a worker can be named, the
\* guard keeps the node awake only for an update that is executed
\* (app_node_main.c:243): no loss or failure leaves it up for nothing.
THEOREM AwakeForOta ==
  ASSUME ~Overlapping, ~MemoryMayFail, Workers # {}
  PROVE  Spec => []GuardMeansOta
<1>1. Init => Held
  BY DEF Init, Held
<1>2. Held => GuardMeansOta
  BY DEF Held, GuardMeansOta
<1> QED
  BY InitInv, StepInv, HeldStep, <1>1, <1>2, PTL DEF Spec

------------------------------------------------------------------------------
(* Types.                                                                  *)

\* TypeOK relates tasks to their commands: what is acknowledged was handed over,
\* a worker is made for an update only, and a reading is tried again only while
\* the retries last.
TypeInv ==
  /\ TypeOK
  /\ pc["sensor"] \in {"handle", "ack", "create"} => cmd \in handed
  /\ pc["sensor"] = "create" \/ (pc["sensor"] = "ack" /\ status = "launched") => cmd \in Updates
  /\ pc["sensor"] = "upload" => attempt < CoapMaxRetries
  /\ \A w \in Workers : pc[w] \in {"none", "download", "complete", "failed", "restart"}
                          /\ (arg[w] # NoCmd => arg[w] \in handed)

LEMMA TypeReset == ASSUME TypeInv, NEW woken \in BOOLEAN, Reset(woken) PROVE TypeInv'
<1>1. handed' = handed /\ pending' = pending /\ acks' = acks /\ losses' = losses
  BY DEF Reset, router
<1>2. pc' \in [Tasks -> {"attach", "none"}] /\ pc'["sensor"] = "attach"
        /\ \A w \in Workers : pc'[w] = "none"
  BY SensorApart DEF Reset
<1>3. arg' \in [Workers -> {NoCmd}] /\ \A w \in Workers : arg'[w] = NoCmd
  BY DEF Reset
<1>4. {s_ota_in_progress', is_wakeup', flagged'} \subseteq BOOLEAN
  BY Zenon DEF Reset
<1>5. attempt' \in 0..CoapMaxRetries
  BY BoundAssumption DEF Reset
<1> QED
  BY <1>1, <1>2, <1>3, <1>4, <1>5 DEF Reset, TypeInv, TypeOK, Statuses

LEMMA TypeInit == Init => TypeInv
<1> SUFFICES ASSUME Init PROVE TypeInv
  OBVIOUS
<1>1. pc \in [Tasks -> {"attach", "none"}] /\ pc["sensor"] = "attach"
        /\ \A w \in Workers : pc[w] = "none"
  BY SensorApart DEF Init
<1>2. arg \in [Workers -> {NoCmd}] /\ \A w \in Workers : arg[w] = NoCmd
  BY DEF Init
<1>3. attempt \in 0..CoapMaxRetries /\ losses \in 0..MaxLosses
  BY BoundAssumption DEF Init
<1> QED
  BY <1>1, <1>2, <1>3 DEF Init, TypeInv, TypeOK, Statuses

LEMMA TypeRequest ==
  ASSUME TypeInv, NEW t \in Tasks, NEW l, NEW arrived, NEW answered, Confirmable(t, l, arrived, answered)
  PROVE  losses' \in 0..MaxLosses
  BY BoundAssumption DEF TypeInv, TypeOK, Confirmable

LEMMA TypeStep == ASSUME TypeInv, [Next]_vars PROVE TypeInv'
<1> USE CommandAssumption, WorkerAssumption, BoundAssumption, SensorApart
    DEF TypeInv, TypeOK, Goto, loop, router, Requesting, Commands, Statuses
<1>1. ASSUME NEW t \in Tasks, Take(t) PROVE TypeInv'
  BY <1>1 DEF Take, Tasks
<1>2. CASE Attach
  BY <1>2 DEF Attach
<1>3. CASE Register
  BY <1>3, TypeRequest DEF Register, Confirmable
<1>4. CASE ReadSensor
  BY <1>4 DEF ReadSensor
<1>5. CASE Upload
  BY <1>5 DEF Upload
<1>6. CASE UploadFails
  BY <1>6 DEF UploadFails
<1>7. CASE Poll
  <2>1. PICK arrived \in BOOLEAN, answered \in BOOLEAN, c \in Offers :
          /\ Confirmable("sensor", "poll", arrived, answered)
          /\ pending' = IF arrived THEN pending \ {c} ELSE pending
          /\ IF answered /\ c # NoCmd
               THEN cmd' = c /\ handed' = handed \cup {c} /\ Goto("sensor", "handle")
               ELSE Goto("sensor", "decide") /\ UNCHANGED <<cmd, handed>>
    BY <1>7 DEF Poll
  <2>2. c # NoCmd => c \in pending
    BY DEF Offers
  <2>3. losses' \in 0..MaxLosses
    BY <2>1, TypeRequest
  <2>4. UNCHANGED <<s_ota_in_progress, is_wakeup, status, flagged, attempt, arg, acks>>
    BY <1>7 DEF Poll
  <2>5. pending' \subseteq Commands /\ handed' \subseteq Commands \ pending' /\ handed \subseteq handed'
    BY <2>1, <2>2 DEF Confirmable
  <2>6. acks' \subseteq handed' \X Statuses
    BY <2>4, <2>5
  <2>7. CASE answered /\ c # NoCmd
    BY <2>1, <2>2, <2>3, <2>4, <2>5, <2>6, <2>7 DEF Confirmable
  <2>8. CASE ~(answered /\ c # NoCmd)
    BY <2>1, <2>3, <2>4, <2>5, <2>6, <2>8 DEF Confirmable
  <2> QED
    BY <2>7, <2>8
<1>8. CASE Handle
  BY <1>8 DEF Handle
<1>9. CASE Ack
  BY <1>9, TypeRequest DEF Ack, Acknowledge, Confirmable
<1>10. CASE CreateWorker
  BY <1>10 DEF CreateWorker
<1>11. CASE CreateFails
  BY <1>11 DEF CreateFails
<1>12. CASE Decide
  BY <1>12 DEF Decide
<1>13. CASE DeepSleep \/ \E t \in Tasks : Restart(t)
  BY <1>13, TypeReset DEF DeepSleep, Restart
<1>14. ASSUME NEW w \in Workers, WorkerStep(w), ~Restart(w) PROVE TypeInv'
  <2>1. CASE DownloadOk(w)
    BY <2>1 DEF DownloadOk
  <2>2. CASE DownloadFails(w)
    BY <2>2 DEF DownloadFails
  <2>3. CASE AckComplete(w)
    BY <2>3, TypeRequest DEF AckComplete, Acknowledge, Confirmable
  <2>4. CASE AckFailed(w)
    BY <2>4, TypeRequest DEF AckFailed, Acknowledge, Confirmable
  <2> QED
    BY <1>14, <2>1, <2>2, <2>3, <2>4 DEF WorkerStep
<1>15. CASE UNCHANGED vars
  BY <1>15 DEF vars
<1> QED
  BY SensorApart, <1>1, <1>2, <1>3, <1>4, <1>5, <1>6, <1>7, <1>8, <1>9, <1>10, <1>11, <1>12, <1>13,
     <1>14, <1>15 DEF Next, SensorStep, WorkerStep

\* Every task is where the model has a place for it, a worker exists exactly while
\* it has a command, and the router's acknowledgements are of commands it handed
\* over: under overlapping updates and failing memory as well.
THEOREM NodeTypes == Spec => []TypeOK
<1>1. TypeInv => TypeOK
  BY DEF TypeInv
<1> QED
  BY TypeInit, TypeStep, <1>1, PTL DEF Spec

------------------------------------------------------------------------------
(* No update is forgotten.                                                 *)

\* The end of c is known, or somebody is at it.
Accounted(c) ==
  \/ \E code \in Final : <<c, code>> \in acks
  \/ pc["sensor"] \in {"handle", "ack", "create"} /\ cmd = c
  \/ \E w \in Workers : arg[w] = c /\ pc[w] \in {"download", "complete", "failed"}

\* UpdatesAccounted with what it rests on: the sensor task itself never ends the
\* node's tasks, and an update that is acknowledged first is launched.
AccountInv ==
  /\ losses = 0 => \A c \in Updates \cap handed : Accounted(c)
  /\ pc["sensor"] \notin {"sleep", "restart"}
  /\ pc["sensor"] = "ack" /\ cmd \in Updates => status = "launched"

LEMMA AccountInit == Init => AccountInv
  BY SensorApart DEF Init, AccountInv

\* A step that loses nobody who is at an update.
LEMMA AccountKept ==
  ASSUME AccountInv, losses' = 0 => losses = 0, handed' = handed,
         \A c \in Updates : losses' = 0 /\ c \in handed /\ Accounted(c) => Accounted(c)',
         pc'["sensor"] \notin {"sleep", "restart"},
         pc'["sensor"] = "ack" /\ cmd' \in Updates => status' = "launched"
  PROVE  AccountInv'
  BY DEF AccountInv

\* The sensor task is not at a command, before or after.
LEMMA AccountSensor ==
  ASSUME AccountInv, TypeInv, IInv, losses' = 0 => losses = 0, NEW l, Goto("sensor", l),
         pc["sensor"] \notin {"handle", "ack", "create"}, l \notin {"ack", "sleep", "restart"},
         UNCHANGED <<handed, acks, arg>>
  PROVE  AccountInv'
<1>1. pc'["sensor"] = l /\ \A w \in Workers : pc'[w] = pc[w]
  BY SensorApart DEF Goto, IInv, Placed
<1>2. \A c : Accounted(c) => Accounted(c)'
  BY <1>1 DEF Accounted
<1> QED
  BY <1>1, <1>2, AccountKept

\* A worker goes on, and its command is still at hand or acknowledged.
LEMMA AccountWorker ==
  ASSUME AccountInv, TypeInv, IInv, losses' = 0 => losses = 0, NEW w \in Workers, NEW l, Goto(w, l),
         acks \subseteq acks', UNCHANGED <<cmd, status, handed>>, \A v \in Workers : v # w => arg'[v] = arg[v],
         \/ l \in {"complete", "failed"} /\ arg'[w] = arg[w]
         \/ losses' = 0 => \E code \in Final : <<arg[w], code>> \in acks'
  PROVE  AccountInv'
<1>1. pc'["sensor"] = pc["sensor"] /\ pc'[w] = l /\ \A v \in Workers : v # w => pc'[v] = pc[v]
  BY SensorApart DEF Goto, IInv, Placed
<1>2. \A c \in Updates : losses' = 0 /\ c \in handed /\ Accounted(c) => Accounted(c)'
  BY <1>1 DEF Accounted
<1> QED
  BY <1>1, <1>2, AccountKept DEF AccountInv

\* Nothing is lost, so an acknowledgement arrives.
LEMMA Arrives ==
  ASSUME TypeInv, NEW t, NEW l, NEW c, NEW code, NEW next, Acknowledge(t, l, c, code, next)
  PROVE  /\ losses' = 0 => losses = 0 /\ <<c, code>> \in acks'
         /\ acks \subseteq acks' /\ handed' = handed /\ Goto(t, next)
  BY BoundAssumption DEF Acknowledge, Confirmable, TypeInv, TypeOK

LEMMA AccountStep ==
  ASSUME ~Deep, ~MemoryMayFail, Workers # {}, Reboots = {}, TypeInv, IInv, AccountInv, [Next]_vars
  PROVE  AccountInv'
<1> USE CommandAssumption, SensorApart DEF loop, router
<1>1. losses \in Nat /\ (\A t, l, arrived, answered : Confirmable(t, l, arrived, answered) => (losses' = 0 => losses = 0))
  BY BoundAssumption DEF Confirmable, TypeInv, TypeOK
<1>2. ASSUME UNCHANGED <<pc, cmd, status, handed, acks, arg, losses>> PROVE AccountInv'
  BY <1>2 DEF AccountInv, Accounted
<1>3. ASSUME NEW t \in Tasks, Take(t) PROVE AccountInv'
  BY <1>2, <1>3 DEF Take
<1>4. CASE Attach
  BY <1>4, AccountSensor DEF Attach
<1>5. CASE Register
  BY <1>1, <1>5, AccountSensor DEF Register, Confirmable
<1>6. CASE ReadSensor
  BY <1>6, AccountSensor DEF ReadSensor
<1>7. CASE Upload
  BY <1>7, AccountSensor DEF Upload
<1>8. CASE UploadFails
  BY <1>1, <1>8, AccountSensor DEF UploadFails
<1>9. CASE Poll
  <2>1. PICK arrived \in BOOLEAN, answered \in BOOLEAN, c \in Offers :
          /\ Confirmable("sensor", "poll", arrived, answered)
          /\ IF answered /\ c # NoCmd
               THEN cmd' = c /\ handed' = handed \cup {c} /\ Goto("sensor", "handle")
               ELSE Goto("sensor", "decide") /\ UNCHANGED <<cmd, handed>>
    BY <1>9 DEF Poll
  <2>2. pc["sensor"] = "poll" /\ (losses' = 0 => losses = 0) /\ UNCHANGED <<status, arg, acks>>
    BY <1>1, <1>9, <2>1 DEF Confirmable, Poll
  <2>3. CASE Goto("sensor", "decide") /\ UNCHANGED handed
    BY <2>2, <2>3, AccountSensor
  <2>4. CASE cmd' = c /\ handed' = handed \cup {c} /\ Goto("sensor", "handle")
    <3>1. pc'["sensor"] = "handle" /\ \A w \in Workers : pc'[w] = pc[w]
      BY <2>4 DEF Goto, IInv, Placed
    <3>2. \A d \in Updates \cap handed' : losses' = 0 => Accounted(d)'
      <4>1. \A d : Accounted(d) => Accounted(d)'
        BY <2>2, <3>1 DEF Accounted
      <4>2. Accounted(c)'
        BY <2>4, <3>1 DEF Accounted
      <4> QED
        BY <2>2, <2>4, <4>1, <4>2 DEF AccountInv
    <3> QED
      BY <3>1, <3>2 DEF AccountInv
  <2> QED
    BY <2>1, <2>3, <2>4
<1>10. CASE Handle
  <2>1. pc["sensor"] = "handle" /\ pc'["sensor"] = "ack" /\ \A w \in Workers : pc'[w] = pc[w]
    BY <1>10 DEF Handle, Goto, IInv, Placed
  <2>2. UNCHANGED <<cmd, arg, handed, acks, losses>>
    BY <1>10 DEF Handle
  <2>3. \A c : Accounted(c) => Accounted(c)'
    BY <2>1, <2>2 DEF Accounted
  <2>4. cmd' \in Updates => status' = "launched"
    BY <1>10 DEF Handle
  <2> QED
    BY <2>1, <2>2, <2>3, <2>4, AccountKept
<1>11. CASE Ack
  <2>1. PICK next : /\ Acknowledge("sensor", "ack", cmd, status, next)
                    /\ next = CASE cmd \in Reboots -> "restart" [] status = "launched" -> "create" [] OTHER -> "decide"
    BY <1>11 DEF Ack
  <2>2. next \in {"create", "decide"} /\ (cmd \in Updates => next = "create")
    BY <1>11, <2>1 DEF AccountInv, Ack, Acknowledge, Confirmable
  <2>3. pc'["sensor"] = next /\ \A w \in Workers : pc'[w] = pc[w]
    <3>1. Goto("sensor", next)
      BY <2>1 DEF Acknowledge
    <3> QED
      BY <3>1 DEF Goto, IInv, Placed
  <2>4. UNCHANGED <<cmd, arg, handed>> /\ acks \subseteq acks' /\ (losses' = 0 => losses = 0)
    BY <1>11, <2>1, Arrives DEF Ack
  <2>5. \A c \in Updates : Accounted(c) => Accounted(c)'
    BY <2>2, <2>3, <2>4 DEF Accounted
  <2> QED
    BY <2>2, <2>3, <2>4, <2>5, AccountKept
<1>12. CASE CreateWorker
  <2>1. PICK w \in Workers :
          /\ pc[w] = "none"
          /\ pc' = [pc EXCEPT !["sensor"] = "decide", ![w] = "download"]
          /\ arg' = [arg EXCEPT ![w] = cmd]
    BY <1>12 DEF CreateWorker
  <2>2. /\ pc'["sensor"] = "decide" /\ pc'[w] = "download" /\ arg'[w] = cmd
        /\ \A v \in Workers : v # w => pc'[v] = pc[v] /\ arg'[v] = arg[v]
    BY <2>1 DEF IInv, Placed, TypeInv, TypeOK
  <2>3. UNCHANGED <<handed, acks, losses>>
    BY <1>12 DEF CreateWorker
  <2>4. \A c : Accounted(c) => Accounted(c)'
    BY <2>1, <2>2, <2>3 DEF Accounted
  <2> QED
    BY <2>2, <2>3, <2>4, AccountKept
<1>13. CASE CreateFails
  BY <1>13 DEF CreateFails, IInv, Received, Launching
<1>14. CASE Decide
  BY <1>14, AccountSensor DEF Decide
<1>15. CASE DeepSleep \/ Restart("sensor")
  BY <1>15 DEF DeepSleep, Restart, AccountInv
<1>16. ASSUME NEW w \in Workers, WorkerStep(w) PROVE AccountInv'
  <2>1. CASE DownloadOk(w)
    BY <2>1, AccountWorker DEF DownloadOk
  <2>2. CASE DownloadFails(w)
    BY <2>2, AccountWorker DEF DownloadFails
  <2>3. CASE AckComplete(w)
    BY <2>3, Arrives, AccountWorker DEF AckComplete, Final
  <2>4. CASE AckFailed(w)
    <3>1. \A v \in Workers : v # w => arg'[v] = arg[v]
      BY <2>4 DEF AckFailed, TypeInv, TypeOK
    <3> QED
      BY <2>4, <3>1, Arrives, AccountWorker DEF AckFailed, Final
  <2>5. CASE Restart(w)
    <3>1. pc[w] = "restart" /\ pc'["sensor"] = "attach" /\ UNCHANGED <<handed, acks, losses>>
      BY <2>5 DEF Restart, Reset
    <3>2. \A v \in Workers : pc[v] # "none" => v = w
      BY <3>1 DEF IInv, Alone
    <3>3. \A c \in Updates : Accounted(c) => \E code \in Final : <<c, code>> \in acks
      BY <3>1, <3>2 DEF Accounted, IInv, Received
    <3>4. \A c \in Updates : Accounted(c) => Accounted(c)'
      BY <3>1, <3>3 DEF Accounted
    <3> QED
      BY <3>1, <3>4, AccountKept
  <2> QED
    BY <1>16, <2>1, <2>2, <2>3, <2>4, <2>5 DEF WorkerStep
<1>17. CASE UNCHANGED vars
  BY <1>2, <1>17 DEF vars
<1> QED
  BY <1>3, <1>4, <1>5, <1>6, <1>7, <1>8, <1>9, <1>10, <1>11, <1>12, <1>13, <1>14, <1>15, <1>16, <1>17
  DEF Next, SensorStep

\* On a node that sleeps lightly, that has memory for its workers and is sent one
\* update at a time and no reboot, no update is forgotten while nothing is lost
\* (README.md:380); each of these conditions is needed.
THEOREM UpdatesKept ==
  ASSUME ~Overlapping, ~Deep, ~MemoryMayFail, Reboots = {}, Workers # {}
  PROVE  Spec => []UpdatesAccounted
<1>1. AccountInv => UpdatesAccounted
  BY DEF AccountInv, UpdatesAccounted, Accounted
<1> QED
  BY InitInv, StepInv, TypeInit, TypeStep, AccountInit, AccountStep, <1>1, PTL DEF Spec
==============================================================================
