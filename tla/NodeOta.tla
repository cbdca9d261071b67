------------------------------- MODULE NodeOta -------------------------------
(***************************************************************************)
(* The sensor node (app_node_main.c with app_coap_client.c and             *)
(* app_sleep.c): the measurement loop of sensor_task, the commands it      *)
(* polls and executes, the OTA workers it launches, the client's mutex     *)
(* they share, and the restarts and deep sleeps that end them all.         *)
(*                                                                         *)
(* The border router is what the node sees of it: the commands it hands   *)
(* out and the acknowledgements it received.  Readings, the LED and the    *)
(* Thread dataset that deep sleep stores to shorten the next attach decide *)
(* nothing here and are left out.                                          *)
(***************************************************************************)
EXTENDS Naturals

CONSTANTS
  Updates,       \* CMD_OTA_START commands with a URL
  EmptyUpdates,  \* CMD_OTA_START commands without one
  Reboots,       \* CMD_REBOOT commands
  Others,        \* commands that are only executed and acknowledged
  NoCmd,         \* CMD_NONE
  Workers,       \* names for the tasks xTaskCreate can make
  Deep,          \* CONFIG_APP_SLEEP_MODE_DEEP
  Overlapping,   \* an update may be sent while a worker of another one lives
  MemoryMayFail, \* malloc and xTaskCreate may fail
  CoapMaxRetries, \* COAP_MAX_RETRIES
  MaxLosses      \* bound: messages lost or not even sent

Commands == Updates \cup EmptyUpdates \cup Reboots \cup Others

ASSUME CommandAssumption ==
  NoCmd \notin Commands /\ Updates \cap (EmptyUpdates \cup Reboots \cup Others) = {}
ASSUME WorkerAssumption  == "sensor" \notin Workers /\ "free" \notin Workers
ASSUME SwitchAssumption  == {Deep, Overlapping, MemoryMayFail} \subseteq BOOLEAN
ASSUME BoundAssumption   == CoapMaxRetries \in Nat \ {0} /\ MaxLosses \in Nat

VARIABLES
  s_ota_in_progress, \* the guard against sleep
  s_mutex,           \* holder of the CoAP client's mutex, or "free"
  pc,                \* where each task is; "none" for a worker that does not exist
  is_wakeup,         \* the node was woken from deep sleep, not cold-booted
  cmd, status,       \* command the sensor task handles, and the status it acknowledges
  flagged,           \* NODE_FLAG_OTA_PENDING in the current reading
  attempt,           \* uploads of the reading that have failed
  arg,               \* the command each worker downloads for
  pending,           \* border router: commands still to be handed out
  handed,            \* border router: commands whose answer reached the node
  acks,              \* border router: acknowledgements received, <<command, status>>
  losses             \* messages lost so far

loop   == <<is_wakeup, cmd, status, flagged, attempt>>
router == <<pending, handed, acks>>
vars   == <<s_ota_in_progress, s_mutex, pc, loop, arg, router, losses>>

Tasks    == {"sensor"} \cup Workers
Statuses == {"done", "refused", "launched", "complete", "failed"}
Final    == {"refused", "complete", "failed"}

Goto(t, l) == pc' = [pc EXCEPT ![t] = l]

\* RAM after a restart or a deep sleep; woken tells the two apart.
Reset(woken) ==
  /\ s_ota_in_progress' = FALSE /\ s_mutex' = "free"
  /\ pc' = [t \in Tasks |-> IF t = "sensor" THEN "attach" ELSE "none"]
  /\ is_wakeup' = woken
  /\ cmd' = NoCmd /\ status' = "done" /\ flagged' = FALSE /\ attempt' = 0
  /\ arg' = [w \in Workers |-> NoCmd]
  /\ UNCHANGED <<router, losses>>

Init ==
  /\ s_ota_in_progress = FALSE /\ s_mutex = "free"
  /\ pc = [t \in Tasks |-> IF t = "sensor" THEN "attach" ELSE "none"]
  /\ is_wakeup = FALSE
  /\ cmd = NoCmd /\ status = "done" /\ flagged = FALSE /\ attempt = 0
  /\ arg = [w \in Workers |-> NoCmd]
  /\ pending = Commands /\ handed = {} /\ acks = {}
  /\ losses = 0

------------------------------------------------------------------------------
(* Requests.  A task at one of these labels waits for the mutex or, when   *)
(* it holds it, is inside coap_send_request.                               *)

Requesting == {"register", "upload", "poll", "ack", "complete", "failed"}

Take(t) ==
  /\ pc[t] \in Requesting /\ s_mutex = "free"
  /\ s_mutex' = t
  /\ UNCHANGED <<s_ota_in_progress, pc, loop, arg, router, losses>>

\* Mutant of Confirmable: the mutex is kept by a request that times out.
ConfirmableKept(t, l, arrived, answered) ==
  /\ pc[t] = l /\ s_mutex = t /\ s_mutex' = IF answered THEN "free" ELSE t
  /\ answered => arrived
  /\ losses' = IF answered THEN losses ELSE losses + 1
  /\ losses' <= MaxLosses

\* A confirmable request ends: it arrived or not, and its answer came within
\* the six seconds or not (a session that cannot be made is one not arrived).
Confirmable(t, l, arrived, answered) ==
  /\ pc[t] = l /\ s_mutex = t /\ s_mutex' = "free"
  /\ answered => arrived
  /\ losses' = IF answered THEN losses ELSE losses + 1
  /\ losses' <= MaxLosses

------------------------------------------------------------------------------
(* sensor_task.                                                            *)

\* The node is attached; only a cold boot registers.
Attach ==
  /\ pc["sensor"] = "attach"
  /\ Goto("sensor", IF is_wakeup THEN "read" ELSE "register")
  /\ UNCHANGED <<s_ota_in_progress, s_mutex, loop, arg, router, losses>>

\* Its result is only logged.
Register ==
  /\ \E arrived, answered \in BOOLEAN :
       Confirmable("sensor", "register", arrived, answered)
  /\ Goto("sensor", "read")
  /\ UNCHANGED <<s_ota_in_progress, loop, arg, router>>

\* Mutant of ReadSensor: the reading keeps the mark of the one before it.
ReadSensorSticky ==
  /\ pc["sensor"] = "read"
  /\ attempt' = 0
  /\ Goto("sensor", "upload")
  /\ UNCHANGED <<s_ota_in_progress, s_mutex, is_wakeup, cmd, status, flagged, arg, router, losses>>

ReadSensor ==
  /\ pc["sensor"] = "read"
  /\ flagged' = s_ota_in_progress
  /\ attempt' = 0
  /\ Goto("sensor", "upload")
  /\ UNCHANGED <<s_ota_in_progress, s_mutex, is_wakeup, cmd, status, arg, router, losses>>

\* The telemetry is not confirmable: whether it arrives or is lost, it counts
\* as sent.
Upload ==
  /\ pc["sensor"] = "upload" /\ s_mutex = "sensor"
  /\ s_mutex' = "free"
  /\ Goto("sensor", "poll")
  /\ UNCHANGED <<s_ota_in_progress, loop, arg, router, losses>>

\* The session or the PDU could not be made: tried again after a delay.
UploadFails ==
  /\ pc["sensor"] = "upload" /\ s_mutex = "sensor" /\ losses < MaxLosses
  /\ s_mutex' = "free" /\ losses' = losses + 1
  /\ attempt' = attempt + 1
  /\ Goto("sensor", IF attempt' < CoapMaxRetries THEN "upload" ELSE "poll")
  /\ UNCHANGED <<s_ota_in_progress, is_wakeup, cmd, status, flagged, arg, router>>

\* What the border router can answer a poll with.
Offers ==
  LET sent == {c \in pending : Overlapping \/ c \notin Updates
                                 \/ \A w \in Workers : pc[w] = "none"}
  IN  IF sent = {} THEN {NoCmd} ELSE sent

\* The command is popped when the request arrives, answered or not.
Poll ==
  /\ \E arrived, answered \in BOOLEAN, c \in Offers :
       /\ Confirmable("sensor", "poll", arrived, answered)
       /\ pending' = IF arrived THEN pending \ {c} ELSE pending
       /\ IF answered /\ c # NoCmd
            THEN cmd' = c /\ handed' = handed \cup {c} /\ Goto("sensor", "handle")
            ELSE Goto("sensor", "decide") /\ UNCHANGED <<cmd, handed>>
  /\ UNCHANGED <<s_ota_in_progress, is_wakeup, status, flagged, attempt, arg, acks>>

\* handle_command, up to its acknowledgement.
Handle ==
  /\ pc["sensor"] = "handle"
  /\ \/ cmd \in Reboots \cup Others /\ status' = "done" /\ UNCHANGED s_ota_in_progress
     \/ cmd \in EmptyUpdates /\ status' = "refused" /\ UNCHANGED s_ota_in_progress
     \/ cmd \in Updates /\ status' = "launched" /\ s_ota_in_progress' = TRUE
     \/ cmd \in Updates /\ MemoryMayFail /\ status' = "refused" /\ UNCHANGED s_ota_in_progress
  /\ Goto("sensor", "ack")
  /\ UNCHANGED <<s_mutex, is_wakeup, cmd, flagged, attempt, arg, router, losses>>

\* app_coap_client_send_ack: its result is ignored.
Acknowledge(t, l, c, code, next) ==
  /\ \E arrived, answered \in BOOLEAN :
       /\ Confirmable(t, l, arrived, answered)
       /\ acks' = IF arrived THEN acks \cup {<<c, code>>} ELSE acks
  /\ Goto(t, next)
  /\ UNCHANGED <<pending, handed>>

Ack ==
  /\ Acknowledge("sensor", "ack", cmd, status,
       CASE cmd \in Reboots -> "restart" [] status = "launched" -> "create" [] OTHER -> "decide")
  /\ UNCHANGED <<s_ota_in_progress, loop, arg>>

CreateWorker ==
  /\ pc["sensor"] = "create"
  /\ \E w \in Workers :
       /\ pc[w] = "none"
       /\ pc' = [pc EXCEPT !["sensor"] = "decide", ![w] = "download"]
       /\ arg' = [arg EXCEPT ![w] = cmd]
  /\ UNCHANGED <<s_ota_in_progress, s_mutex, loop, router, losses>>

\* xTaskCreate fails, unnoticed.
CreateFails ==
  /\ pc["sensor"] = "create"
  /\ MemoryMayFail \/ \A w \in Workers : pc[w] # "none"
  /\ Goto("sensor", "decide")
  /\ UNCHANGED <<s_ota_in_progress, s_mutex, loop, arg, router, losses>>

\* Mutant of Decide: the guard against sleep is not consulted.
DecideUnguarded ==
  /\ pc["sensor"] = "decide"
  /\ Goto("sensor", IF Deep THEN "sleep" ELSE "read")
  /\ cmd' = NoCmd
  /\ UNCHANGED <<s_ota_in_progress, s_mutex, is_wakeup, status, flagged, attempt, arg, router, losses>>

\* Mutant of Decide: while the guard is up the loop waits here.
DecideWaits ==
  /\ pc["sensor"] = "decide"
  /\ Goto("sensor", CASE s_ota_in_progress -> "decide" [] Deep /\ ~s_ota_in_progress -> "sleep"
                       [] OTHER -> "read")
  /\ cmd' = NoCmd
  /\ UNCHANGED <<s_ota_in_progress, s_mutex, is_wakeup, status, flagged, attempt, arg, router, losses>>

\* Two seconds' delay, the delay that is light sleep, or deep sleep.
Decide ==
  /\ pc["sensor"] = "decide"
  /\ Goto("sensor", IF Deep /\ ~s_ota_in_progress THEN "sleep" ELSE "read")
  /\ cmd' = NoCmd
  /\ UNCHANGED <<s_ota_in_progress, s_mutex, is_wakeup, status, flagged, attempt, arg, router, losses>>

\* esp_deep_sleep_start does not return: the timer wakes the node from reset.
DeepSleep == pc["sensor"] = "sleep" /\ Reset(TRUE)

------------------------------------------------------------------------------
(* ota_worker_task.                                                        *)

\* Mutant of DownloadOk: the node restarts before it acknowledges.
DownloadOkRestarts(w) ==
  /\ pc[w] = "download"
  /\ Goto(w, "restart")
  /\ UNCHANGED <<s_ota_in_progress, s_mutex, loop, arg, router, losses>>

DownloadOk(w) ==
  /\ pc[w] = "download"
  /\ Goto(w, "complete")
  /\ UNCHANGED <<s_ota_in_progress, s_mutex, loop, arg, router, losses>>

\* Mutant of DownloadFails: the guard stays up.
DownloadFailsGuarded(w) ==
  /\ pc[w] = "download"
  /\ Goto(w, "failed")
  /\ UNCHANGED <<s_ota_in_progress, s_mutex, loop, arg, router, losses>>

\* The guard is lowered before the failure is acknowledged.
DownloadFails(w) ==
  /\ pc[w] = "download"
  /\ s_ota_in_progress' = FALSE
  /\ Goto(w, "failed")
  /\ UNCHANGED <<s_mutex, loop, arg, router, losses>>

AckComplete(w) ==
  /\ Acknowledge(w, "complete", arg[w], "complete", "restart")
  /\ UNCHANGED <<s_ota_in_progress, loop, arg>>

\* Mutant of AckFailed: the failure is acknowledged as a success.
AckFailedOk(w) ==
  /\ Acknowledge(w, "failed", arg[w], "launched", "none")
  /\ arg' = [arg EXCEPT ![w] = NoCmd]
  /\ UNCHANGED <<s_ota_in_progress, loop>>

AckFailed(w) ==
  /\ Acknowledge(w, "failed", arg[w], "failed", "none")
  /\ arg' = [arg EXCEPT ![w] = NoCmd]
  /\ UNCHANGED <<s_ota_in_progress, loop>>

\* esp_restart, 500 ms after a reboot was acknowledged or 1 s after an update.
Restart(t) == pc[t] = "restart" /\ Reset(FALSE)

------------------------------------------------------------------------------

SensorStep ==
  \/ Attach \/ Register \/ ReadSensor \/ Upload \/ UploadFails \/ Poll
  \/ Handle \/ Ack \/ CreateWorker \/ CreateFails \/ Decide \/ DeepSleep
  \/ Restart("sensor")

WorkerStep(w) ==
  DownloadOk(w) \/ DownloadFails(w) \/ AckComplete(w) \/ AckFailed(w) \/ Restart(w)

Next ==
  \/ \E t \in Tasks : Take(t)
  \/ SensorStep
  \/ \E w \in Workers : WorkerStep(w)

Spec == Init /\ [][Next]_vars

\* The scheduler runs every task that can run, the Thread network is attached to
\* in the end, a download succeeds or fails, and the mutex, which FreeRTOS gives
\* to the waiting task of highest priority, reaches every waiter.
Fairness ==
  /\ WF_vars(SensorStep) /\ \A w \in Workers : WF_vars(WorkerStep(w))
  /\ \A t \in Tasks : SF_vars(Take(t))

FairSpec == Spec /\ Fairness

------------------------------------------------------------------------------
(* Properties.                                                             *)

\* The type invariant: a worker exists exactly while it has a command.
TypeOK ==
  /\ {s_ota_in_progress, is_wakeup, flagged} \subseteq BOOLEAN
  /\ s_mutex \in Tasks \cup {"free"}
  /\ pc \in [Tasks -> Requesting \cup {"attach", "read", "handle", "create", "decide", "sleep",
                                      "restart", "none", "download"}]
  /\ cmd \in Commands \cup {NoCmd} /\ status \in Statuses
  /\ attempt \in 0..CoapMaxRetries
  /\ arg \in [Workers -> Updates \cup {NoCmd}]
  /\ \A w \in Workers : pc[w] = "none" <=> arg[w] = NoCmd
  /\ pending \subseteq Commands /\ handed \subseteq Commands \ pending
  /\ acks \subseteq handed \X Statuses
  /\ losses \in 0..MaxLosses
  /\ s_mutex # "free" => pc[s_mutex] \in Requesting

\* A worker that downloads, or has downloaded and not yet restarted the node.
Updating(w) == pc[w] \in {"download", "complete", "restart"}

\* README.md:129, "Sleep Suppression Guard": the node is never on its way into
\* deep sleep while an update is executed, wherever the two tasks are.
NoSleepDuringOta == pc["sensor"] = "sleep" => \A w \in Workers : ~Updating(w)

\* README.md:129: telemetry that goes out while an image is downloaded is marked
\* NODE_FLAG_OTA_PENDING, though the mark was taken when the reading was.
TelemetryTellsOta ==
  pc["sensor"] = "upload" /\ (\E w \in Workers : Updating(w)) => flagged

\* app_node_main.c:243, "skip sleep if OTA is downloading": when the node
\* decides not to sleep some update is being executed.
GuardMeansOta ==
  pc["sensor"] = "decide" /\ s_ota_in_progress => \E w \in Workers : Updating(w)

\* README.md:380 again, at every moment: the end of an update that a node has
\* received is known to the router, or a task of the node is still at it.  No
\* restart comes before the acknowledgement, and no worker is forgotten.
UpdatesAccounted ==
  losses = 0 =>
    \A c \in Updates \cap handed :
      \/ \E code \in Final : <<c, code>> \in acks
      \/ pc["sensor"] \in {"handle", "ack", "create"} /\ cmd = c
      \/ \E w \in Workers : arg[w] = c /\ pc[w] \in {"download", "complete", "failed"}

\* README.md:380, "end-to-end execution confirmation": the border router learns
\* how every update it handed to the node ended, or that it was refused.
UpdatesConfirmed ==
  \A c \in Updates : c \in handed ~> \E code \in Final : <<c, code>> \in acks

\* Whatever is lost, fails, restarts or sleeps, the node goes on reporting.
ReportsForever == []<>(pc["sensor"] = "upload")
==============================================================================
