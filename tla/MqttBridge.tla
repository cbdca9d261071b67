------------------------------- MODULE MqttBridge -------------------------------
(***************************************************************************)
(* The MQTT bridge (app_mqtt_bridge.c) between the device registry and the *)
(* broker: who publishes a node's status, under which locks, and what a    *)
(* late subscriber finds retained at the broker.                           *)
(*                                                                         *)
(* Three tasks meet here.  "coap" serves requests and publishes telemetry  *)
(* and acknowledgements, "timer" sweeps and publishes who went offline,    *)
(* "mqtt" is the client library's task: it runs the event handler with the *)
(* library's API lock held, which every publish of another task needs.     *)
(* The registry's own contents are those of DeviceRegistry; here a node is *)
(* known or not, online or not, and the mutex is held step by step.        *)
(***************************************************************************)
EXTENDS Naturals

CONSTANTS
  Nodes,        \* the sensor nodes
  Stored,       \* those the registry restored from flash, offline
  NoNode,       \* no node
  MaxRequests,  \* bound: requests the CoAP server serves
  MaxConnects   \* bound: connections to the broker

ASSUME NodeAssumption  == NoNode \notin Nodes /\ Stored \subseteq Nodes
ASSUME BoundAssumption == MaxRequests \in Nat /\ MaxConnects \in Nat

VARIABLES
  known, online,     \* the registry: its nodes, and which of them are online
  s_mutex,           \* holder of the registry's mutex, or "free"
  api_lock,          \* holder of the MQTT library's lock, or "free"
  s_connected,       \* the bridge's connection flag
  hooked,            \* app_mqtt_bridge_start has set the registry's callbacks
  pc,                \* where each task is
  job,               \* the request the CoAP server is serving
  offline_list,      \* the sweep's nodes still to be announced
  announcing,        \* the one it is announcing
  todo,              \* nodes publish_all_status_cb has still to see
  unsent,            \* last status published per node that is still to be sent
  retained,          \* the status the broker retains per node
  requests, connects \* requests served, connections made

registry == <<known, online>>
locks    == <<s_mutex, api_lock>>
broker   == <<unsent, retained>>
sweep    == <<offline_list, announcing>>
counts   == <<requests, connects>>
vars     == <<registry, locks, broker, sweep, counts, s_connected, hooked, pc, job, todo>>

Tasks    == {"coap", "timer", "mqtt"}
Kinds    == {"register", "telemetry", "ack"}
Statuses == {"none", "online", "offline"}
NoJob    == [kind |-> "none", node |-> NoNode]

Status(n) == IF online[n] THEN "online" ELSE "offline"

Goto(t, l) == pc' = [pc EXCEPT ![t] = l]

\* Task t, at l, takes the registry's mutex and goes on at next.
TakeMutex(t, l, next) == /\ pc[t] = l /\ s_mutex = "free"
                         /\ s_mutex' = t /\ Goto(t, next)

\* app_main: the bridge's client is started, its callbacks are not yet set.
Init ==
  /\ known = Stored /\ online = [n \in Nodes |-> FALSE]
  /\ s_mutex = "free" /\ api_lock = "free"
  /\ s_connected = FALSE /\ hooked = FALSE
  /\ pc = [t \in Tasks |-> "idle"] /\ job = NoJob
  /\ offline_list = {} /\ announcing = NoNode /\ todo = {}
  /\ unsent = [n \in Nodes |-> "none"] /\ retained = [n \in Nodes |-> "none"]
  /\ requests = 0 /\ connects = 0

\* The last lines of app_mqtt_bridge_start; app_main starts the timer after it.
Hook ==
  /\ ~hooked /\ hooked' = TRUE
  /\ UNCHANGED <<registry, locks, broker, sweep, counts, s_connected, pc, job, todo>>

------------------------------------------------------------------------------
(* The CoAP server.  publish_telemetry and publish_cmd_ack read            *)
(* s_connected and then call the library, which takes its own lock.        *)

Serve(n, kind) ==
  /\ pc["coap"] = "idle" /\ requests < MaxRequests
  /\ requests' = requests + 1
  /\ job' = [kind |-> kind, node |-> n]
  /\ Goto("coap", "lock")
  /\ UNCHANGED <<registry, locks, broker, sweep, connects, s_connected, hooked, todo>>

Answer == job' = NoJob /\ Goto("coap", "idle")

CoapLock ==
  /\ TakeMutex("coap", "lock", "update")
  /\ UNCHANGED <<registry, api_lock, broker, sweep, counts, s_connected, hooked, job, todo>>

\* A registration or telemetry makes its node known and online.
Note == IF job.kind = "ack" THEN UNCHANGED registry
        ELSE known' = known \cup {job.node} /\ online' = [online EXCEPT ![job.node] = TRUE]

\* Mutant of CoapUpdate: the callback is made with the mutex held.
CoapUpdateLocked ==
  /\ pc["coap"] = "update"
  /\ Note
  /\ IF job.kind # "register" /\ job.node \in known'
       THEN Goto("coap", "check") /\ UNCHANGED <<s_mutex, job>>
       ELSE Answer /\ s_mutex' = "free"
  /\ UNCHANGED <<api_lock, broker, sweep, counts, s_connected, hooked, todo>>

\* register, update and record_cmd_ack give the mutex back and then, unless it
\* was a registration or an unknown node's ack, call the bridge.
CoapUpdate ==
  /\ pc["coap"] = "update"
  /\ s_mutex' = "free"
  /\ Note
  /\ IF job.kind # "register" /\ job.node \in known'
       THEN Goto("coap", "check") /\ UNCHANGED job
       ELSE Answer
  /\ UNCHANGED <<api_lock, broker, sweep, counts, s_connected, hooked, todo>>

CoapCheck ==
  /\ pc["coap"] = "check"
  /\ IF hooked /\ s_connected THEN Goto("coap", "publish") /\ UNCHANGED job ELSE Answer
  /\ UNCHANGED <<registry, locks, broker, sweep, counts, s_connected, hooked, todo>>

\* Telemetry and acknowledgements are not retained: only the lock matters.
CoapPublish ==
  /\ pc["coap"] = "publish" /\ api_lock = "free"
  /\ Answer
  /\ UNCHANGED <<registry, locks, broker, sweep, counts, s_connected, hooked, todo>>

CoapStep == CoapLock \/ CoapUpdate \/ CoapCheck \/ CoapPublish

------------------------------------------------------------------------------
(* The sweep.                                                              *)

SweepLock ==
  /\ hooked
  /\ TakeMutex("timer", "idle", "mark")
  /\ UNCHANGED <<registry, api_lock, broker, sweep, counts, s_connected, hooked, job, todo>>

\* Any of the online nodes may have been silent for the TTL.
SweepMark ==
  /\ pc["timer"] = "mark"
  /\ \E silent \in SUBSET {n \in known : online[n]} :
       /\ offline_list' = silent
       /\ online' = [n \in Nodes |-> online[n] /\ n \notin silent]
  /\ s_mutex' = "free"
  /\ Goto("timer", "check")
  /\ UNCHANGED <<known, api_lock, announcing, broker, counts, s_connected, hooked, job, todo>>

\* Mutant of SweepCheck: a node that cannot be announced stays in the list.
SweepCheckStuck ==
  /\ pc["timer"] = "check"
  /\ \E n \in offline_list :
       IF s_connected THEN /\ announcing' = n /\ Goto("timer", "publish")
                           /\ offline_list' = offline_list \ {n}
                      ELSE UNCHANGED <<sweep, pc>>
  /\ UNCHANGED <<registry, locks, broker, counts, s_connected, hooked, job, todo>>

\* on_device_status for the next node: publish_status reads s_connected.
SweepCheck ==
  /\ pc["timer"] = "check"
  /\ \E n \in offline_list :
       /\ offline_list' = offline_list \ {n}
       /\ IF s_connected THEN announcing' = n /\ Goto("timer", "publish")
                         ELSE UNCHANGED <<announcing, pc>>
  /\ UNCHANGED <<registry, locks, broker, counts, s_connected, hooked, job, todo>>

\* Mutant of SweepPublish: the announcement ends the loop over the list.
SweepPublishFirst ==
  /\ pc["timer"] = "publish" /\ api_lock = "free"
  /\ unsent' = [unsent EXCEPT ![announcing] = "offline"]
  /\ announcing' = NoNode /\ offline_list' = {}
  /\ Goto("timer", "check")
  /\ UNCHANGED <<registry, locks, retained, counts, s_connected, hooked, job, todo>>

SweepPublish ==
  /\ pc["timer"] = "publish" /\ api_lock = "free"
  /\ unsent' = [unsent EXCEPT ![announcing] = "offline"]
  /\ announcing' = NoNode
  /\ Goto("timer", "check")
  /\ UNCHANGED <<registry, locks, retained, offline_list, counts, s_connected, hooked, job, todo>>

SweepEnd ==
  /\ pc["timer"] = "check" /\ offline_list = {}
  /\ Goto("timer", "idle")
  /\ UNCHANGED <<registry, locks, broker, sweep, counts, s_connected, hooked, job, todo>>

SweepStep == SweepMark \/ SweepCheck \/ SweepPublish \/ SweepEnd

------------------------------------------------------------------------------
(* The library's task and mqtt_event_handler.                              *)

\* The library's task begins to dispatch an event.
Dispatch(l) == pc["mqtt"] = "idle" /\ api_lock = "free" /\ api_lock' = "mqtt" /\ Goto("mqtt", l)

\* MQTT_EVENT_CONNECTED: the flag is set before the nodes are looked at.
Connected ==
  /\ ~s_connected /\ connects < MaxConnects
  /\ Dispatch("foreach")
  /\ s_connected' = TRUE
  /\ connects' = connects + 1
  /\ UNCHANGED <<registry, s_mutex, broker, sweep, requests, hooked, job, todo>>

\* app_device_registry_foreach takes the mutex for the whole loop.
ForeachLock ==
  /\ TakeMutex("mqtt", "foreach", "each")
  /\ todo' = known
  /\ UNCHANGED <<registry, api_lock, broker, sweep, counts, s_connected, hooked, job>>

\* Mutant of ForeachEach: only the online nodes are published.
ForeachEachOnline ==
  /\ pc["mqtt"] = "each"
  /\ \E n \in todo : /\ unsent' = IF online[n] THEN [unsent EXCEPT ![n] = Status(n)] ELSE unsent
                     /\ todo' = todo \ {n}
  /\ UNCHANGED <<registry, locks, retained, sweep, counts, s_connected, hooked, pc, job>>

\* publish_all_status_cb; the library's lock is held already, and is recursive.
ForeachEach ==
  /\ pc["mqtt"] = "each"
  /\ \E n \in todo : /\ unsent' = [unsent EXCEPT ![n] = Status(n)]
                     /\ todo' = todo \ {n}
  /\ UNCHANGED <<registry, locks, retained, sweep, counts, s_connected, hooked, pc, job>>

\* Mutant of ForeachEnd: the registry's mutex is not given back.
ForeachEndLocked ==
  /\ pc["mqtt"] = "each" /\ todo = {}
  /\ api_lock' = "free"
  /\ Goto("mqtt", "idle")
  /\ UNCHANGED <<registry, s_mutex, broker, sweep, counts, s_connected, hooked, job, todo>>

ForeachEnd ==
  /\ pc["mqtt"] = "each" /\ todo = {}
  /\ s_mutex' = "free" /\ api_lock' = "free"
  /\ Goto("mqtt", "idle")
  /\ UNCHANGED <<registry, broker, sweep, counts, s_connected, hooked, job, todo>>

\* MQTT_EVENT_DISCONNECTED: what was not sent may be kept for later, or lost.
Disconnected ==
  /\ s_connected
  /\ pc["mqtt"] = "idle" /\ api_lock = "free"
  /\ s_connected' = FALSE
  /\ unsent' = unsent \/ unsent' = [n \in Nodes |-> "none"]
  /\ UNCHANGED <<registry, locks, retained, sweep, counts, hooked, pc, job, todo>>

\* MQTT_EVENT_DATA: handle_downlink queues a command, under the mutex.
Downlink ==
  /\ s_connected
  /\ Dispatch("downlink")
  /\ UNCHANGED <<registry, s_mutex, broker, sweep, counts, s_connected, hooked, job, todo>>

DownlinkQueue ==
  /\ pc["mqtt"] = "downlink" /\ s_mutex = "free"
  /\ api_lock' = "free" /\ Goto("mqtt", "idle")
  /\ UNCHANGED <<registry, s_mutex, broker, sweep, counts, s_connected, hooked, job, todo>>

\* The broker receives a status published with retain=1 and keeps it.
Deliver ==
  /\ s_connected
  /\ \E n \in Nodes : /\ unsent[n] # "none"
                      /\ retained' = [retained EXCEPT ![n] = unsent[n]]
                      /\ unsent' = [unsent EXCEPT ![n] = "none"]
  /\ UNCHANGED <<registry, locks, sweep, counts, s_connected, hooked, pc, job, todo>>

HandlerStep == ForeachLock \/ ForeachEach \/ ForeachEnd \/ DownlinkQueue

------------------------------------------------------------------------------

Next ==
  \/ Hook
  \/ \E n \in Nodes, kind \in Kinds : Serve(n, kind)
  \/ CoapStep
  \/ SweepLock \/ SweepStep
  \/ Connected \/ Disconnected \/ Downlink \/ HandlerStep
  \/ Deliver

Spec == Init /\ [][Next]_vars

\* A task that has begun goes on, a waiting task is given the lock in the end,
\* and the broker receives what is sent; requests, sweeps and connections owe
\* nobody anything.
Fairness == /\ WF_vars(Hook) /\ SF_vars(CoapStep) /\ SF_vars(SweepStep)
            /\ SF_vars(HandlerStep) /\ SF_vars(Deliver)

FairSpec == Spec /\ Fairness
------------------------------------------------------------------------------
(* Properties.                                                             *)

\* The type invariant, and who holds the locks where.
TypeOK ==
  /\ known \subseteq Nodes /\ online \in [Nodes -> BOOLEAN]
  /\ s_mutex \in Tasks \cup {"free"} /\ api_lock \in {"mqtt", "free"}
  /\ s_connected \in BOOLEAN /\ hooked \in BOOLEAN
  /\ pc \in [Tasks -> {"idle", "lock", "update", "check", "publish", "mark", "foreach", "each",
                       "downlink"}]
  /\ job \in [kind : Kinds, node : Nodes] \cup {NoJob}
  /\ offline_list \subseteq Nodes /\ announcing \in Nodes \cup {NoNode} /\ todo \subseteq Nodes
  /\ unsent \in [Nodes -> Statuses] /\ retained \in [Nodes -> Statuses]
  /\ requests \in 0..MaxRequests /\ connects \in 0..MaxConnects
  /\ s_mutex # "free" => pc[s_mutex] \in {"update", "mark", "each"}

WaitsForMutex(t) == pc[t] \in {"lock", "foreach", "downlink"} /\ s_mutex # "free"
WaitsForApi(t)   == pc[t] = "publish" /\ api_lock # "free"

\* No task waits for the library's lock with the registry's mutex in hand
\* while the library's task, inside its event handler, waits for the mutex.
NoDeadlyEmbrace ==
  \A t \in Tasks : ~(s_mutex = t /\ WaitsForApi(t) /\ WaitsForMutex(api_lock))

\* Connected, and nothing is under way between the registry and the broker.
Settled == /\ s_connected /\ pc["mqtt"] = "idle" /\ pc["timer"] = "idle"
           /\ \A n \in Nodes : unsent[n] = "none"

\* Once all is delivered the broker retains "offline" for every offline node,
\* even one that went offline before or while the bridge was connecting.
OfflineRetained ==
  Settled => \A n \in known : ~online[n] => retained[n] = "offline"

\* app_device_registry.h:132 and app_mqtt_bridge.c:101: once all is delivered
\* a late subscriber finds the current status of every node.
StatusCurrent == Settled => \A n \in known : retained[n] = Status(n)

\* While the bridge stays connected, the broker learns of every node that is
\* and stays offline.
OfflineReachesBroker ==
  \A n \in Nodes : n \in known /\ ~online[n] /\ s_connected
                     ~> retained[n] = "offline" \/ online[n] \/ ~s_connected

\* Every request is answered, every sweep and every event handler ends:
\* whatever the locks, nobody waits for ever.
TasksReturn == \A t \in Tasks : pc[t] # "idle" ~> pc[t] = "idle"
==============================================================================
