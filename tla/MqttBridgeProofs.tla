--------------------------- MODULE MqttBridgeProofs ---------------------------
(***************************************************************************)
(* The bridge's invariants, proved for any nodes and any number of         *)
(* requests and connections: the locks are never held against each other,  *)
(* and the broker learns of every node that is offline.                    *)
(***************************************************************************)
EXTENDS MqttBridge, TLAPS

\* Where each task can be, and whom the server and the sweep are busy with.
TypeInv ==
  /\ TypeOK
  /\ pc["coap"] \in {"idle", "lock", "update", "check", "publish"}
  /\ pc["timer"] \in {"idle", "mark", "check", "publish"}
  /\ pc["mqtt"] \in {"idle", "foreach", "each", "downlink"}
  /\ pc["coap"] # "idle" => job \in [kind : Kinds, node : Nodes]
  /\ pc["timer"] = "publish" => announcing \in Nodes

LEMMA TypeInit == Init => TypeInv
<1> SUFFICES ASSUME Init PROVE TypeInv
  OBVIOUS
<1>1. online \in [Nodes -> BOOLEAN] /\ s_connected \in BOOLEAN /\ hooked \in BOOLEAN
  BY Zenon DEF Init
<1>2. requests \in 0..MaxRequests /\ connects \in 0..MaxConnects
  BY BoundAssumption DEF Init
<1> QED
  BY <1>1, <1>2, NodeAssumption DEF Init, TypeInv, TypeOK, Tasks, Statuses

LEMMA TypeCoap == ASSUME TypeInv, CoapStep PROVE TypeInv'
<1> USE DEF TypeInv, TypeOK, Tasks, Goto, broker, sweep, counts, registry, locks, Answer
<1>1. CASE CoapLock
  BY <1>1 DEF CoapLock, TakeMutex
<1>2. CASE CoapUpdate
  <2>1. known' \subseteq Nodes /\ online' \in [Nodes -> BOOLEAN]
    BY <1>2 DEF CoapUpdate, Note
  <2> QED
    BY <1>2, <2>1 DEF CoapUpdate
<1>3. CASE CoapCheck
  BY <1>3 DEF CoapCheck
<1>4. CASE CoapPublish
  BY <1>4 DEF CoapPublish
<1> QED
  BY <1>1, <1>2, <1>3, <1>4 DEF CoapStep

LEMMA TypeSweep == ASSUME TypeInv, SweepLock \/ SweepStep PROVE TypeInv'
<1> USE DEF TypeInv, TypeOK, Tasks, Goto, broker, sweep, counts, registry, locks, Statuses
<1>1. CASE SweepLock
  BY <1>1 DEF SweepLock, TakeMutex
<1>2. CASE SweepMark
  <2>1. offline_list' \subseteq Nodes /\ online' \in [Nodes -> BOOLEAN]
    BY <1>2 DEF SweepMark
  <2> QED
    BY <1>2, <2>1 DEF SweepMark
<1>3. CASE SweepCheck
  BY <1>3 DEF SweepCheck
<1>4. CASE SweepPublish
  BY <1>4 DEF SweepPublish
<1>5. CASE SweepEnd
  BY <1>5 DEF SweepEnd
<1> QED
  BY <1>1, <1>2, <1>3, <1>4, <1>5 DEF SweepStep

LEMMA TypeMqtt ==
  ASSUME TypeInv, Connected \/ Disconnected \/ Downlink \/ HandlerStep \/ Deliver
  PROVE  TypeInv'
<1> USE DEF TypeInv, TypeOK, Tasks, Goto, broker, sweep, counts, registry, locks, Statuses
<1>1. CASE Connected
  BY <1>1, BoundAssumption DEF Connected, Dispatch
<1>2. CASE Disconnected
  BY <1>2 DEF Disconnected
<1>3. CASE Downlink
  BY <1>3 DEF Downlink, Dispatch
<1>4. CASE ForeachLock
  BY <1>4 DEF ForeachLock, TakeMutex
<1>5. CASE ForeachEach
  BY <1>5 DEF ForeachEach, Status
<1>6. CASE ForeachEnd
  BY <1>6 DEF ForeachEnd
<1>7. CASE DownlinkQueue
  BY <1>7 DEF DownlinkQueue
<1>8. CASE Deliver
  BY <1>8 DEF Deliver
<1> QED
  BY <1>1, <1>2, <1>3, <1>4, <1>5, <1>6, <1>7, <1>8 DEF HandlerStep

LEMMA TypeStep == ASSUME TypeInv, [Next]_vars PROVE TypeInv'
<1> USE DEF TypeInv, TypeOK, Tasks, Goto, broker, sweep, counts, registry, locks
<1>1. CASE Hook
  BY <1>1 DEF Hook
<1>2. ASSUME NEW n \in Nodes, NEW kind \in Kinds, Serve(n, kind) PROVE TypeInv'
  BY <1>2, BoundAssumption DEF Serve
<1>3. CASE UNCHANGED vars
  BY <1>3 DEF vars
<1> QED
  BY <1>1, <1>2, <1>3, TypeCoap, TypeSweep, TypeMqtt DEF Next

\* The bridge's tasks, locks and lists are what the model says they are, and who
\* holds the registry's mutex is at one of the three places that may.
THEOREM BridgeTypes == Spec => []TypeOK
<1>1. TypeInv => TypeOK
  BY DEF TypeInv
<1> QED
  BY TypeInit, TypeStep, <1>1, PTL DEF Spec

\* No deadly embrace: whoever holds the registry's mutex is not about to call the
\* MQTT library, because the registry's callbacks are made after it is given back
\* (app_device_registry.c:129-137, 259-268, 369-377).
THEOREM NoEmbrace == Spec => []NoDeadlyEmbrace
<1>1. TypeInv => NoDeadlyEmbrace
  BY DEF TypeInv, TypeOK, NoDeadlyEmbrace, WaitsForApi, Tasks
<1> QED
  BY TypeInit, TypeStep, <1>1, PTL DEF Spec

------------------------------------------------------------------------------
(* What the broker learns.                                                 *)

\* Somebody will still tell the broker that n is offline, or has told it.
Told(n) ==
  \/ unsent[n] = "offline"
  \/ unsent[n] = "none" /\ retained[n] = "offline"
  \/ n \in offline_list
  \/ pc["timer"] = "publish" /\ announcing = n
  \/ pc["mqtt"] = "foreach"
  \/ pc["mqtt"] = "each" /\ n \in todo

\* OfflineRetained speaks of the quiet moments only.  In between each offline
\* node is in somebody's hands; and the sweep's list is empty before it is made,
\* so that nobody in it is forgotten.
Owed ==
  /\ s_connected => \A n \in known : ~online[n] => Told(n)
  /\ pc["timer"] \in {"idle", "mark"} => offline_list = {}

LEMMA OwedStep == ASSUME TypeInv, Owed, [Next]_vars PROVE Owed'
<1> USE DEF TypeInv, TypeOK, Tasks, Goto, broker, sweep, counts, registry, locks, Owed, Told
<1>1. CASE Hook
  BY <1>1 DEF Hook
<1>2. ASSUME NEW n \in Nodes, NEW kind \in Kinds, Serve(n, kind) PROVE Owed'
  BY <1>2 DEF Serve
<1>3. CASE CoapStep
  <2>1. CASE CoapLock
    BY <2>1 DEF CoapLock, TakeMutex
  <2>2. CASE CoapUpdate
    BY <2>2 DEF CoapUpdate, Note, Answer
  <2>3. CASE CoapCheck
    BY <2>3 DEF CoapCheck, Answer
  <2>4. CASE CoapPublish
    BY <2>4 DEF CoapPublish, Answer
  <2> QED
    BY <1>3, <2>1, <2>2, <2>3, <2>4 DEF CoapStep
<1>4. CASE SweepLock \/ SweepStep
  <2>1. CASE SweepLock
    BY <2>1 DEF SweepLock, TakeMutex
  <2>2. CASE SweepMark
    BY <2>2 DEF SweepMark
  <2>3. CASE SweepCheck
    BY <2>3 DEF SweepCheck
  <2>4. CASE SweepPublish
    BY <2>4 DEF SweepPublish
  <2>5. CASE SweepEnd
    BY <2>5 DEF SweepEnd
  <2> QED
    BY <1>4, <2>1, <2>2, <2>3, <2>4, <2>5 DEF SweepStep
<1>5. CASE Connected
  BY <1>5 DEF Connected, Dispatch
<1>6. CASE Disconnected
  BY <1>6 DEF Disconnected
<1>7. CASE Downlink
  BY <1>7 DEF Downlink, Dispatch
<1>8. CASE HandlerStep
  <2>1. CASE ForeachLock
    BY <2>1 DEF ForeachLock, TakeMutex
  <2>2. CASE ForeachEach
    BY <2>2 DEF ForeachEach, Status
  <2>3. CASE ForeachEnd
    BY <2>3 DEF ForeachEnd
  <2>4. CASE DownlinkQueue
    BY <2>4 DEF DownlinkQueue
  <2> QED
    BY <1>8, <2>1, <2>2, <2>3, <2>4 DEF HandlerStep
<1>9. CASE Deliver
  BY <1>9 DEF Deliver
<1>10. CASE UNCHANGED vars
  BY <1>10 DEF vars
<1> QED
  BY <1>1, <1>2, <1>3, <1>4, <1>5, <1>6, <1>7, <1>8, <1>9, <1>10 DEF Next

\* Whatever the order in which the sweep, the connection and the event handler
\* come, once all is delivered the broker retains "offline" for every node that
\* is offline (app_device_registry.h:132, app_mqtt_bridge.c:101).
THEOREM OfflineIsTold == Spec => []OfflineRetained
<1>1. Init => Owed
  BY DEF Init, Owed, Tasks
<1>2. TypeInv /\ Owed => OfflineRetained
  BY DEF TypeInv, TypeOK, Owed, Told, OfflineRetained, Settled
<1> QED
  BY TypeInit, TypeStep, OwedStep, <1>1, <1>2, PTL DEF Spec
==============================================================================
